------------------------------ MODULE Sessions ------------------------------
(***************************************************************************)
(* The session manager of the server and the handlers that pair, poll and  *)
(* log out ONE user id (main.go, admin_routes.go, admin_logout.go).  Two   *)
(* maps in memory hold the user's client, two tables hold its device for   *)
(* the next start.  Every handler reads the maps, then works on what it    *)
(* read while other handlers run.                                          *)
(*                                                                         *)
(* A device stands for a whatsmeow client and its JID: each pairing gets a *)
(* new one, and a restart builds a new client for a stored one.            *)
(***************************************************************************)
EXTENDS Naturals, FiniteSets

CONSTANTS
  Handlers,     \* HTTP requests in flight
  Devices,      \* whatsmeow devices the process may create
  Tokens,       \* pairing links of the user id
  Admin,        \* the kind of a request that carries no pairing link
  None,         \* a nil Session, an absent row
  Legacy,       \* the device users.db names for the user id, or None
  MaxErrors,    \* bound: failing database statements
  MaxFaults,    \* bound: drops, removals on the phone and failing calls
  MaxRestarts   \* bound: server restarts

ASSUME DevicesAssumption == None \notin Devices \cup Handlers /\ Legacy \in Devices \cup {None}
ASSUME KindsAssumption == Admin \notin Tokens
ASSUME BoundsAssumption == {MaxErrors, MaxFaults, MaxRestarts} \subseteq Nat

VARIABLES
  active,     \* manager.sessions[uid]
  pending,    \* manager.pending[uid]
  dev,        \* the clients and what WhatsApp knows of them
  userRow,    \* the device user_sessions names
  waRow,      \* the device whatsapp_sessions names
  link,       \* the rows of pairing_links
  auto,       \* auto-message goroutines started for a link
  pc,         \* where a handler is
  kind,       \* Admin, or the token of a handler's request
  mine,       \* the session a handler works on
  alone,      \* history: a logout that ran with no other handler in flight, or None
  clean,      \* history: no logout overlapped another handler, no error was ignored
  errors, faults, restarts

vars == <<active, pending, dev, userRow, waRow, link, auto, pc, kind, mine,
          alone, clean, errors, faults, restarts>>
memory == <<active, pending>>
tables == <<userRow, waRow, link>>
history == <<auto, alone, clean>>
bounds == <<errors, faults, restarts>>

Maybe == Devices \cup {None}
Kinds == Tokens \cup {Admin}

\* "absent" before NewDevice, "new" until the phone confirms the code, "paired"
\* while Store.ID is set and the device is stored, "deleted" after Store.Delete.
Device == [st : {"absent", "new", "paired", "deleted"},
           conn : BOOLEAN,                         \* IsConnected
           logged : BOOLEAN,                       \* IsLoggedIn
           linked : BOOLEAN,                       \* listed on the phone
           tries : BOOLEAN,                        \* a client that reconnects by itself
           code : {"none", "live", "expired"}]     \* the pairing code it gave

\* Only a device with a JID is listed on the phone, only one that is not deleted
\* is connected, and a code belongs to a device that is not paired yet.
Coherent(x) ==
  /\ x.linked => x.st = "paired"
  /\ x.conn => x.st \in {"new", "paired"}
  /\ x.code # "none" => x.st = "new"

Absent == [st |-> "absent", conn |-> FALSE, logged |-> FALSE, linked |-> FALSE,
           tries |-> FALSE, code |-> "none"]
Stored == [Absent EXCEPT !.st = "paired", !.linked = TRUE]

Steps == {"idle", "pair", "create", "phone", "poll", "save1", "save2", "use", "activate",
          "logout", "delete1", "delete2"}

Init ==
  /\ active = None /\ pending = None
  /\ dev = [d \in Devices |-> IF d = Legacy THEN Stored ELSE Absent]
  /\ userRow = None /\ waRow = None
  /\ link = [t \in Tokens |-> "open"]
  /\ auto = [t \in Tokens |-> 0]
  /\ pc = [h \in Handlers |-> "idle"]
  /\ kind = [h \in Handlers |-> Admin]
  /\ mine = [h \in Handlers |-> None]
  /\ alone = None /\ clean = TRUE
  /\ errors = 0 /\ faults = 0 /\ restarts = 0

(***************************************************************************)
(* The manager: one critical section of manager.mu each                    *)
(***************************************************************************)

getSession == IF active # None THEN active ELSE pending

Free_IgnoresActive == pending = None
\* createPendingSession refuses when either map has the user id.
Free == active = None /\ pending = None

setActive(s) == active' = s /\ pending' = None

RemoveSession_KeepsPending == active' = None /\ UNCHANGED pending
removeSession == active' = None /\ pending' = None

(***************************************************************************)
(* Handlers: their common parts                                            *)
(***************************************************************************)

Goto(h, where) == pc' = [pc EXCEPT ![h] = where]

Return(h) ==
  /\ Goto(h, "idle")
  /\ kind' = [kind EXCEPT ![h] = Admin]
  /\ mine' = [mine EXCEPT ![h] = None]

Continue(h, where) == Goto(h, where) /\ UNCHANGED <<kind, mine>>

Others(h) == Handlers \ {h}
LoggingOut == {h \in Handlers : pc[h] \in {"logout", "delete1", "delete2"}}

\* getPairLink: the link exists, is not used and has not expired.
LinkOpen(t) == link[t] = "open"

\* A request arrives: /pair or /status of the admin, or the public page of a link,
\* whose first read is getPairLink.
Request(h, k, where) ==
  /\ pc[h] = "idle"
  /\ k \in Tokens => LinkOpen(k)
  /\ Goto(h, where)
  /\ kind' = [kind EXCEPT ![h] = k]
  /\ alone' = None
  /\ clean' = (clean /\ LoggingOut = {})
  /\ UNCHANGED <<memory, dev, tables, auto, mine, bounds>>

\* A statement fails.
DbError == errors < MaxErrors /\ errors' = errors + 1
\* A call to WhatsApp fails, or WhatsApp acts on its own.
Fault == faults < MaxFaults /\ faults' = faults + 1

(***************************************************************************)
(* pairHandler and publicPairStartHandler                                  *)
(***************************************************************************)

\* The two refusals: "already connected" and "Pairing is already in progress".
AlreadyPaired == getSession # None /\ dev[getSession].logged
InProgress == getSession # None /\ ~dev[getSession].logged

\* getSession; when it is nil, NewDevice, NewClient and Connect.
PairLook(h) ==
  /\ pc[h] = "pair"
  /\ \/ /\ AlreadyPaired \/ InProgress
        /\ Return(h)
        /\ UNCHANGED <<dev, faults>>
     \/ /\ getSession = None
        /\ \/ Fault                                               \* Connect failed
           \/ (\A d \in Devices : dev[d].st # "absent") /\ UNCHANGED faults
        /\ Return(h)
        /\ UNCHANGED dev
     \/ /\ getSession = None
        /\ \E d \in Devices :
             /\ dev[d].st = "absent"
             /\ dev' = [dev EXCEPT ![d] = [Absent EXCEPT !.st = "new", !.conn = TRUE, !.tries = TRUE]]
             /\ mine' = [mine EXCEPT ![h] = d]
        /\ Goto(h, "create")
        /\ UNCHANGED <<kind, faults>>
  /\ UNCHANGED <<memory, tables, auto, alone, clean, errors, restarts>>

\* createPendingSession; a loser leaves its connected client behind.
PairCreate(h) ==
  /\ pc[h] = "create"
  /\ \/ /\ Free
        /\ pending' = mine[h] /\ UNCHANGED active
        /\ Continue(h, "phone")
     \/ /\ ~Free
        /\ Return(h)
        /\ UNCHANGED memory
  /\ UNCHANGED <<dev, tables, history, bounds>>

\* PairPhone.  On an error the handler removes whatever the maps hold for the
\* user id, and does not disconnect the client.
PairPhone(h) ==
  /\ pc[h] = "phone"
  /\ \/ /\ dev[mine[h]].conn
        /\ dev' = [dev EXCEPT ![mine[h]].code = "live"]
        /\ UNCHANGED <<memory, faults>>
     \/ /\ \/ Fault
           \/ ~dev[mine[h]].conn /\ UNCHANGED faults
        /\ removeSession
        /\ UNCHANGED dev
  /\ Return(h)
  /\ UNCHANGED <<tables, history, errors, restarts>>

(***************************************************************************)
(* statusHandler and publicPairStatusHandler                               *)
(***************************************************************************)

HasJID(s) == s # None /\ dev[s].logged /\ dev[s].st = "paired"

\* getSession and the reads of the client.  The handler goes on only for a
\* client that is logged in and has a JID; otherwise it only answers.
PollLook(h) ==
  /\ pc[h] = "poll"
  /\ \/ /\ HasJID(getSession)
        /\ mine' = [mine EXCEPT ![h] = getSession]
        /\ Goto(h, "save1")
        /\ UNCHANGED kind
     \/ ~HasJID(getSession) /\ Return(h)
  /\ UNCHANGED <<memory, dev, tables, history, bounds>>

\* What the caller of saveUserSession does with its result: statusHandler
\* activates the session only when it was saved, the public handler goes on.
AfterSave_Ignored(h, ok) ==
  IF kind[h] = Admin THEN Continue(h, "activate") ELSE Continue(h, "use")
AfterSave(h, ok) ==
  IF kind[h] = Admin
  THEN IF ok THEN Continue(h, "activate") ELSE Return(h)
  ELSE Continue(h, "use")

\* An ignored error leaves an active session that no row names.
Ignored(h) == clean' = (clean /\ kind[h] = Admin)

\* saveUserSession, first statement.  The JID is read again here; when the device
\* was deleted in between, the handler panics and net/http ends the request.
Save1(h) ==
  /\ pc[h] = "save1"
  /\ \/ /\ dev[mine[h]].st = "deleted"
        /\ Return(h)
        /\ UNCHANGED <<userRow, clean, errors>>
     \/ /\ dev[mine[h]].st = "paired"
        /\ userRow' = mine[h]
        /\ Continue(h, "save2")
        /\ UNCHANGED <<clean, errors>>
     \/ /\ dev[mine[h]].st = "paired"
        /\ DbError
        /\ AfterSave(h, FALSE)
        /\ Ignored(h)
        /\ UNCHANGED userRow
  /\ UNCHANGED <<memory, dev, waRow, link, auto, alone, faults, restarts>>

Save2(h) ==
  /\ pc[h] = "save2"
  /\ \/ /\ waRow' = mine[h]
        /\ AfterSave(h, TRUE)
        /\ UNCHANGED <<clean, errors>>
     \/ /\ DbError
        /\ AfterSave(h, FALSE)
        /\ Ignored(h)
        /\ UNCHANGED waRow
  /\ UNCHANGED <<memory, dev, userRow, link, auto, alone, faults, restarts>>

\* UPDATE pairing_links SET used=true WHERE token=$1 AND used=false: the number
\* of rows it changed.
RowsAffected_Any(t) == 1
RowsAffected(t) == IF link[t] = "used" THEN 0 ELSE 1

\* The link becomes used; who changed its row starts maybeSendAutoPairMessage.
Use(h) ==
  /\ pc[h] = "use"
  /\ \/ /\ link' = [link EXCEPT ![kind[h]] = "used"]
        /\ auto' = [auto EXCEPT ![kind[h]] = @ + RowsAffected(kind[h])]
        /\ UNCHANGED errors
     \/ DbError /\ UNCHANGED <<link, auto>>
  /\ Continue(h, "activate")
  /\ UNCHANGED <<memory, dev, userRow, waRow, alone, clean, faults, restarts>>

\* setActive, for the session the handler saw when it began.
Activate(h) ==
  /\ pc[h] = "activate"
  /\ setActive(mine[h])
  /\ Return(h)
  /\ UNCHANGED <<dev, tables, history, bounds>>

(***************************************************************************)
(* logoutHandler                                                           *)
(***************************************************************************)

\* removeSession empties both maps but returns only an active session: a pending
\* one is neither logged out nor disconnected.
LogoutBegin(h) ==
  /\ pc[h] = "idle"
  /\ removeSession
  /\ mine' = [mine EXCEPT ![h] = active]
  /\ Goto(h, IF active = None THEN "delete1" ELSE "logout")
  /\ LET quiet == \A g \in Others(h) : pc[g] = "idle"
     IN  alone' = (IF quiet THEN h ELSE None) /\ clean' = (clean /\ quiet)
  /\ UNCHANGED <<dev, tables, auto, kind, bounds>>

\* client.Logout once the server has answered: Disconnect, then Store.Delete.
LoggedOut_NoDisconnect(x) == [x EXCEPT !.tries = FALSE, !.linked = FALSE, !.st = "deleted"]
LoggedOut(x) == [x EXCEPT !.conn = FALSE, !.tries = FALSE, !.linked = FALSE, !.st = "deleted"]

\* client.Logout under s.mu, its error ignored: the request can fail, the device
\* may already be gone, and deleting it from the store can fail.
LogoutClient(h) ==
  /\ pc[h] = "logout"
  /\ LET d == mine[h] IN
       \/ /\ dev[d].logged /\ dev[d].st = "paired" /\ dev[d].conn
          /\ dev' = [dev EXCEPT ![d] = LoggedOut(@)]
          /\ UNCHANGED <<errors, faults>>
       \/ /\ dev[d].logged /\ dev[d].st = "paired" /\ dev[d].conn
          /\ DbError
          /\ dev' = [dev EXCEPT ![d] = [LoggedOut(@) EXCEPT !.st = "paired"]]
          /\ UNCHANGED faults
       \/ Fault /\ UNCHANGED <<dev, errors>>
       \/ ~(dev[d].logged /\ dev[d].st = "paired" /\ dev[d].conn) /\ UNCHANGED <<dev, errors, faults>>
  /\ Continue(h, "delete1")
  /\ UNCHANGED <<memory, tables, history, restarts>>

Delete1(h) ==
  /\ pc[h] = "delete1"
  /\ \/ userRow' = None /\ Continue(h, "delete2") /\ UNCHANGED <<alone, errors>>
     \/ DbError /\ Return(h) /\ alone' = None /\ UNCHANGED userRow
  /\ UNCHANGED <<memory, dev, waRow, link, auto, clean, faults, restarts>>

Delete2(h) ==
  /\ pc[h] = "delete2"
  /\ \/ waRow' = None /\ UNCHANGED <<alone, errors>>
     \/ DbError /\ alone' = None /\ UNCHANGED waRow
  /\ Return(h)
  /\ UNCHANGED <<memory, dev, userRow, link, auto, clean, faults, restarts>>

\* adminReconnectHandler; Connect refuses a deleted device.
Reconnect(h) ==
  /\ pc[h] = "idle"
  /\ getSession # None
  /\ LET d == getSession IN
       /\ dev[d].logged /\ ~dev[d].conn /\ dev[d].st = "paired"
       /\ dev' = [dev EXCEPT ![d].conn = TRUE, ![d].tries = TRUE]
  /\ UNCHANGED <<memory, tables, history, pc, kind, mine, bounds>>

(***************************************************************************)
(* WhatsApp, the phone, time and the process                               *)
(***************************************************************************)

\* The user enters the code and handlePair runs.  The device is stored, and the
\* server ends the connection with a 515 so that the client logs in.  A failure
\* disconnects the client, and some of them delete the device again.
EnterCode(d) ==
  /\ dev[d].st = "new" /\ dev[d].conn /\ dev[d].code = "live"
  /\ \/ dev' = [dev EXCEPT ![d] = [Stored EXCEPT !.tries = TRUE]] /\ UNCHANGED faults
     \/ /\ Fault                                                  \* PairError
        /\ \/ dev' = [dev EXCEPT ![d].conn = FALSE, ![d].tries = FALSE]
           \/ dev' = [dev EXCEPT ![d] = [Absent EXCEPT !.st = "deleted"]]
  /\ UNCHANGED <<memory, tables, history, pc, kind, mine, errors, restarts>>

\* The websocket of an unpaired client is closed when its codes run out; without
\* Store.ID autoReconnect does nothing.
CodeExpires(d) ==
  /\ dev[d].st = "new" /\ dev[d].code = "live"
  /\ dev' = [dev EXCEPT ![d].conn = FALSE, ![d].code = "expired"]
  /\ UNCHANGED <<memory, tables, history, pc, kind, mine, bounds>>

\* The reconnect after a 515 or autoReconnect, up to the success node or, for a
\* device the phone removed, the 401 that deletes it.
LogIn(d) ==
  /\ dev[d].st = "paired" /\ dev[d].tries
  /\ ~(dev[d].linked /\ dev[d].conn /\ dev[d].logged)
  /\ dev' = IF dev[d].linked
            THEN [dev EXCEPT ![d].conn = TRUE, ![d].logged = TRUE]
            ELSE [dev EXCEPT ![d].conn = FALSE, ![d].st = "deleted"]
  /\ UNCHANGED <<memory, tables, history, pc, kind, mine, bounds>>

Drop(d) ==
  /\ dev[d].conn
  /\ Fault
  /\ dev' = [dev EXCEPT ![d].conn = FALSE]
  /\ UNCHANGED <<memory, tables, history, pc, kind, mine, errors, restarts>>

\* The phone removes the device; a connected client gets device_removed.
PhoneRemoves(d) ==
  /\ dev[d].linked
  /\ Fault
  /\ dev' = [dev EXCEPT ![d] = IF @.conn
               THEN [@ EXCEPT !.linked = FALSE, !.conn = FALSE, !.logged = FALSE, !.st = "deleted"]
               ELSE [@ EXCEPT !.linked = FALSE]]
  /\ UNCHANGED <<memory, tables, history, pc, kind, mine, errors, restarts>>

LinkExpires(t) ==
  /\ link[t] = "open"
  /\ link' = [link EXCEPT ![t] = "expired"]
  /\ UNCHANGED <<memory, dev, userRow, waRow, history, pc, kind, mine, bounds>>

\* What a start makes of a client object of the process before: it is gone, and
\* only a stored device is left of it.
Gone(x) == [x EXCEPT !.st = IF @ = "new" THEN "deleted" ELSE @, !.conn = FALSE,
                     !.logged = FALSE, !.tries = FALSE, !.code = "none"]

\* copyLegacyUserSessions runs at every start, over the rows written since.
Migrated == IF Legacy = None THEN userRow ELSE Legacy

\* GetDevice finds the device the row names.
Loadable == Migrated # None /\ dev[Migrated].st = "paired"

\* main: the legacy rows are copied, then loadSessions builds a client for the
\* stored device of the row and keeps it if it connects.
Restart ==
  /\ restarts < MaxRestarts
  /\ restarts' = restarts + 1
  /\ userRow' = Migrated
  /\ pending' = None
  /\ LET after == [d \in Devices |-> Gone(dev[d])] IN
       \/ /\ Loadable
          /\ active' = Migrated
          /\ dev' = [after EXCEPT ![Migrated].conn = TRUE, ![Migrated].tries = TRUE]
          /\ UNCHANGED faults
       \/ /\ ~Loadable
          /\ active' = None /\ dev' = after
          /\ UNCHANGED faults
       \/ /\ Fault
          /\ active' = None /\ dev' = after
  /\ pc' = [h \in Handlers |-> "idle"]
  /\ kind' = [h \in Handlers |-> Admin]
  /\ mine' = [h \in Handlers |-> None]
  /\ alone' = None
  /\ UNCHANGED <<waRow, link, auto, clean, errors>>

-----------------------------------------------------------------------------
StepOf(h) ==
  \/ PairLook(h) \/ PairCreate(h) \/ PairPhone(h)
  \/ PollLook(h) \/ Save1(h) \/ Save2(h) \/ Use(h) \/ Activate(h)
  \/ LogoutClient(h) \/ Delete1(h) \/ Delete2(h)

Next ==
  \/ \E h \in Handlers :
       \/ \E k \in Kinds : Request(h, k, "pair") \/ Request(h, k, "poll")
       \/ LogoutBegin(h) \/ Reconnect(h) \/ StepOf(h)
  \/ \E d \in Devices : EnterCode(d) \/ CodeExpires(d) \/ LogIn(d) \/ Drop(d) \/ PhoneRemoves(d)
  \/ \E t \in Tokens : LinkExpires(t)
  \/ Restart

Spec == Init /\ [][Next]_vars

-----------------------------------------------------------------------------
(***************************************************************************)
(* Properties                                                              *)
(***************************************************************************)

\* Every variable keeps its type, and no handler or event leaves a client object
\* whose parts contradict each other (a deleted device that is still connected).
TypeOK ==
  /\ active \in Maybe /\ pending \in Maybe
  /\ dev \in [Devices -> Device] /\ \A d \in Devices : Coherent(dev[d])
  /\ userRow \in Maybe /\ waRow \in Maybe
  /\ link \in [Tokens -> {"open", "used", "expired"}]
  /\ auto \in [Tokens -> Nat]
  /\ pc \in [Handlers -> Steps]
  /\ kind \in [Handlers -> Kinds]
  /\ mine \in [Handlers -> Maybe]
  /\ alone \in Handlers \cup {None} /\ clean \in BOOLEAN
  /\ {errors, faults, restarts} \subseteq Nat

\* A user id is never active and pending at once, although the handler that
\* creates a pending session looked at the maps long before it writes to them.
OneSession == active = None \/ pending = None

\* However many polls of the public page see the login, a pairing link starts
\* the automatic message once.
AutoMessageOnce == \A t \in Tokens : auto[t] <= 1

\* When nothing is in flight, no logout overlapped another request and the public
\* page ignored no error, the session in use is the one the next start loads.
RowMatchesActive ==
  clean /\ active # None /\ (\A h \in Handlers : pc[h] = "idle") => userRow = active

\* A logout that no other request overlapped, and whose statements worked,
\* leaves neither a session nor a row of the user id behind.
LogoutForgets ==
  [][\A h \in Handlers :
       alone = h /\ pc[h] = "delete2" /\ pc'[h] = "idle" /\ alone' = h
         => /\ active' = None /\ pending' = None
            /\ userRow' = None /\ waRow' = None]_vars

\* The public page tells the user to generate a new code once the old one has
\* expired, so a request that arrives then does not find the old pairing still in
\* its way (it would be refused as "already in progress").
NewCodeAfterExpiry ==
  [][\A h \in Handlers, t \in Tokens :
       Request(h, t, "pair") => ~(InProgress /\ dev[getSession].code = "expired")]_vars

=============================================================================
