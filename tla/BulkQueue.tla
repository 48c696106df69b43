------------------------------ MODULE BulkQueue ------------------------------
(***************************************************************************)
(* The bulk message queue (bulk_messaging.go): the table bulk_messages, the *)
(* background worker, and the HTTP handlers of the admin page, which       *)
(* import rows, send a batch themselves, pause, resume, cancel, retry and  *)
(* clear, and of which every one first runs ensureBulkMessageTable.        *)
(*                                                                         *)
(* A row keeps its key, its status, its sender and, while it is being      *)
(* sent, the time since its claim (updated_at): attempts, last_error and   *)
(* the other time stamps decide nothing.  Each SQL statement is one step.  *)
(* safeSendMessage is seen from outside (SafeSend models it): it delivers  *)
(* the message or not, and it returns an error or not, and an error does   *)
(* not mean that nothing was delivered.                                    *)
(***************************************************************************)
EXTENDS Integers, Sequences, FiniteSets

CONSTANTS
  Handlers,      \* goroutines of HTTP requests of the admin page
  Loop,          \* the goroutine of bulkWorkerLoop
  Accounts,      \* user ids that may have a WhatsApp session: integers, in sort order
  Contents,      \* valid (phone, message) pairs of CSV records
  Files,         \* CSV files an administrator may upload: sequences of Contents
  Timeout,       \* interval '15 minutes'
  BatchSize,     \* bulk_batch_size of the loop
  SendLimit,     \* limit of the "send" action
  MaxRows,       \* bound: rows ever inserted
  MaxActions,    \* bound: requests other than "status", and saves of the settings
  MaxFaults,     \* bound: failing SQL statements and send errors
  MaxCrashes,    \* bound: process restarts
  MaxLogouts     \* bound: sessions removed

ASSUME BulkAssumption ==
  /\ Loop \notin Handlers
  /\ Accounts \subseteq Nat \ {0} /\ IsFiniteSet(Accounts)
  /\ Files \subseteq Seq(Contents)
  /\ Timeout \in Nat /\ {BatchSize, SendLimit} \subseteq Nat \ {0}
  /\ {MaxRows, MaxActions, MaxFaults, MaxCrashes, MaxLogouts} \subseteq Nat

VARIABLES
  table,      \* bulk_messages by id; ids come from a BIGSERIAL sequence
  nextId,
  index,      \* does bulk_messages_dedupe_idx exist?
  sessions,   \* user ids with a logged-in, connected session
  auto,       \* is bulk_auto_send_enabled "true" in admin_settings?  (default "false")
  pc, loc,    \* the step and the locals of each goroutine
  campaigns,  \* imports begun
  delivered,  \* history: how often the message of a key reached WhatsApp
  doubts,     \* history: how often the queue could not know about a delivery
  actions, faults, crashes, logouts

world == <<sessions, auto>>
history == <<delivered, doubts>>
counters == <<actions, faults, crashes, logouts>>
vars == <<table, nextId, index, world, pc, loc, campaigns, history, counters>>

Workers == Handlers \cup {Loop}
Ids == 1..MaxRows
Commands == {"pause", "resume", "cancel", "retry_failed", "clear_queue"}
Statuses == {"queued", "sending", "sent", "failed", "paused", "cancelled"}

\* bulkKey hashes campaign, phone and message; the campaign is the time of the
\* import in nanoseconds, so imports are numbered.
Keys == (1..MaxActions) \X Contents
NoKey == <<0, 0>>
NoRow == [key |-> NoKey, status |-> "none", sender |-> 0, age |-> 0]
Row == [key : Keys \cup {NoKey}, status : Statuses \cup {"none"},
        sender : Accounts \cup {0}, age : 0..(Timeout + 1)]

\* kind: the action; file, pos, campaign: an import and its next record; ids, n:
\* the accounts of a batch and its counter; id, key, uid: the claimed row, its
\* message and its sender; err: what safeSendMessage returned.
NoLocals == [kind |-> "none", file |-> <<>>, pos |-> 0, campaign |-> 0, ids |-> {}, n |-> 0,
             id |-> 0, key |-> NoKey, uid |-> 0, err |-> FALSE]

Live(id) == table[id].status # "none"
Is(id, status) == table[id].status = status

-----------------------------------------------------------------------------
Init ==
  /\ table = [id \in Ids |-> NoRow] /\ nextId = 1 /\ index = FALSE
  /\ sessions = Accounts /\ auto \in BOOLEAN
  /\ pc = [w \in Workers |-> "idle"]
  /\ loc = [w \in Workers |-> NoLocals]
  /\ campaigns = 0
  /\ delivered = [k \in Keys |-> 0] /\ doubts = [k \in Keys |-> 0]
  /\ actions = 0 /\ faults = 0 /\ crashes = 0 /\ logouts = 0

Goto(w, where) == pc' = [pc EXCEPT ![w] = where]
\* The goroutine's request is over; its locals are gone.
Done(w) == Goto(w, "idle") /\ loc' = [loc EXCEPT ![w] = NoLocals]

\* A statement that fails changes nothing.
Fault == faults < MaxFaults /\ faults' = faults + 1
Doubt(ks) == doubts' = [k \in Keys |-> IF k \in ks THEN doubts[k] + 1 ELSE doubts[k]]

(***************************************************************************)
(* Requests and the schema                                                 *)
(***************************************************************************)

Request(h, k) ==
  /\ pc[h] = "idle"
  /\ IF k = "status" THEN UNCHANGED actions
     ELSE actions < MaxActions /\ actions' = actions + 1
  /\ loc' = [loc EXCEPT ![h].kind = k]
  /\ Goto(h, "ensure")
  /\ UNCHANGED <<table, nextId, index, world, campaigns, history, faults, crashes, logouts>>

\* ensureBulkMessageTable up to DROP INDEX: rows whose key an older row has are
\* deleted, and the unique index is dropped.
Deduplicated ==
  [id \in Ids |-> IF Live(id) /\ \E o \in Ids : o < id /\ Live(o) /\ table[o].key = table[id].key
                  THEN NoRow ELSE table[id]]

EnsureDrop(h) ==
  /\ pc[h] = "ensure"
  /\ \/ Fault /\ Done(h) /\ UNCHANGED <<table, index>>
     \/ table' = Deduplicated /\ index' = FALSE /\ Goto(h, "create") /\ UNCHANGED <<loc, faults>>
  /\ UNCHANGED <<nextId, world, campaigns, history, actions, crashes, logouts>>

\* CREATE UNIQUE INDEX.  If it fails, the request ends and the index stays away
\* until another request creates it.
EnsureCreate_DropsLast(h) ==
  /\ pc[h] = "create"
  /\ \/ Fault /\ Done(h) /\ UNCHANGED index
     \/ index' = FALSE /\ Goto(h, "act") /\ UNCHANGED <<loc, faults>>
  /\ UNCHANGED <<table, nextId, world, campaigns, history, actions, crashes, logouts>>
EnsureCreate(h) ==
  /\ pc[h] = "create"
  /\ \/ Fault /\ Done(h) /\ UNCHANGED index
     \/ index' = TRUE /\ Goto(h, "act") /\ UNCHANGED <<loc, faults>>
  /\ UNCHANGED <<table, nextId, world, campaigns, history, actions, crashes, logouts>>

(***************************************************************************)
(* The actions of one statement                                            *)
(***************************************************************************)

Move(from, to) ==
  table' = [id \in Ids |-> IF table[id].status \in from
                           THEN [table[id] EXCEPT !.status = to, !.age = 0]
                           ELSE table[id]]

Retry_SendingToo == Move({"failed", "sending"}, "queued")
Retry ==
  table' = [id \in Ids |-> IF Is(id, "failed")
                           THEN [table[id] EXCEPT !.status = "queued", !.sender = 0, !.age = 0]
                           ELSE table[id]]

Clear_AllButSent ==
  table' = [id \in Ids |-> IF Is(id, "sent") THEN table[id] ELSE NoRow]
Clear ==
  table' = [id \in Ids |-> IF table[id].status \in {"queued", "paused", "cancelled", "failed"}
                           THEN NoRow ELSE table[id]]

Run(command) ==
  \/ command = "pause" /\ Move({"queued"}, "paused")
  \/ command = "resume" /\ Move({"paused"}, "queued")
  \/ command = "cancel" /\ Move({"queued", "paused", "failed"}, "cancelled")
  \/ command = "retry_failed" /\ Retry
  \/ command = "clear_queue" /\ Clear

Command(h) ==
  /\ pc[h] = "act" /\ loc[h].kind \in Commands
  /\ \/ Run(loc[h].kind) /\ UNCHANGED faults
     \/ Fault /\ UNCHANGED table
  /\ Done(h)
  /\ UNCHANGED <<nextId, index, world, campaigns, history, actions, crashes, logouts>>

\* Goroutines that claimed a row and have not yet marked it.
Owners(id) == {w \in Workers : pc[w] \in {"send", "mark"} /\ loc[w].id = id}

\* The recovery in bulkMessageStatusHandler.  The row of a worker that is only
\* slow is recovered like the row of a dead one.
Stale(id) == Is(id, "sending") /\ table[id].age > Timeout

Recovered_Nothing == table
Recovered ==
  [id \in Ids |-> IF Stale(id)
                  THEN [table[id] EXCEPT !.status = "queued", !.sender = 0, !.age = 0]
                  ELSE table[id]]

Status(h) ==
  /\ pc[h] = "act" /\ loc[h].kind = "status"
  /\ \/ /\ table' = Recovered
        /\ Doubt({table[id].key : id \in {i \in Ids : Stale(i) /\ Owners(i) # {}}})
        /\ UNCHANGED faults
     \/ Fault /\ UNCHANGED <<table, doubts>>
  /\ Done(h)
  /\ UNCHANGED <<nextId, index, world, campaigns, delivered, actions, crashes, logouts>>

(***************************************************************************)
(* Import                                                                  *)
(***************************************************************************)

ImportBegin(h) ==
  /\ pc[h] = "act" /\ loc[h].kind = "import"
  /\ campaigns' = campaigns + 1
  /\ \E f \in Files :
       loc' = [loc EXCEPT ![h].file = f, ![h].pos = 1, ![h].campaign = campaigns + 1]
  /\ Goto(h, "insert")
  /\ UNCHANGED <<table, nextId, index, world, history, counters>>

\* INSERT ... ON CONFLICT(dedupe_key) DO NOTHING.  It is the unique index that finds
\* the row with the key: with it, a record that is there already is a duplicate and
\* nothing happens; without it PostgreSQL refuses the whole statement ("no unique
\* constraint matching the ON CONFLICT specification"), so the record is skipped
\* with "database insert failed" whether or not it is there.
Conflict(key) == \E id \in Ids : Live(id) /\ table[id].key = key

Insert(key) ==
  \/ ~index /\ UNCHANGED <<table, nextId, faults>>
  \/ index /\ Conflict(key) /\ UNCHANGED <<table, nextId, faults>>
  \/ /\ index /\ ~Conflict(key) /\ nextId \in Ids
     /\ table' = [table EXCEPT ![nextId] = [NoRow EXCEPT !.key = key, !.status = "queued"]]
     /\ nextId' = nextId + 1 /\ UNCHANGED faults
  \/ nextId \notin Ids /\ UNCHANGED <<table, nextId, faults>>      \* the bound
  \/ Fault /\ UNCHANGED <<table, nextId>>

Import(h) ==
  /\ pc[h] = "insert"
  /\ IF loc[h].pos \in DOMAIN loc[h].file
     THEN /\ Insert(<<loc[h].campaign, loc[h].file[loc[h].pos]>>)
          /\ loc' = [loc EXCEPT ![h].pos = @ + 1]
          /\ UNCHANGED pc
     ELSE Done(h) /\ UNCHANGED <<table, nextId, faults>>
  /\ UNCHANGED <<index, world, campaigns, history, actions, crashes, logouts>>

(***************************************************************************)
(* Sending                                                                 *)
(***************************************************************************)

\* The "send" action: the requested accounts that are connected, or all of them.
SendBegin(h) ==
  /\ pc[h] = "act" /\ loc[h].kind = "send"
  /\ \/ \E S \in (SUBSET sessions) \ {{}} :
          loc' = [loc EXCEPT ![h].ids = S] /\ Goto(h, "claim")
     \/ Done(h)                                       \* no connected account selected
  /\ UNCHANGED <<table, nextId, index, world, campaigns, history, counters>>

\* processBulkMessagesGlobal, every 10 s: it returns at once while the switch is
\* off (or cannot be read: getAdminSetting then answers "false") and while nobody
\* is connected.
LoopBegin ==
  /\ pc[Loop] = "idle" /\ auto
  /\ sessions # {}
  /\ loc' = [loc EXCEPT ![Loop].ids = sessions]
  /\ Goto(Loop, "claim")
  /\ UNCHANGED <<table, nextId, index, world, campaigns, history, counters>>

Limit_OffByOne(w) == IF w = Loop THEN BatchSize - 1 ELSE SendLimit - 1
Limit(w) == IF w = Loop THEN BatchSize ELSE SendLimit

\* bulkSenderForIndex: the accounts in sort order, round robin.
SenderForIndex(S, i) ==
  CHOOSE a \in S : Cardinality({b \in S : b < a}) = i % Cardinality(S)

\* claimBulkRow: the queued row with the smallest id, FOR UPDATE SKIP LOCKED.
Claimable(id) == Is(id, "queued") /\ \A o \in Ids : o < id => ~Is(o, "queued")

Claim(w) ==
  /\ pc[w] = "claim"
  /\ \/ \E id \in Ids :
          /\ loc[w].n < Limit(w) /\ Claimable(id)
          /\ LET a == SenderForIndex(loc[w].ids, loc[w].n) IN
             /\ table' = [table EXCEPT ![id].status = "sending", ![id].sender = a,
                                       ![id].age = 0]
             /\ loc' = [loc EXCEPT ![w].id = id, ![w].key = table[id].key,
                                   ![w].uid = a, ![w].n = @ + 1]
          /\ Goto(w, "send") /\ UNCHANGED faults
     \/ /\ loc[w].n >= Limit(w) \/ \A id \in Ids : ~Claimable(id)
        /\ Done(w) /\ UNCHANGED <<table, faults>>
     \/ Fault /\ Done(w) /\ UNCHANGED table
  /\ UNCHANGED <<nextId, index, world, campaigns, history, actions, crashes, logouts>>

Deliver(w) == delivered' = [delivered EXCEPT ![loc[w].key] = @ + 1]

\* getSession, then safeSendMessage under s.mu.  Without a session nothing is
\* sent; otherwise the message is delivered or not, and an answer that is late or
\* lost makes a delivery an error.  The row may have changed since the claim:
\* nothing looks at it again before the message goes out.
Send(w) ==
  /\ pc[w] = "send"
  /\ \/ /\ loc[w].uid \in sessions /\ Deliver(w)
        /\ loc' = [loc EXCEPT ![w].err = FALSE] /\ UNCHANGED <<doubts, faults>>
     \/ /\ loc[w].uid \in sessions /\ Deliver(w) /\ Fault
        /\ loc' = [loc EXCEPT ![w].err = TRUE] /\ Doubt({loc[w].key})
     \/ /\ loc[w].uid \in sessions /\ Fault
        /\ loc' = [loc EXCEPT ![w].err = TRUE] /\ UNCHANGED history
     \/ /\ loc[w].uid \notin sessions
        /\ loc' = [loc EXCEPT ![w].err = TRUE] /\ UNCHANGED <<history, faults>>
  /\ Goto(w, "mark")
  /\ UNCHANGED <<table, nextId, index, world, campaigns, actions, crashes, logouts>>

\* markBulkSent and markBulkFailed overwrite whatever status the row has now;
\* that the statement failed goes unnoticed.
Mark_AlwaysSent(id, status) ==
  [table EXCEPT ![id] = IF Live(id) THEN [@ EXCEPT !.status = "sent", !.age = 0] ELSE @]
Mark_Upsert(id, status) == [table EXCEPT ![id].status = status, ![id].age = 0]
Mark(id, status) ==
  [table EXCEPT ![id] = IF Live(id) THEN [@ EXCEPT !.status = status, !.age = 0] ELSE @]

MarkRow(w) ==
  /\ pc[w] = "mark"
  /\ \/ /\ table' = Mark(loc[w].id, IF loc[w].err THEN "failed" ELSE "sent")
        /\ UNCHANGED <<doubts, faults>>
     \/ /\ Fault /\ UNCHANGED table
        /\ IF loc[w].err THEN UNCHANGED doubts ELSE Doubt({loc[w].key})
  /\ loc' = [loc EXCEPT ![w].id = 0, ![w].key = NoKey, ![w].uid = 0, ![w].err = FALSE]
  /\ Goto(w, "claim")
  /\ UNCHANGED <<nextId, index, world, campaigns, delivered, actions, crashes, logouts>>

(***************************************************************************)
(* The environment                                                         *)
(***************************************************************************)

\* A session is logged out and removed from the manager.
Logout(a) ==
  /\ logouts < MaxLogouts /\ a \in sessions
  /\ logouts' = logouts + 1
  /\ sessions' = sessions \ {a}
  /\ UNCHANGED <<table, nextId, index, auto, pc, loc, campaigns, history, actions, faults, crashes>>

\* adminSettingsAPIHandler saves the switch of the worker loop; a save that fails
\* leaves it as it was.  Other settings do not concern the queue.
SaveAuto(v) ==
  /\ actions < MaxActions /\ actions' = actions + 1
  /\ \/ auto' = v /\ UNCHANGED faults
     \/ Fault /\ UNCHANGED auto
  /\ UNCHANGED <<table, nextId, index, sessions, pc, loc, campaigns, history, crashes, logouts>>

\* The process dies and starts again.  Goroutines that had delivered and not yet
\* marked leave a doubt.
Restart ==
  /\ crashes < MaxCrashes
  /\ crashes' = crashes + 1
  /\ Doubt({loc[w].key : w \in {v \in Workers : pc[v] = "mark" /\ ~loc[v].err}})
  /\ pc' = [w \in Workers |-> "idle"]
  /\ loc' = [w \in Workers |-> NoLocals]
  /\ UNCHANGED <<table, nextId, index, world, campaigns, delivered, actions, faults, logouts>>

\* Time passes for the rows being sent; an age beyond the timeout is as good as
\* any other.
Tick ==
  /\ \E id \in Ids : Is(id, "sending") /\ table[id].age <= Timeout
  /\ table' = [id \in Ids |-> IF Is(id, "sending") /\ table[id].age <= Timeout
                              THEN [table[id] EXCEPT !.age = @ + 1] ELSE table[id]]
  /\ UNCHANGED <<nextId, index, world, pc, loc, campaigns, history, counters>>

Handle(h) ==
  \/ EnsureDrop(h) \/ EnsureCreate(h) \/ Command(h) \/ Status(h)
  \/ ImportBegin(h) \/ Import(h) \/ SendBegin(h)
Work(w) == Claim(w) \/ Send(w) \/ MarkRow(w)

Next ==
  \/ \E h \in Handlers :
       Handle(h) \/ \E k \in Commands \cup {"status", "import", "send"} : Request(h, k)
  \/ LoopBegin \/ \E w \in Workers : Work(w)
  \/ \E a \in Accounts : Logout(a)
  \/ \E v \in BOOLEAN : SaveAuto(v)
  \/ Restart \/ Tick

Spec == Init /\ [][Next]_vars

\* Goroutines run, bulkWorkerLoop comes back every 10 s (and finds work to do only
\* while the switch is on and somebody is connected), time passes, and the
\* administrator keeps refreshing the status on the admin page: the page asks for it
\* when it is loaded and after every action, so this is an assumption about people.
\* Nothing is assumed about who saves the switch, or when.
Fairness ==
  /\ \A h \in Handlers : WF_vars(Handle(h))
  /\ \A w \in Workers : WF_vars(Work(w))
  /\ WF_vars(LoopBegin) /\ WF_vars(Tick)
AdminPolls == \A h \in Handlers : WF_vars(Request(h, "status"))

FairSpec == Spec /\ Fairness /\ AdminPolls

-----------------------------------------------------------------------------
(***************************************************************************)
(* Properties                                                              *)
(***************************************************************************)

\* Every variable keeps its type, and a row has a key exactly while it exists: a
\* status update never brings back a row that clear_queue deleted.
TypeOK ==
  /\ table \in [Ids -> Row] /\ nextId \in 1..(MaxRows + 1) /\ index \in BOOLEAN
  /\ sessions \subseteq Accounts /\ auto \in BOOLEAN
  /\ pc \in [Workers -> {"idle", "ensure", "create", "act", "insert", "claim", "send", "mark"}]
  /\ \A id \in Ids : Live(id) <=> table[id].key \in Keys
  /\ \A w \in Workers : loc[w].id \in 0..MaxRows /\ loc[w].key \in Keys \cup {NoKey}
  /\ campaigns \in 0..MaxActions
  /\ delivered \in [Keys -> Nat] /\ doubts \in [Keys -> Nat]

\* A message goes out once, plus at most once for every time the queue could not
\* know of a delivery: an error or a crash after it, a failed status update, or the
\* recovery of a row whose worker was alive.  Neither concurrent workers nor
\* pause, resume, retry, clear and repeated records add to that.
DeliveredOnce == \A k \in Keys : delivered[k] <= 1 + doubts[k]

\* A row says "sent" only if its message was delivered.
SentWasDelivered == \A id \in Ids : Is(id, "sent") => delivered[table[id].key] > 0

\* An import is refused its index, and loses good records for it, only while another
\* request is between DROP INDEX and CREATE UNIQUE INDEX or after a statement failed:
\* a crash between the two, or requests that rebuild the index in any order, leave no
\* import that goes on without one.
RefusedOnlyByRebuild ==
  \A h \in Handlers :
    pc[h] = "insert" /\ ~index => faults > 0 \/ \E o \in Handlers : pc[o] = "create"

\* While nothing is in doubt about a message, it goes out only for a row that is
\* "sending" with that account as its sender: a row that was paused, cancelled or
\* cleared does not, whatever else runs.
OnlyClaimedGoOut ==
  [][\A w \in Workers :
       Send(w) /\ doubts'[loc[w].key] = 0 =>
         Is(loc[w].id, "sending") /\ table[loc[w].id].sender = loc[w].uid]_vars

\* Every queued row is eventually taken, provided that from some time on the switch
\* stays on and somebody stays connected.  Accounts that log out, batches that end,
\* crashes and failing statements do not keep a row back.
QueueDrains ==
  <>[](auto /\ sessions # {}) => \A id \in Ids : Is(id, "queued") ~> ~Is(id, "queued")

\* The unique index comes back after every DROP, even when the process died or the
\* statement failed before CREATE, as long as somebody looks at the status.
IndexReturns == ~index ~> index

\* No row is left "sending" for good, not even after a crash, as long as somebody
\* looks at the status.
SendingEnds == \A id \in Ids : Is(id, "sending") ~> ~Is(id, "sending")

=============================================================================
