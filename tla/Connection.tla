----------------------------- MODULE Connection -----------------------------
(***************************************************************************)
(* The connection of one whatsmeow client (client.go, handshake.go,        *)
(* keepalive.go, connectionevents.go, request.go, socket/): who opens and  *)
(* closes its websocket, who brings it back, and what becomes of an info   *)
(* query that is waiting for its answer meanwhile.                         *)
(*                                                                         *)
(* socketLock is held for the whole of unlockedConnect (the variable       *)
(* dialer);  every other critical section of it is one action.  Node       *)
(* handlers, the keepalive loop and receiveResponse do not take it, so     *)
(* they run while another goroutine dials.  receiveResponse itself takes   *)
(* the waiter out of the map under its lock and sends to it afterwards:    *)
(* those are two actions of the frame handler of a socket.                 *)
(***************************************************************************)
EXTENDS Naturals, FiniteSets

CONSTANTS
  Sockets,              \* bound: the websockets the client may open
  Requests,             \* callers of sendIQ
  None,
  EnableAutoReconnect,  \* the field of Client
  Starts,               \* [asks, faults]: the requests that are made; and a bound:
                        \* failing dials, drops, errors sent by the server
  MaxCalls              \* bound: Connect, Disconnect and ResetConnection calls

ASSUME NoneAssumption == None \notin Sockets \cup Requests
ASSUME FlagAssumption == EnableAutoReconnect \in BOOLEAN
ASSUME BoundsAssumption ==
  Starts \subseteq [asks : SUBSET Requests, faults : Nat] /\ MaxCalls \in Nat

VARIABLES
  sock,       \* cli.socket
  wire,       \* FrameSocket.conn: whether a websocket is open
  hook,       \* the sockets whose OnDisconnect is set
  closing,    \* the onDisconnect goroutine of a socket, and its argument
  queue,      \* the node a socket's handler queue holds
  server,     \* what the server said last on a socket
  keep,       \* the keepAliveLoop of a socket
  dialer,     \* who is in unlockedConnect and holds socketLock, or "nobody"
  fresh,      \* the websocket it has opened
  expected,   \* cli.expectedDisconnect
  force,      \* cli.forceAutoReconnect
  loggedIn,   \* cli.isLoggedIn
  store,      \* Store.ID and Store.Deleted
  running,    \* how many goroutines are at each of these places
  waiters,    \* cli.responseWaiters
  chan,       \* what a waiter's channel holds, or "closed"
  reply,      \* the request whose answer the frame handler of a socket has in hand
  taken,      \* the sockets whose frame handler took the waiter out of the map
  pc, on,     \* a request: where it is, and the socket it read
  gaveUp,     \* history: the last attempt failed and its caller does not retry
  dropped,    \* history: the requests whose answer was dropped with its socket
  panicked,   \* a frame handler sent on a closed channel: the process is gone
  faults,     \* how many may still happen
  calls

connection == <<sock, wire, hook, closing>>
attempt == <<dialer, fresh>>
peer == <<queue, server>>
flags == <<expected, force>>
answers == <<waiters, chan>>
frames == <<reply, taken, dropped, panicked>>
request == <<pc, on>>
callers == <<frames, request>>
vars == <<connection, peer, keep, attempt, flags, loggedIn, store, running, answers,
          callers, gaveUp, faults, calls>>

\* "success" and the failures answer a login; "pair" is the pair-success of a new
\* device; the others are stream errors.
Failures == {"401", "503", "refused"}
StreamErrors == {"515", "device_removed", "replaced", "restart"}
Nodes == {"success", "pair"} \cup Failures \cup StreamErrors

\* Goroutines: autoReconnect before and after its delay, the two halves of the
\* reconnect after a 515, the confirmation of a pairing and the end of a refused one.
Jobs == {"sleep", "wake", "login", "relogin", "confirm", "refuse"}

\* The callers of unlockedConnect.
Dialers == {"api", "auto", "login"}

Steps == {"idle", "read", "send", "sent", "wait", "retry", "reread", "register", "resend",
          "resent", "wait2", "done"}

\* The frame of a request is out and nothing has come back to its caller.
Out == {"sent", "wait", "resent", "wait2"}

Init ==
  /\ sock = None
  /\ wire = [s \in Sockets |-> "unused"]
  /\ hook = {}
  /\ closing = [s \in Sockets |-> "no"]
  /\ queue = [s \in Sockets |-> "nothing"]
  /\ server = [s \in Sockets |-> "mute"]
  /\ keep = [s \in Sockets |-> "off"]
  /\ dialer = "nobody" /\ fresh = None
  /\ expected = FALSE /\ force = FALSE /\ loggedIn = FALSE
  /\ store \in {"new", "paired"}
  /\ running = [j \in Jobs |-> 0]
  /\ waiters = {} /\ chan = [r \in Requests |-> "empty"]
  /\ reply = [s \in Sockets |-> None] /\ taken = {} /\ dropped = {} /\ panicked = FALSE
  /\ on = [r \in Requests |-> None]
  /\ gaveUp = TRUE
  /\ calls = 0
  /\ \E start \in Starts :
       /\ faults = start.faults
       /\ pc = [r \in Requests |-> IF r \in start.asks THEN "idle" ELSE "done"]

Unlocked == dialer = "nobody"
Connected == sock # None /\ wire[sock] = "open"
Fault == faults > 0 /\ faults' = faults - 1
Call == calls < MaxCalls /\ calls' = calls + 1
Leave(j) == [running EXCEPT ![j] = @ - 1]
Move(j, k) == [running EXCEPT ![j] = @ - 1, ![k] = @ + 1]

(***************************************************************************)
(* Helpers of the client                                                   *)
(***************************************************************************)

\* Every waiter gets the node; one whose channel is full is closed instead.
clearResponseWaiters(node) ==
  /\ chan' = [r \in Requests |-> IF r \notin waiters THEN chan[r]
                                 ELSE IF chan[r] = "empty" THEN node ELSE "closed"]
  /\ waiters' = {}

expectDisconnect == expected' = TRUE /\ force' = FALSE
resetExpectedDisconnect == expected' = FALSE /\ force' = FALSE

UnlockedDisconnect_LeavesOpen ==
  \/ sock = None /\ UNCHANGED <<sock, wire, hook, answers>>
  \/ /\ sock # None
     /\ hook' = hook \ {sock}
     /\ sock' = None
     /\ clearResponseWaiters("end")
     /\ UNCHANGED wire
UnlockedDisconnect_KeepsSocket ==
  \/ sock = None /\ UNCHANGED <<sock, wire, hook, answers>>
  \/ /\ sock # None
     /\ wire' = [wire EXCEPT ![sock] = "closed"]
     /\ hook' = hook \ {sock}
     /\ clearResponseWaiters("end")
     /\ UNCHANGED sock
UnlockedDisconnect_KeepsWaiters ==
  \/ sock = None /\ UNCHANGED <<sock, wire, hook, answers>>
  \/ /\ sock # None
     /\ wire' = [wire EXCEPT ![sock] = "closed"]
     /\ hook' = hook \ {sock}
     /\ sock' = None
     /\ UNCHANGED answers
\* socket.Stop(true, false): the websocket is closed and its handler is not told.
unlockedDisconnect ==
  \/ sock = None /\ UNCHANGED <<sock, wire, hook, answers>>
  \/ /\ sock # None
     /\ wire' = [wire EXCEPT ![sock] = "closed"]
     /\ hook' = hook \ {sock}
     /\ sock' = None
     /\ clearResponseWaiters("end")

\* go autoReconnect: it ends at once when it may not, or has nothing to, log in.
autoReconnect(jobs) ==
  IF EnableAutoReconnect /\ store = "paired" THEN [jobs EXCEPT !["sleep"] = @ + 1] ELSE jobs

(***************************************************************************)
(* unlockedConnect                                                         *)
(***************************************************************************)

\* What a caller makes of an error: autoReconnect sleeps again unless the
\* disconnect was expected meanwhile, the others only report it.
Failed(who, jobs) ==
  IF who = "auto"
  THEN /\ running' = IF expected THEN jobs ELSE [jobs EXCEPT !["sleep"] = @ + 1]
       /\ UNCHANGED gaveUp
  ELSE running' = jobs /\ gaveUp' = TRUE

\* unlockedConnect up to the dial; jobs are the goroutines once its caller moved.
Begin(who, jobs) ==
  /\ Unlocked
  /\ \/ /\ store = "deleted"                                   \* ErrDeviceDeleted
        /\ Failed(who, jobs)
        /\ UNCHANGED <<connection, answers, attempt, flags>>
     \/ /\ store # "deleted" /\ Connected                      \* ErrAlreadyConnected
        /\ running' = jobs
        /\ UNCHANGED <<connection, answers, attempt, flags, gaveUp>>
     \/ /\ store # "deleted" /\ ~Connected
        /\ unlockedDisconnect
        /\ resetExpectedDisconnect
        /\ dialer' = who
        /\ running' = jobs
        /\ UNCHANGED <<closing, fresh, gaveUp>>
  /\ UNCHANGED <<peer, keep, loggedIn, store, callers, faults>>

DialFails ==
  /\ ~Unlocked /\ fresh = None
  /\ Fault \/ ((\A s \in Sockets : wire[s] # "unused") /\ UNCHANGED faults)
  /\ dialer' = "nobody" /\ fresh' = None
  /\ Failed(dialer, running)
  /\ UNCHANGED <<connection, peer, keep, flags, loggedIn, store, answers, callers, calls>>

Dial(s) ==
  /\ ~Unlocked /\ fresh = None
  /\ wire[s] = "unused"
  /\ wire' = [wire EXCEPT ![s] = "open"]
  /\ fresh' = s
  /\ UNCHANGED <<sock, hook, closing, peer, keep, dialer, flags, loggedIn, store, running,
                 answers, callers, gaveUp, faults, calls>>

\* doHandshake fails: the server refuses it, or the websocket was closed and the
\* answer never comes.  OnDisconnect is not set yet, so nobody is called back.
HandshakeFails ==
  /\ ~Unlocked /\ fresh # None
  /\ Fault \/ (wire[fresh] = "closed" /\ UNCHANGED faults)
  /\ wire' = [wire EXCEPT ![fresh] = "closed"]
  /\ dialer' = "nobody" /\ fresh' = None
  /\ Failed(dialer, running)
  /\ UNCHANGED <<sock, hook, closing, peer, keep, flags, loggedIn, store, answers, callers,
                 calls>>

\* newNoiseSocket sets OnDisconnect, then the socket is published and its loops
\* start.  The websocket may have been closed just before: nobody was called back.
Install ==
  /\ ~Unlocked /\ fresh # None
  /\ hook' = hook \cup {fresh}
  /\ sock' = fresh
  /\ keep' = [keep EXCEPT ![fresh] = "loop"]
  /\ dialer' = "nobody" /\ fresh' = None
  /\ gaveUp' = FALSE
  /\ UNCHANGED <<wire, closing, peer, flags, loggedIn, store, running, answers, callers,
                 faults, calls>>

(***************************************************************************)
(* The calls of the application                                            *)
(***************************************************************************)

\* ConnectContext (InitialAutoReconnect is never set here).
Connect == Call /\ Begin("api", running)

\* The part of Disconnect under socketLock.
disconnect == Unlocked /\ expectDisconnect /\ unlockedDisconnect

Disconnect ==
  /\ Call
  /\ disconnect
  /\ UNCHANGED <<closing, peer, keep, attempt, loggedIn, store, running, callers, gaveUp, faults>>

\* socket.Stop(true, true): the handler will be told, with remote = FALSE.
ResetConnection ==
  /\ Call
  /\ Unlocked
  /\ force' = TRUE
  /\ \/ sock = None /\ UNCHANGED <<wire, closing, answers>>
     \/ /\ sock # None
        /\ wire' = [wire EXCEPT ![sock] = "closed"]
        /\ closing' = [closing EXCEPT ![sock] = IF Connected THEN "local" ELSE @]
        /\ clearResponseWaiters("end")
  /\ UNCHANGED <<sock, hook, peer, keep, attempt, expected, loggedIn, store, running, callers,
                 gaveUp, faults>>

(***************************************************************************)
(* onDisconnect and autoReconnect                                          *)
(***************************************************************************)

NeedsReconnect_OnlyForced(s) == ~expected /\ force
NeedsReconnect(s) == ~expected /\ (force \/ closing[s] = "remote")

onDisconnect(s) ==
  /\ closing[s] # "no"
  /\ Unlocked
  /\ closing' = [closing EXCEPT ![s] = "no"]
  /\ hook' = hook \ {s}
  /\ \/ /\ sock = s
        /\ sock' = None
        /\ clearResponseWaiters("end")
        /\ running' = IF NeedsReconnect(s) THEN autoReconnect(running) ELSE running
        /\ force' = (force /\ expected)
     \/ /\ sock # s                         \* "Ignoring OnDisconnect on different socket"
        /\ UNCHANGED <<sock, answers, running, force>>
  /\ UNCHANGED <<wire, peer, keep, attempt, expected, loggedIn, store, callers, gaveUp, faults,
                 calls>>

\* The delay ends, or the expected disconnect ends it; when both are there the
\* wait may return either.
AutoSleep ==
  /\ running["sleep"] > 0
  /\ \/ running' = Move("sleep", "wake")
     \/ expected /\ running' = Leave("sleep")
  /\ UNCHANGED <<connection, peer, keep, attempt, flags, loggedIn, store, answers, callers,
                 gaveUp, faults, calls>>

AutoConnect ==
  /\ running["wake"] > 0
  /\ Begin("auto", Leave("wake"))
  /\ UNCHANGED calls

(***************************************************************************)
(* keepAliveLoop                                                           *)
(***************************************************************************)

\* The pings of a socket failed for KeepAliveMaxFailTime.
KeepAliveFails(s) ==
  /\ keep[s] = "loop" /\ wire[s] = "open"
  /\ EnableAutoReconnect
  /\ Fault
  /\ keep' = [keep EXCEPT ![s] = "disconnect"]
  /\ UNCHANGED <<connection, peer, attempt, flags, loggedIn, store, running, answers, callers,
                 gaveUp, calls>>

\* Disconnect: of the socket the client has now.
KeepAliveDisconnect(s) ==
  /\ keep[s] = "disconnect"
  /\ disconnect
  /\ keep' = [keep EXCEPT ![s] = "reset"]
  /\ UNCHANGED <<closing, peer, attempt, loggedIn, store, running, callers, gaveUp, faults,
                 calls>>

\* resetExpectedDisconnect takes no lock.  The loop ends with its socket.
KeepAliveReset(s) ==
  /\ keep[s] = "reset"
  /\ resetExpectedDisconnect
  /\ running' = autoReconnect(running)
  /\ keep' = [keep EXCEPT ![s] = "off"]
  /\ UNCHANGED <<connection, peer, attempt, loggedIn, store, answers, callers, gaveUp, faults,
                 calls>>

(***************************************************************************)
(* The server                                                              *)
(***************************************************************************)

\* The server closes a websocket, or the network loses it.
RemoteClose(s) ==
  /\ wire[s] = "open"
  /\ Fault \/ (server[s] = "bye" /\ UNCHANGED faults)
  /\ wire' = [wire EXCEPT ![s] = "closed"]
  /\ closing' = [closing EXCEPT ![s] = IF s \in hook THEN "remote" ELSE @]
  /\ UNCHANGED <<sock, hook, peer, keep, attempt, flags, loggedIn, store, running, answers,
                 callers, gaveUp, calls>>

\* What the server may say on a socket, and in which state that leaves it.
Says(s, n) ==
  \/ n = "success" /\ store = "paired" /\ server[s] = "mute"
  \/ n = "pair" /\ store = "new" /\ server[s] = "mute"
  \/ n \in Failures /\ store = "paired" /\ server[s] = "mute"
  \/ n = "515" /\ server[s] \in {"pairing", "up"}
  \/ n \in StreamErrors \ {"515"} /\ server[s] = "up"
After(n) == IF n = "success" THEN "up" ELSE IF n = "pair" THEN "pairing" ELSE "bye"

\* A node reaches the handler queue of a socket whose frames are consumed.
ServerSends(s, n) ==
  /\ wire[s] = "open" /\ s \in hook
  /\ queue[s] = "nothing" /\ reply[s] = None
  /\ Says(s, n)
  /\ IF n \in {"success", "pair"} \/ server[s] = "pairing" THEN UNCHANGED faults ELSE Fault
  /\ queue' = [queue EXCEPT ![s] = n]
  /\ server' = [server EXCEPT ![s] = After(n)]
  /\ UNCHANGED <<connection, keep, attempt, flags, loggedIn, store, running, answers, callers,
                 gaveUp, calls>>

\* The queue loop ends with its socket, whatever is still queued.
QueueDropped(s) ==
  /\ queue[s] # "nothing" /\ wire[s] = "closed"
  /\ queue' = [queue EXCEPT ![s] = "nothing"]
  /\ UNCHANGED <<connection, server, keep, attempt, flags, loggedIn, store, running, answers,
                 callers, gaveUp, faults, calls>>

Handled(s) == queue' = [queue EXCEPT ![s] = "nothing"]

handleConnectSuccess(s) ==
  /\ queue[s] = "success"
  /\ Handled(s)
  /\ loggedIn' = TRUE
  /\ UNCHANGED <<connection, server, keep, attempt, flags, store, running, answers, callers,
                 gaveUp, faults, calls>>

\* 503 leaves the reconnect to onDisconnect; every other reason prevents it, and
\* a 401 deletes the device.
handleConnectFailure(s) ==
  /\ queue[s] \in Failures
  /\ Handled(s)
  /\ IF queue[s] = "503" THEN UNCHANGED flags ELSE expectDisconnect
  /\ store' = IF queue[s] = "401" THEN "deleted" ELSE store
  /\ UNCHANGED <<connection, server, keep, attempt, loggedIn, running, answers, callers,
                 gaveUp, faults, calls>>

\* isAuthErrorDisconnect.
Cause(n) == IF n \in {"device_removed", "replaced"} THEN "auth" ELSE "end"

handleStreamError(s) ==
  /\ queue[s] \in StreamErrors
  /\ Handled(s)
  /\ loggedIn' = FALSE
  /\ clearResponseWaiters(Cause(queue[s]))
  /\ IF queue[s] \in {"device_removed", "replaced"} THEN expectDisconnect ELSE UNCHANGED flags
  /\ store' = IF queue[s] = "device_removed" THEN "deleted" ELSE store
  /\ running' = IF queue[s] = "515" THEN [running EXCEPT !["login"] = @ + 1] ELSE running
  /\ UNCHANGED <<connection, server, keep, attempt, callers, gaveUp, faults, calls>>

\* The goroutine of a 515: Disconnect, then connect, whose error is only logged.
LoginDisconnect ==
  /\ running["login"] > 0
  /\ disconnect
  /\ running' = Move("login", "relogin")
  /\ UNCHANGED <<closing, peer, keep, attempt, loggedIn, store, callers, gaveUp, faults, calls>>

LoginConnect ==
  /\ running["relogin"] > 0
  /\ Begin("login", Leave("relogin"))
  /\ UNCHANGED calls

\* handlePair up to expectDisconnect: the device is stored, or refused, as a deleted
\* one always is.  An error before Store.ID is set changes nothing, Save fails with
\* Store.ID set, and when the identity cannot be stored the device is deleted.
handlePair(s) ==
  /\ queue[s] = "pair"
  /\ Handled(s)
  /\ \/ /\ store # "deleted" /\ store' = "paired"
        /\ expectDisconnect
        /\ running' = [running EXCEPT !["confirm"] = @ + 1]
        /\ UNCHANGED faults
     \/ /\ \/ store # "deleted" /\ Fault /\ store' \in {store, "paired", "deleted"}
           \/ store = "deleted" /\ UNCHANGED <<store, faults>>
        /\ running' = [running EXCEPT !["refuse"] = @ + 1]
        /\ UNCHANGED flags
  /\ UNCHANGED <<connection, server, keep, attempt, loggedIn, answers, callers, gaveUp, calls>>

\* handlePairSuccess disconnects after a PairError.
PairRefused ==
  /\ running["refuse"] > 0
  /\ disconnect
  /\ running' = Leave("refuse")
  /\ UNCHANGED <<closing, peer, keep, attempt, loggedIn, store, callers, gaveUp, faults, calls>>

\* The confirmation is sent on the client's socket; if it is not, the device is deleted.
PairConfirm ==
  /\ running["confirm"] > 0
  /\ Unlocked
  /\ running' = Leave("confirm")
  /\ \/ Connected /\ UNCHANGED <<sock, wire, hook, answers, flags, store, faults>>
     \/ /\ Fault \/ (~Connected /\ UNCHANGED faults)
        /\ store' = "deleted" /\ disconnect
  /\ UNCHANGED <<closing, peer, keep, attempt, loggedIn, callers, gaveUp, calls>>

(***************************************************************************)
(* sendIQ and retryFrame                                                   *)
(***************************************************************************)

At(r, here, there) == pc[r] = here /\ pc' = [pc EXCEPT ![r] = there]
Rest == UNCHANGED <<connection, peer, keep, attempt, flags, loggedIn, store, running, gaveUp,
                    faults, calls>>
Mine == Rest /\ UNCHANGED frames

\* A new channel in the map.
waitResponse(r) ==
  /\ waiters' = waiters \cup {r}
  /\ chan' = [chan EXCEPT ![r] = "empty"]

\* The caller closes its channel, whoever has it in hand.
cancelResponse(r) ==
  /\ waiters' = waiters \ {r}
  /\ chan' = [chan EXCEPT ![r] = "closed"]

IQRegister(r) ==
  /\ At(r, "idle", "read") \/ At(r, "register", "resend")
  /\ waitResponse(r)
  /\ UNCHANGED on
  /\ Mine

\* sendNodeAndGetData reads the socket under the read lock, and gives up without.
IQRead(r) ==
  /\ Unlocked
  /\ \/ sock # None /\ At(r, "read", "send") /\ UNCHANGED answers
     \/ sock = None /\ At(r, "read", "done") /\ cancelResponse(r)
  /\ on' = [on EXCEPT ![r] = sock]
  /\ Mine

\* SendFrame: a closed websocket refuses the frame, an open one may.
IQSend(r) ==
  /\ \/ /\ At(r, "send", "sent") \/ At(r, "resend", "resent")
        /\ wire[on[r]] = "open"
        /\ UNCHANGED answers
     \/ /\ At(r, "send", "done") \/ At(r, "resend", "done")
        /\ cancelResponse(r)
  /\ UNCHANGED on
  /\ Mine

\* SendFrame returns: the frame is out, or the caller's context ended first and the
\* caller does not know that it is.
IQSent(r) ==
  /\ \/ (At(r, "sent", "wait") \/ At(r, "resent", "wait2")) /\ UNCHANGED answers
     \/ (At(r, "sent", "done") \/ At(r, "resent", "done")) /\ cancelResponse(r)
  /\ UNCHANGED on
  /\ Mine

\* The caller takes what its channel holds: an answer and an error that looks like
\* a lost login end the request, a disconnection is retried once.
IQResult(r) ==
  /\ \/ chan[r] \in {"answer", "auth"} /\ (At(r, "wait", "done") \/ At(r, "wait2", "done"))
     \/ chan[r] = "end" /\ (At(r, "wait", "retry") \/ At(r, "wait2", "done"))
  /\ UNCHANGED <<on, answers>>
  /\ Mine

\* The timeout, or the caller's context.  The waiter stays in the map.
IQTimeout(r) ==
  /\ At(r, "wait", "done") \/ At(r, "wait2", "done")
  /\ UNCHANGED <<on, answers>>
  /\ Mine

\* WaitForConnection; isLoggedIn may still be that of an older socket.
IQRetry(r) ==
  /\ \/ At(r, "retry", "reread") /\ Unlocked /\ Connected /\ loggedIn
     \/ At(r, "retry", "done")                          \* five seconds, or expected
  /\ UNCHANGED <<on, answers>>
  /\ Mine

IQReread(r) ==
  /\ Unlocked
  /\ \/ sock # None /\ At(r, "reread", "register")
     \/ sock = None /\ At(r, "reread", "done")
  /\ on' = [on EXCEPT ![r] = sock]
  /\ UNCHANGED answers
  /\ Mine

(***************************************************************************)
(* handleFrame and receiveResponse: the frame handler of a socket has one  *)
(* answer in hand at a time, and still has it when its socket closes       *)
(***************************************************************************)

\* The server answers a request on the socket it came on; its caller may be gone.
Answer(s, r) ==
  /\ wire[s] = "open" /\ s \in hook
  /\ reply[s] = None
  /\ on[r] = s
  /\ pc[r] \in Out \/ (pc[r] = "done" /\ r \in waiters)
  /\ reply' = [reply EXCEPT ![s] = r]
  /\ UNCHANGED <<taken, dropped, panicked, answers, request>>
  /\ Rest

ReceiveResponse_KeepsWaiter(s) ==
  /\ reply[s] # None /\ s \notin taken
  /\ taken' = taken \cup {s}
  /\ UNCHANGED <<reply, waiters, dropped, panicked, chan, request>>
  /\ Rest
\* Under responseWaitersLock: whoever waits under this id now is taken out of the
\* map, a retry of the request too.
receiveResponse(s) ==
  /\ reply[s] # None /\ s \notin taken
  /\ \/ /\ reply[s] \in waiters
        /\ waiters' = waiters \ {reply[s]}
        /\ taken' = taken \cup {s}
        /\ UNCHANGED reply
     \/ /\ reply[s] \notin waiters
        /\ reply' = [reply EXCEPT ![s] = None]
        /\ UNCHANGED <<waiters, taken>>
  /\ UNCHANGED <<dropped, panicked, chan, request>>
  /\ Rest

\* A mistake to check against: the context that ends is not that of the socket.
Deliver_DropsOnOpen(s) ==
  /\ s \in taken
  /\ taken' = taken \ {s}
  /\ reply' = [reply EXCEPT ![s] = None]
  /\ dropped' = dropped \cup {reply[s]}
  /\ UNCHANGED <<panicked, waiters, chan, request>>
  /\ Rest
\* After the unlock, the select: the answer goes into the channel, which panics when
\* its caller closed it meanwhile, or it is dropped because the socket is closed.
Deliver(s) ==
  /\ s \in taken
  /\ taken' = taken \ {s}
  /\ reply' = [reply EXCEPT ![s] = None]
  /\ \/ /\ chan[reply[s]] = "empty"
        /\ chan' = [chan EXCEPT ![reply[s]] = "answer"]
        /\ UNCHANGED <<dropped, panicked>>
     \/ /\ chan[reply[s]] = "closed"
        /\ panicked' = TRUE
        /\ UNCHANGED <<dropped, chan>>
     \/ /\ wire[s] = "closed"
        /\ dropped' = dropped \cup {reply[s]}
        /\ UNCHANGED <<panicked, chan>>
  /\ UNCHANGED <<waiters, request>>
  /\ Rest

-----------------------------------------------------------------------------
ClientStep ==
  \/ DialFails \/ HandshakeFails \/ Install \/ (\E s \in Sockets : Dial(s))
  \/ AutoSleep \/ AutoConnect \/ LoginDisconnect \/ LoginConnect \/ PairConfirm \/ PairRefused
  \/ \E s \in Sockets :
       \/ onDisconnect(s) \/ KeepAliveDisconnect(s) \/ KeepAliveReset(s) \/ QueueDropped(s)
       \/ handleConnectSuccess(s) \/ handleConnectFailure(s) \/ handleStreamError(s)
       \/ handlePair(s)

RequestStep(r) ==
  \/ IQRegister(r) \/ IQRead(r) \/ IQSend(r) \/ IQSent(r) \/ IQResult(r) \/ IQTimeout(r)
  \/ IQRetry(r) \/ IQReread(r)

FrameStep(s) == receiveResponse(s) \/ Deliver(s) \/ (\E r \in Requests : Answer(s, r))

Next ==
  /\ ~panicked
  /\ \/ Connect \/ Disconnect \/ ResetConnection
     \/ ClientStep
     \/ \E s \in Sockets :
          \/ KeepAliveFails(s) \/ RemoteClose(s) \/ (\E n \in Nodes : ServerSends(s, n))
          \/ FrameStep(s)
     \/ \E r \in Requests : RequestStep(r)

Spec == Init /\ [][Next]_vars

-----------------------------------------------------------------------------
(***************************************************************************)
(* Properties                                                              *)
(***************************************************************************)

\* Every variable keeps its type, and a client that dials has dropped the socket
\* it had before.
TypeOK ==
  /\ sock \in Sockets \cup {None}
  /\ wire \in [Sockets -> {"unused", "open", "closed"}]
  /\ hook \subseteq Sockets
  /\ closing \in [Sockets -> {"no", "local", "remote"}]
  /\ queue \in [Sockets -> Nodes \cup {"nothing"}]
  /\ server \in [Sockets -> {"mute", "pairing", "up", "bye"}]
  /\ keep \in [Sockets -> {"off", "loop", "disconnect", "reset"}]
  /\ dialer \in Dialers \cup {"nobody"}
  /\ fresh \in Sockets \cup {None}
  /\ IF Unlocked THEN fresh = None ELSE sock = None
  /\ expected \in BOOLEAN /\ force \in BOOLEAN /\ loggedIn \in BOOLEAN /\ gaveUp \in BOOLEAN
  /\ store \in {"new", "paired", "deleted"}
  /\ running \in [Jobs -> Nat]
  /\ waiters \subseteq Requests
  /\ chan \in [Requests -> {"empty", "answer", "end", "auth", "closed"}]
  /\ reply \in [Sockets -> Requests \cup {None}]
  /\ taken \subseteq {s \in Sockets : reply[s] # None}
  /\ dropped \subseteq Requests /\ panicked \in BOOLEAN
  /\ pc \in [Requests -> Steps]
  /\ on \in [Requests -> Sockets \cup {None}]
  /\ faults \in Nat /\ calls \in Nat

\* However the application, the keepalive loop, a 515 and autoReconnect race, the
\* client never has two websockets open (WhatsApp would replace one by the other).
OneConnection == Cardinality({s \in Sockets : wire[s] = "open"}) <= 1

\* A closed socket whose handler was not set yet when it closed.
Orphan == sock # None /\ wire[sock] = "closed" /\ closing[sock] = "no"

Reconnecting ==
  \/ ~Unlocked
  \/ \E j \in {"sleep", "wake", "login", "relogin", "refuse"} : running[j] > 0
  \/ sock # None /\ closing[sock] # "no"
  \/ \E s \in Sockets : keep[s] = "reset"

\* A paired client that lost its connection without expecting it is always in
\* somebody's hands: no interleaving of onDisconnect, ResetConnection, the
\* keepalive loop and the node handlers lets the last one of them return early.
\* (A pairing that was refused is still to disconnect on purpose.)
\* The two ways out are named: an attempt of the application or after a 515 that
\* failed, and a websocket closed before its handler was set.
SomeoneReconnects ==
  EnableAutoReconnect /\ store = "paired" /\ ~expected /\ ~Connected /\ ~gaveUp /\ ~Orphan
    => Reconnecting

\* The requests receiveResponse took out of the map and has not answered yet.
InHand == {reply[s] : s \in taken}

\* A request whose frame is out, and whose channel is empty, waits for the socket
\* the client still has, or its answer has come: it is in the hands of a frame
\* handler, or that one dropped it because its socket had closed.  No other loss of
\* a connection leaves a request behind that only its timeout of 75 seconds ends.
WaitsOnCurrent ==
  \A r \in Requests :
    pc[r] \in Out /\ chan[r] = "empty"
      => (r \in waiters /\ on[r] = sock) \/ r \in InHand \/ r \in dropped

\* A channel has one writer: what is registered is empty, so clearResponseWaiters
\* never closes one (its reader would take a nil node for the answer), and what a
\* frame handler has taken is in no other handler's hands nor registered, and is
\* still empty, so that sending does not block, unless its own caller has cancelled
\* it (then the send panics).
OneWriter ==
  /\ \A r \in waiters : chan[r] = "empty" /\ r \notin InHand
  /\ \A s, t \in taken : reply[s] = reply[t] => s = t
  /\ \A r \in InHand : chan[r] = "empty" \/ (chan[r] = "closed" /\ pc[r] = "done")

\* What the program sees of the connection and of a query (see Account).
Link ==
  IF ~Unlocked THEN "dialling"
  ELSE IF sock = None THEN "down" ELSE IF Connected THEN "up" ELSE "lost"
Query ==
  [r \in Requests |->
     IF pc[r] = "done" THEN "done"
     ELSE IF pc[r] \notin Out \/ chan[r] # "empty" THEN "own"
     ELSE IF r \in waiters THEN "out"
     ELSE IF r \in dropped THEN "lost"
     ELSE IF \E s \in taken : reply[s] = r /\ wire[s] = "open" THEN "back" ELSE "late"]
Abstract == INSTANCE Account WITH link <- Link, device <- store, query <- Query

\* The client implements Account: although a dozen goroutines share the socket and its
\* flags, a link comes up only through a dial that began with no link up and for a device that
\* was not deleted, a deletion is final, a query goes out only on the link that is up,
\* and by the time that link is given up it is back in its caller's hands, or its answer
\* had come and is on its way, which then is the only way for it to be lost.
ImplementsAccount == Abstract!Spec

=============================================================================
