-------------------------- MODULE ConnectionProofs --------------------------
(***************************************************************************)
(* Theorems about Connection, for any number of websockets, requests,      *)
(* faults and calls: the types, that the client never has two websockets   *)
(* open, what a request can still wait for when its socket is gone, that   *)
(* its channel has one writer, and that a lost connection is always in     *)
(* somebody's hands.                                                       *)
(***************************************************************************)
EXTENDS Connection, TLAPS, FiniteSetTheorems

\* An open websocket is the client's socket or the one being dialled.
OpenIsHeld == \A s \in Sockets : wire[s] = "open" => s = sock \/ s = fresh

\* onDisconnect is called for a websocket that is closed, so dropping its socket
\* leaves no open one behind.
ClosingIsClosed == \A s \in Sockets : closing[s] # "no" => wire[s] = "closed"

Inv == TypeOK /\ OpenIsHeld /\ ClosingIsClosed

\* A websocket that is dialled was not in use before: no request has it, and its
\* frame handler has nothing in hand.
UsedSockets ==
  /\ sock # None => wire[sock] # "unused"
  /\ fresh # None => wire[fresh] # "unused"
  /\ \A r \in Requests : on[r] # None => wire[on[r]] # "unused" /\ on[r] # fresh
  /\ \A s \in Sockets : reply[s] # None => wire[s] # "unused" /\ s # fresh

\* The requests whose channel somebody may still write, or dropped.
Held == waiters \cup InHand \cup dropped

\* From waitResponse to its result a request is in the map, in the hands of a frame
\* handler or dropped by it, or its channel was used; and it has a socket from the
\* moment it read one.
Registered ==
  /\ \A r \in Requests :
       pc[r] \in {"read", "send", "resend"} \cup Out /\ chan[r] = "empty" => r \in Held
  /\ \A r \in Requests : pc[r] \in {"send", "register", "resend"} \cup Out => on[r] # None

\* Nobody holds a channel before waitResponse, or between the two attempts of a
\* request, and an answer that was dropped does not come back.
Settled ==
  /\ \A r \in Held : pc[r] # "idle"
  /\ \A r \in Requests : pc[r] \in {"retry", "reread", "register"} => chan[r] = "end"
  /\ \A r \in dropped : r \notin waiters /\ r \notin InHand /\ chan[r] \in {"empty", "closed"}

AnswersInv == UsedSockets /\ Registered /\ Settled /\ OneWriter /\ WaitsOnCurrent

\* A handler is set only on a websocket that was dialled, and nobody was called back
\* for the one that is being dialled.
FreshIsNew ==
  /\ \A s \in hook : wire[s] # "unused"
  /\ fresh # None => fresh \notin hook /\ closing[fresh] = "no"

\* The handler of the client's socket is set as long as its websocket is open.
HookIsSet == sock # None /\ wire[sock] = "open" => sock \in hook

\* Somebody other than onDisconnect and the holder of socketLock will reconnect, or
\* will disconnect on purpose.
Pending ==
  \/ \E j \in {"sleep", "wake", "login", "relogin", "refuse"} : running[j] > 0
  \/ \E s \in Sockets : keep[s] = "reset"

\* ResetConnection closed the socket and something has cleared its force flag: then
\* that something expects the disconnect, or reconnects itself.
LocalIsForced ==
  /\ sock # None /\ closing[sock] = "local"
  /\ EnableAutoReconnect /\ store = "paired" /\ ~expected
  => force \/ Pending

ReconnectsInv == HookIsSet /\ LocalIsForced /\ SomeoneReconnects

-----------------------------------------------------------------------------
(***************************************************************************)
(* Lemmas about the helpers                                                *)
(***************************************************************************)

\* Clearing the waiters keeps the types of the map and the channels.
LEMMA ClearTypes ==
  ASSUME TypeOK, NEW node \in {"end", "auth"}, clearResponseWaiters(node)
  PROVE  /\ waiters' \subseteq Requests
         /\ chan' \in [Requests -> {"empty", "answer", "end", "auth", "closed"}]
BY DEF TypeOK, clearResponseWaiters

\* unlockedDisconnect leaves the client without a socket, and no websocket open
\* but the one being dialled.
LEMMA DisconnectTypes ==
  ASSUME Inv, unlockedDisconnect
  PROVE  /\ sock' = None
         /\ wire' \in [Sockets -> {"unused", "open", "closed"}]
         /\ hook' \subseteq Sockets
         /\ waiters' \subseteq Requests
         /\ chan' \in [Requests -> {"empty", "answer", "end", "auth", "closed"}]
         /\ \A s \in Sockets : wire'[s] = "open" => s = fresh
         /\ \A s \in Sockets : wire[s] = "closed" => wire'[s] = "closed"
<1>1. CASE sock = None
  BY <1>1, NoneAssumption DEF Inv, TypeOK, OpenIsHeld, unlockedDisconnect, answers
<1>2. CASE sock # None
  <2>1. sock' = None /\ wire' = [wire EXCEPT ![sock] = "closed"] /\ hook' = hook \ {sock}
    BY <1>2 DEF unlockedDisconnect
  <2>2. clearResponseWaiters("end")
    BY <1>2 DEF unlockedDisconnect
  <2>3. /\ waiters' \subseteq Requests
        /\ chan' \in [Requests -> {"empty", "answer", "end", "auth", "closed"}]
    BY <2>2, ClearTypes DEF Inv
  <2>4. /\ wire' \in [Sockets -> {"unused", "open", "closed"}]
        /\ hook' \subseteq Sockets
        /\ \A s \in Sockets : wire'[s] = "open" => s = fresh
        /\ \A s \in Sockets : wire[s] = "closed" => wire'[s] = "closed"
    BY <1>2, <2>1 DEF Inv, TypeOK, OpenIsHeld
  <2>5. QED
    BY <2>1, <2>3, <2>4
<1>3. QED
  BY <1>1, <1>2

\* What a caller of unlockedConnect does with an error keeps the types.
LEMMA FailedTypes ==
  ASSUME TypeOK, NEW who, NEW jobs \in [Jobs -> Nat], Failed(who, jobs)
  PROVE  running' \in [Jobs -> Nat] /\ gaveUp' \in BOOLEAN
<1>1. CASE who = "auto"
  BY <1>1 DEF TypeOK, Failed, Jobs
<1>2. CASE who # "auto"
  BY <1>2 DEF TypeOK, Failed
<1>3. QED
  BY <1>1, <1>2

\* A goroutine that is there may leave or move, and autoReconnect adds one.
LEMMA JobTypes ==
  ASSUME TypeOK
  PROVE  /\ \A j \in Jobs : running[j] > 0 => Leave(j) \in [Jobs -> Nat]
         /\ \A j, k \in Jobs : running[j] > 0 /\ j # k => Move(j, k) \in [Jobs -> Nat]
         /\ \A j \in Jobs : [running EXCEPT ![j] = @ + 1] \in [Jobs -> Nat]
         /\ autoReconnect(running) \in [Jobs -> Nat]
<1>1. \A j \in Jobs : running[j] > 0 => Leave(j) \in [Jobs -> Nat]
  BY DEF TypeOK, Leave
<1>2. \A j, k \in Jobs : running[j] > 0 /\ j # k => Move(j, k) \in [Jobs -> Nat]
  BY DEF TypeOK, Move
<1>3. \A j \in Jobs : [running EXCEPT ![j] = @ + 1] \in [Jobs -> Nat]
  BY DEF TypeOK
<1>4. autoReconnect(running) \in [Jobs -> Nat]
  BY <1>3 DEF TypeOK, autoReconnect, Jobs
<1>5. QED
  BY <1>1, <1>2, <1>3, <1>4

-----------------------------------------------------------------------------
(***************************************************************************)
(* One lemma for each group of actions                                     *)
(***************************************************************************)

LEMMA InitInv == Init => Inv
<1> SUFFICES ASSUME Init PROVE Inv
  OBVIOUS
<1>1. /\ wire \in [Sockets -> {"unused", "open", "closed"}]
      /\ closing \in [Sockets -> {"no", "local", "remote"}]
      /\ queue \in [Sockets -> Nodes \cup {"nothing"}]
      /\ server \in [Sockets -> {"mute", "pairing", "up", "bye"}]
      /\ keep \in [Sockets -> {"off", "loop", "disconnect", "reset"}]
  BY DEF Init
<1>2. /\ chan \in [Requests -> {"empty", "answer", "end", "auth", "closed"}]
      /\ pc \in [Requests -> Steps]
      /\ on \in [Requests -> Sockets \cup {None}]
      /\ running \in [Jobs -> Nat]
      /\ reply \in [Sockets -> Requests \cup {None}]
  BY DEF Init, Steps
<1>3. faults \in Nat /\ calls \in Nat
  BY BoundsAssumption DEF Init
<1>4. TypeOK
  BY <1>1, <1>2, <1>3 DEF Init, TypeOK, Unlocked, Dialers
<1>5. OpenIsHeld /\ ClosingIsClosed
  BY DEF Init, OpenIsHeld, ClosingIsClosed
<1>6. QED
  BY <1>4, <1>5 DEF Inv

\* unlockedConnect up to the dial: the old socket goes before the lock's holder
\* opens a new one.
LEMMA BeginInv ==
  ASSUME Inv, NEW who \in Dialers, NEW jobs \in [Jobs -> Nat], Begin(who, jobs), calls' \in Nat
  PROVE  Inv'
<1>1. CASE Failed(who, jobs) /\ UNCHANGED <<connection, answers, attempt, flags>>
  <2>1. running' \in [Jobs -> Nat] /\ gaveUp' \in BOOLEAN
    BY <1>1, FailedTypes DEF Inv
  <2>2. QED
    BY <1>1, <2>1 DEF Begin, Inv, TypeOK, OpenIsHeld, ClosingIsClosed, Unlocked, connection,
      answers, attempt, flags, peer, callers, frames, request
<1>2. CASE running' = jobs /\ UNCHANGED <<connection, answers, attempt, flags, gaveUp>>
  BY <1>2 DEF Begin, Inv, TypeOK, OpenIsHeld, ClosingIsClosed, Unlocked, connection, answers,
    attempt, flags, peer, callers, frames, request
<1>3. CASE /\ unlockedDisconnect /\ resetExpectedDisconnect
           /\ dialer' = who /\ running' = jobs /\ UNCHANGED <<closing, fresh, gaveUp>>
  <2>1. /\ sock' = None
        /\ wire' \in [Sockets -> {"unused", "open", "closed"}]
        /\ hook' \subseteq Sockets
        /\ waiters' \subseteq Requests
        /\ chan' \in [Requests -> {"empty", "answer", "end", "auth", "closed"}]
        /\ \A s \in Sockets : wire'[s] = "open" => s = fresh
        /\ \A s \in Sockets : wire[s] = "closed" => wire'[s] = "closed"
    BY <1>3, DisconnectTypes
  <2>2. TypeOK'
    BY <1>3, <2>1 DEF Begin, Inv, TypeOK, Unlocked, Dialers, resetExpectedDisconnect, peer,
      callers, frames, request
  <2>3. OpenIsHeld' /\ ClosingIsClosed'
    BY <1>3, <2>1 DEF Inv, OpenIsHeld, ClosingIsClosed
  <2>4. QED
    BY <2>2, <2>3 DEF Inv
<1>4. QED
  BY <1>1, <1>2, <1>3 DEF Begin

\* The rest of unlockedConnect.
LEMMA DialInv ==
  ASSUME Inv, DialFails \/ HandshakeFails \/ Install \/ (\E s \in Sockets : Dial(s))
  PROVE  Inv'
<1>1. ASSUME DialFails PROVE Inv'
  <2>1. running' \in [Jobs -> Nat] /\ gaveUp' \in BOOLEAN
    BY <1>1, FailedTypes DEF Inv, TypeOK, DialFails
  <2>2. QED
    BY <1>1, <2>1, BoundsAssumption DEF DialFails, Fault, Inv, TypeOK, OpenIsHeld,
      ClosingIsClosed, Unlocked, connection, peer, flags, answers, callers, frames, request
<1>2. ASSUME HandshakeFails PROVE Inv'
  <2>1. running' \in [Jobs -> Nat] /\ gaveUp' \in BOOLEAN
    BY <1>2, FailedTypes DEF Inv, TypeOK, HandshakeFails
  <2>2. QED
    BY <1>2, <2>1, BoundsAssumption DEF HandshakeFails, Fault, Inv, TypeOK, OpenIsHeld,
      ClosingIsClosed, Unlocked, peer, flags, answers, callers, frames, request
<1>3. ASSUME Install PROVE Inv'
  BY <1>3 DEF Install, Inv, TypeOK, OpenIsHeld, ClosingIsClosed, Unlocked, peer, flags, answers,
    callers, frames, request
<1>4. ASSUME NEW s \in Sockets, Dial(s) PROVE Inv'
  BY <1>4 DEF Dial, Inv, TypeOK, OpenIsHeld, ClosingIsClosed, Unlocked, peer, flags, answers,
    callers, frames, request
<1>5. QED
  BY <1>1, <1>2, <1>3, <1>4

\* Disconnect, whoever calls it and whatever that caller does with its own goroutines.
LEMMA DisconnectInv ==
  ASSUME Inv, disconnect,
         keep' \in [Sockets -> {"off", "loop", "disconnect", "reset"}],
         store' \in {"new", "paired", "deleted"},
         running' \in [Jobs -> Nat], calls' \in Nat, faults' \in Nat,
         UNCHANGED <<closing, peer, attempt, loggedIn, callers, gaveUp>>
  PROVE  Inv'
<1>1. /\ sock' = None
      /\ wire' \in [Sockets -> {"unused", "open", "closed"}]
      /\ hook' \subseteq Sockets
      /\ waiters' \subseteq Requests
      /\ chan' \in [Requests -> {"empty", "answer", "end", "auth", "closed"}]
      /\ \A s \in Sockets : wire'[s] = "open" => s = fresh
      /\ \A s \in Sockets : wire[s] = "closed" => wire'[s] = "closed"
  BY DisconnectTypes DEF disconnect
<1>2. expected' = TRUE /\ force' = FALSE /\ Unlocked
  BY DEF disconnect, expectDisconnect
<1>3. TypeOK'
  BY <1>1, <1>2 DEF Inv, TypeOK, Unlocked, peer, attempt, callers, frames, request
<1>4. OpenIsHeld' /\ ClosingIsClosed'
  BY <1>1 DEF Inv, OpenIsHeld, ClosingIsClosed, attempt
<1>5. QED
  BY <1>3, <1>4 DEF Inv

\* The calls of the application.
LEMMA CallInv ==
  ASSUME Inv, Connect \/ Disconnect \/ ResetConnection
  PROVE  Inv'
<1>1. ASSUME Connect PROVE Inv'
  BY <1>1, BeginInv DEF Connect, Call, Inv, TypeOK, Dialers
<1>2. ASSUME Disconnect PROVE Inv'
  <2>1. disconnect /\ UNCHANGED <<closing, peer, attempt, loggedIn, callers, gaveUp>>
    BY <1>2 DEF Disconnect
  <2>2. /\ keep' \in [Sockets -> {"off", "loop", "disconnect", "reset"}]
        /\ store' \in {"new", "paired", "deleted"}
        /\ running' \in [Jobs -> Nat] /\ calls' \in Nat /\ faults' \in Nat
    BY <1>2 DEF Disconnect, Call, Inv, TypeOK
  <2>3. QED
    BY <2>1, <2>2, DisconnectInv
<1>3. ASSUME ResetConnection PROVE Inv'
  <2>1. CASE sock = None /\ UNCHANGED <<wire, closing, answers>>
    BY <1>3, <2>1 DEF ResetConnection, Call, Inv, TypeOK, OpenIsHeld, ClosingIsClosed, Unlocked,
      peer, attempt, answers, callers, frames, request
  <2>2. CASE /\ sock # None
             /\ wire' = [wire EXCEPT ![sock] = "closed"]
             /\ closing' = [closing EXCEPT ![sock] = IF Connected THEN "local" ELSE @]
             /\ clearResponseWaiters("end")
    <3>1. /\ waiters' \subseteq Requests
          /\ chan' \in [Requests -> {"empty", "answer", "end", "auth", "closed"}]
      BY <2>2, ClearTypes DEF Inv
    <3>2. closing' \in [Sockets -> {"no", "local", "remote"}]
      BY <2>2 DEF Inv, TypeOK
    <3>3. QED
      BY <1>3, <2>2, <3>1, <3>2 DEF ResetConnection, Call, Inv, TypeOK, OpenIsHeld,
        ClosingIsClosed, Unlocked, peer, attempt, callers, frames, request
  <2>3. QED
    BY <1>3, <2>1, <2>2 DEF ResetConnection
<1>4. QED
  BY <1>1, <1>2, <1>3

\* onDisconnect and autoReconnect.
LEMMA ReconnectInv ==
  ASSUME Inv, AutoSleep \/ AutoConnect \/ (\E s \in Sockets : onDisconnect(s))
  PROVE  Inv'
<1>1. ASSUME AutoSleep PROVE Inv'
  <2>1. running' \in [Jobs -> Nat]
    BY <1>1, JobTypes DEF AutoSleep, Jobs, Inv
  <2>2. QED
    BY <1>1, <2>1 DEF AutoSleep, Inv, TypeOK, OpenIsHeld, ClosingIsClosed, Unlocked, connection,
      peer, attempt, flags, answers, callers, frames, request
<1>2. ASSUME AutoConnect PROVE Inv'
  <2>1. Leave("wake") \in [Jobs -> Nat]
    BY <1>2, JobTypes DEF AutoConnect, Jobs, Inv
  <2>2. QED
    BY <1>2, <2>1, BeginInv DEF AutoConnect, Inv, TypeOK, Dialers
<1>3. ASSUME NEW s \in Sockets, onDisconnect(s) PROVE Inv'
  <2>1. CASE /\ sock = s /\ sock' = None
             /\ clearResponseWaiters("end")
             /\ running' = IF NeedsReconnect(s) THEN autoReconnect(running) ELSE running
             /\ force' = (force /\ expected)
    <3>1. /\ waiters' \subseteq Requests
          /\ chan' \in [Requests -> {"empty", "answer", "end", "auth", "closed"}]
      BY <2>1, ClearTypes DEF Inv
    <3>2. running' \in [Jobs -> Nat]
      BY <2>1, JobTypes DEF Inv, TypeOK
    <3>3. wire[s] # "open"
      BY <1>3 DEF onDisconnect, Inv, ClosingIsClosed
    <3>4. QED
      BY <1>3, <2>1, <3>1, <3>2, <3>3 DEF onDisconnect, Inv, TypeOK, OpenIsHeld, ClosingIsClosed,
        Unlocked, peer, attempt, callers, frames, request
  <2>2. CASE sock # s /\ UNCHANGED <<sock, answers, running, force>>
    BY <1>3, <2>2 DEF onDisconnect, Inv, TypeOK, OpenIsHeld, ClosingIsClosed, Unlocked, peer,
      attempt, answers, callers, frames, request
  <2>3. QED
    BY <1>3, <2>1, <2>2 DEF onDisconnect
<1>4. QED
  BY <1>1, <1>2, <1>3

\* The forced reconnect of the keepalive loop.
LEMMA KeepAliveInv ==
  ASSUME Inv, NEW s \in Sockets,
         KeepAliveFails(s) \/ KeepAliveDisconnect(s) \/ KeepAliveReset(s)
  PROVE  Inv'
<1>1. ASSUME KeepAliveFails(s) PROVE Inv'
  BY <1>1 DEF KeepAliveFails, Fault, Inv, TypeOK, OpenIsHeld, ClosingIsClosed, Unlocked,
    connection, peer, attempt, flags, answers, callers, frames, request
<1>2. ASSUME KeepAliveDisconnect(s) PROVE Inv'
  <2>1. disconnect /\ UNCHANGED <<closing, peer, attempt, loggedIn, callers, gaveUp>>
    BY <1>2 DEF KeepAliveDisconnect
  <2>2. /\ keep' \in [Sockets -> {"off", "loop", "disconnect", "reset"}]
        /\ store' \in {"new", "paired", "deleted"}
        /\ running' \in [Jobs -> Nat] /\ calls' \in Nat /\ faults' \in Nat
    BY <1>2 DEF KeepAliveDisconnect, Inv, TypeOK
  <2>3. QED
    BY <2>1, <2>2, DisconnectInv
<1>3. ASSUME KeepAliveReset(s) PROVE Inv'
  <2>1. running' \in [Jobs -> Nat]
    BY <1>3, JobTypes DEF KeepAliveReset, Inv
  <2>2. QED
    BY <1>3, <2>1 DEF KeepAliveReset, resetExpectedDisconnect, Inv, TypeOK, OpenIsHeld,
      ClosingIsClosed, Unlocked, connection, peer, attempt, flags, answers, callers, frames, request
<1>4. QED
  BY <1>1, <1>2, <1>3

\* What the server does to a socket, and the queue that drops its last node.
LEMMA ServerInv ==
  ASSUME Inv, NEW s \in Sockets,
         RemoteClose(s) \/ (\E n \in Nodes : ServerSends(s, n)) \/ QueueDropped(s)
  PROVE  Inv'
<1>1. ASSUME RemoteClose(s) PROVE Inv'
  BY <1>1 DEF RemoteClose, Fault, Inv, TypeOK, OpenIsHeld, ClosingIsClosed, Unlocked, connection,
    peer, attempt, flags, answers, callers, frames, request
<1>2. ASSUME NEW n \in Nodes, ServerSends(s, n) PROVE Inv'
  <2>1. faults' \in Nat
    BY <1>2 DEF ServerSends, Fault, Inv, TypeOK
  <2>2. server' \in [Sockets -> {"mute", "pairing", "up", "bye"}]
    BY <1>2 DEF ServerSends, After, Inv, TypeOK
  <2>3. QED
    BY <1>2, <2>1, <2>2 DEF ServerSends, Inv, TypeOK, OpenIsHeld, ClosingIsClosed, Unlocked,
      connection, peer, attempt, flags, answers, callers, frames, request
<1>3. ASSUME QueueDropped(s) PROVE Inv'
  BY <1>3 DEF QueueDropped, Inv, TypeOK, OpenIsHeld, ClosingIsClosed, Unlocked, connection, peer,
    attempt, flags, answers, callers, frames, request
<1>4. QED
  BY <1>1, <1>2, <1>3

\* The node handlers.
LEMMA HandlerInv ==
  ASSUME Inv, NEW s \in Sockets,
         \/ handleConnectSuccess(s) \/ handleConnectFailure(s) \/ handleStreamError(s)
         \/ handlePair(s)
  PROVE  Inv'
<1>1. ASSUME handleConnectSuccess(s) PROVE Inv'
  BY <1>1 DEF handleConnectSuccess, Handled, Inv, TypeOK, OpenIsHeld, ClosingIsClosed, Unlocked,
    connection, peer, attempt, flags, answers, callers, frames, request
<1>2. ASSUME handleConnectFailure(s) PROVE Inv'
  BY <1>2 DEF handleConnectFailure, Handled, expectDisconnect, Inv, TypeOK, OpenIsHeld,
    ClosingIsClosed, Unlocked, connection, peer, attempt, flags, answers, callers, frames, request
<1>3. ASSUME handleStreamError(s) PROVE Inv'
  <2>1. clearResponseWaiters(Cause(queue[s])) /\ Cause(queue[s]) \in {"end", "auth"}
    BY <1>3 DEF handleStreamError, Cause
  <2>2. /\ waiters' \subseteq Requests
        /\ chan' \in [Requests -> {"empty", "answer", "end", "auth", "closed"}]
    BY <2>1, ClearTypes DEF Inv
  <2>3. running' \in [Jobs -> Nat]
    BY <1>3, JobTypes DEF handleStreamError, Jobs, Inv, TypeOK
  <2>4. expected' \in BOOLEAN /\ force' \in BOOLEAN /\ store' \in {"new", "paired", "deleted"}
    BY <1>3 DEF handleStreamError, expectDisconnect, flags, Inv, TypeOK
  <2>5. QED
    BY <1>3, <2>2, <2>3, <2>4 DEF handleStreamError, Handled, Inv, TypeOK, OpenIsHeld,
      ClosingIsClosed, Unlocked, connection, peer, attempt, flags, answers, callers, frames, request
<1>4. ASSUME handlePair(s) PROVE Inv'
  <2>1. running' \in [Jobs -> Nat]
    BY <1>4, JobTypes DEF handlePair, Jobs, Inv
  <2>2. /\ expected' \in BOOLEAN /\ force' \in BOOLEAN
        /\ store' \in {"new", "paired", "deleted"} /\ faults' \in Nat
    <3>1. faults' \in Nat
      BY <1>4 DEF handlePair, Fault, Inv, TypeOK
    <3>2. CASE expectDisconnect /\ store' = "paired"
      BY <3>1, <3>2 DEF expectDisconnect
    <3>3. CASE UNCHANGED flags /\ store' \in {store, "paired", "deleted"}
      BY <3>1, <3>3 DEF flags, Inv, TypeOK
    <3>4. QED
      BY <1>4, <3>2, <3>3 DEF handlePair
  <2>3. queue' = [queue EXCEPT ![s] = "nothing"]
    BY <1>4 DEF handlePair, Handled
  <2>4. UNCHANGED <<connection, server, keep, attempt, loggedIn, answers, callers, gaveUp, calls>>
    BY <1>4 DEF handlePair
  <2>5. QED
    BY <2>1, <2>2, <2>3, <2>4 DEF Inv, TypeOK, OpenIsHeld, ClosingIsClosed, Unlocked, connection,
      attempt, answers, callers, frames, request
<1>5. QED
  BY <1>1, <1>2, <1>3, <1>4

\* The goroutines a 515 and a pairing leave.
LEMMA LoginInv ==
  ASSUME Inv, LoginDisconnect \/ LoginConnect \/ PairConfirm \/ PairRefused
  PROVE  Inv'
<1>1. ASSUME LoginDisconnect PROVE Inv'
  <2>1. disconnect /\ UNCHANGED <<closing, peer, attempt, loggedIn, callers, gaveUp>>
    BY <1>1 DEF LoginDisconnect
  <2>2. running' \in [Jobs -> Nat]
    BY <1>1, JobTypes DEF LoginDisconnect, Jobs, Inv
  <2>3. /\ keep' \in [Sockets -> {"off", "loop", "disconnect", "reset"}]
        /\ store' \in {"new", "paired", "deleted"} /\ calls' \in Nat /\ faults' \in Nat
    BY <1>1 DEF LoginDisconnect, Inv, TypeOK
  <2>4. QED
    BY <2>1, <2>2, <2>3, DisconnectInv
<1>2. ASSUME LoginConnect PROVE Inv'
  <2>1. Leave("relogin") \in [Jobs -> Nat]
    BY <1>2, JobTypes DEF LoginConnect, Jobs, Inv
  <2>2. QED
    BY <1>2, <2>1, BeginInv DEF LoginConnect, Inv, TypeOK, Dialers
<1>3. ASSUME PairConfirm PROVE Inv'
  <2>1. running' \in [Jobs -> Nat]
    BY <1>3, JobTypes DEF PairConfirm, Jobs, Inv
  <2>2. CASE UNCHANGED <<sock, wire, hook, answers, flags, store, faults>>
    BY <1>3, <2>1, <2>2 DEF PairConfirm, Inv, TypeOK, OpenIsHeld, ClosingIsClosed, Unlocked,
      connection, peer, attempt, flags, answers, callers, frames, request
  <2>3. CASE store' = "deleted" /\ disconnect
    <3>1. UNCHANGED <<closing, peer, attempt, loggedIn, callers, gaveUp>>
      BY <1>3 DEF PairConfirm
    <3>2. /\ keep' \in [Sockets -> {"off", "loop", "disconnect", "reset"}]
          /\ store' \in {"new", "paired", "deleted"} /\ calls' \in Nat /\ faults' \in Nat
      BY <1>3, <2>3 DEF PairConfirm, Fault, Inv, TypeOK
    <3>3. QED
      BY <2>1, <2>3, <3>1, <3>2, DisconnectInv
  <2>4. QED
    BY <1>3, <2>2, <2>3 DEF PairConfirm
<1>4. ASSUME PairRefused PROVE Inv'
  <2>1. disconnect /\ UNCHANGED <<closing, peer, attempt, loggedIn, callers, gaveUp>>
    BY <1>4 DEF PairRefused
  <2>2. running' \in [Jobs -> Nat]
    BY <1>4, JobTypes DEF PairRefused, Jobs, Inv
  <2>3. /\ keep' \in [Sockets -> {"off", "loop", "disconnect", "reset"}]
        /\ store' \in {"new", "paired", "deleted"} /\ calls' \in Nat /\ faults' \in Nat
    BY <1>4 DEF PairRefused, Inv, TypeOK
  <2>4. QED
    BY <2>1, <2>2, <2>3, DisconnectInv
<1>5. QED
  BY <1>1, <1>2, <1>3, <1>4

\* A request changes its own position and the waiters only.
LEMMA RequestInv ==
  ASSUME Inv, NEW r \in Requests, RequestStep(r)
  PROVE  Inv'
<1>1. Rest /\ UNCHANGED frames
  BY DEF RequestStep, IQRegister, IQRead, IQSend, IQSent, IQResult, IQTimeout, IQRetry, IQReread,
    Mine
<1>2. pc' \in [Requests -> Steps]
  BY DEF RequestStep, IQRegister, IQRead, IQSend, IQSent, IQResult, IQTimeout, IQRetry, IQReread,
    At, Steps, Inv, TypeOK
<1>3. on' \in [Requests -> Sockets \cup {None}]
  BY DEF RequestStep, IQRegister, IQRead, IQSend, IQSent, IQResult, IQTimeout, IQRetry, IQReread,
    Inv, TypeOK
<1>4. /\ waiters' \subseteq Requests
      /\ chan' \in [Requests -> {"empty", "answer", "end", "auth", "closed"}]
  BY DEF RequestStep, IQRegister, IQRead, IQSend, IQSent, IQResult, IQTimeout, IQRetry, IQReread,
    waitResponse, cancelResponse, answers, Inv, TypeOK
<1>5. QED
  BY <1>1, <1>2, <1>3, <1>4 DEF Rest, Inv, TypeOK, OpenIsHeld, ClosingIsClosed, Unlocked,
    connection, peer, attempt, flags, frames

\* The frame handler of a socket changes what it has in hand, the waiters and a channel.
LEMMA FrameInv ==
  ASSUME Inv, NEW s \in Sockets, FrameStep(s)
  PROVE  Inv'
<1>1. Rest /\ UNCHANGED request
  BY DEF FrameStep, receiveResponse, Deliver, Answer
<1>2. reply' \in [Sockets -> Requests \cup {None}]
  BY DEF FrameStep, receiveResponse, Deliver, Answer, Inv, TypeOK
<1>3. taken' \subseteq {t \in Sockets : reply'[t] # None}
  BY NoneAssumption DEF FrameStep, receiveResponse, Deliver, Answer, Inv, TypeOK
<1>4. dropped' \subseteq Requests
  BY DEF FrameStep, receiveResponse, Deliver, Answer, Inv, TypeOK
<1>5. panicked' \in BOOLEAN
  BY DEF FrameStep, receiveResponse, Deliver, Answer, Inv, TypeOK
<1>6. /\ waiters' \subseteq Requests
      /\ chan' \in [Requests -> {"empty", "answer", "end", "auth", "closed"}]
  BY DEF FrameStep, receiveResponse, Deliver, Answer, answers, Inv, TypeOK
<1>7. QED
  BY <1>1, <1>2, <1>3, <1>4, <1>5, <1>6 DEF Rest, Inv, TypeOK, OpenIsHeld, ClosingIsClosed,
    Unlocked, connection, peer, attempt, flags, request

LEMMA NextInv == Inv /\ [Next]_vars => Inv'
<1> SUFFICES ASSUME Inv, [Next]_vars PROVE Inv'
  OBVIOUS
<1>1. CASE Connect \/ Disconnect \/ ResetConnection
  BY <1>1, CallInv
<1>2. CASE ClientStep
  BY <1>2, DialInv, ReconnectInv, LoginInv, KeepAliveInv, ServerInv, HandlerInv DEF ClientStep
<1>3. CASE \E s \in Sockets :
             \/ KeepAliveFails(s) \/ RemoteClose(s) \/ (\E n \in Nodes : ServerSends(s, n))
             \/ FrameStep(s)
  BY <1>3, KeepAliveInv, ServerInv, FrameInv
<1>4. CASE \E r \in Requests : RequestStep(r)
  BY <1>4, RequestInv
<1>5. CASE UNCHANGED vars
  BY <1>5 DEF vars, Inv, TypeOK, OpenIsHeld, ClosingIsClosed, Unlocked, connection, peer, attempt,
    flags, answers, callers, frames, request
<1>6. QED
  BY <1>1, <1>2, <1>3, <1>4, <1>5 DEF Next

-----------------------------------------------------------------------------
(***************************************************************************)
(* The requests                                                            *)
(***************************************************************************)

LEMMA AnswersInit == Init => AnswersInv
<1> SUFFICES ASSUME Init PROVE AnswersInv
  OBVIOUS
<1>1. \A r \in Requests : pc[r] \in {"idle", "done"} /\ on[r] = None
  BY DEF Init
<1>2. Held = {} /\ InHand = {} /\ \A s \in Sockets : reply[s] = None
  BY DEF Init, Held, InHand
<1>3. UsedSockets /\ Registered /\ Settled
  BY <1>1, <1>2 DEF Init, UsedSockets, Registered, Settled, Out
<1>4. OneWriter /\ WaitsOnCurrent
  BY <1>1, <1>2 DEF Init, OneWriter, WaitsOnCurrent, Out
<1>5. QED
  BY <1>3, <1>4 DEF AnswersInv

\* A step that touches neither the frame handlers nor the requests, and neither drops
\* nor opens a socket.
LEMMA AnswersStay ==
  ASSUME Inv, AnswersInv, UNCHANGED <<sock, answers, callers>>, fresh' \in {fresh, None},
         \A s \in Sockets : wire[s] # "unused" => wire'[s] # "unused"
  PROVE  AnswersInv'
<1>1. UNCHANGED <<waiters, chan, reply, taken, dropped, pc, on>>
  BY DEF answers, callers, frames, request
<1>2. UNCHANGED <<InHand, Held>>
  BY <1>1 DEF Held, InHand
<1>3. UsedSockets'
  BY <1>1, NoneAssumption DEF AnswersInv, UsedSockets, Inv, TypeOK
<1>4. Registered' /\ Settled' /\ OneWriter' /\ WaitsOnCurrent'
  BY <1>1, <1>2 DEF AnswersInv, Registered, Settled, OneWriter, WaitsOnCurrent
<1>5. QED
  BY <1>3, <1>4 DEF AnswersInv

\* A step that clears the waiters may also drop the socket: nobody is left to wait
\* for it but those whose answer has come.
LEMMA AnswersCleared ==
  ASSUME Inv, AnswersInv, NEW node \in {"end", "auth"}, clearResponseWaiters(node),
         UNCHANGED <<fresh, callers>>, sock' \in {sock, None},
         \A s \in Sockets : wire[s] # "unused" => wire'[s] # "unused"
  PROVE  AnswersInv'
<1>1. UNCHANGED <<reply, taken, dropped, pc, on>>
  BY DEF callers, frames, request
<1>2. /\ \A r \in Requests \ waiters : chan'[r] = chan[r]
      /\ \A r \in waiters : chan'[r] # "empty"
      /\ waiters' = {}
  BY DEF clearResponseWaiters, Inv, TypeOK
<1>3. InHand' = InHand /\ Held' = InHand \cup dropped
  BY <1>1, <1>2 DEF InHand, Held
<1>4. InHand \subseteq Requests /\ dropped \subseteq Requests
  BY DEF InHand, Inv, TypeOK
<1>5. UsedSockets'
  BY <1>1, NoneAssumption DEF AnswersInv, UsedSockets, Inv, TypeOK
<1>6. Registered' /\ WaitsOnCurrent'
  BY <1>1, <1>2, <1>3 DEF AnswersInv, Registered, WaitsOnCurrent, Held
<1>7. OneWriter'
  BY <1>1, <1>2, <1>3, <1>4 DEF AnswersInv, OneWriter
<1>8. Settled'
  <2>1. \A r \in Requests : pc'[r] \in {"retry", "reread", "register"} => chan'[r] = "end"
    BY <1>1, <1>2 DEF AnswersInv, Settled, OneWriter
  <2>2. QED
    BY <1>1, <1>2, <1>3, <1>4, <2>1 DEF AnswersInv, Settled, Held
<1>9. QED
  BY <1>5, <1>6, <1>7, <1>8 DEF AnswersInv

\* unlockedDisconnect, whoever calls it.
LEMMA AnswersDropped ==
  ASSUME Inv, AnswersInv, unlockedDisconnect, UNCHANGED <<fresh, callers>>
  PROVE  AnswersInv'
<1>1. CASE sock = None
  <2>1. UNCHANGED <<sock, wire, answers>>
    BY <1>1 DEF unlockedDisconnect
  <2>2. QED
    BY <2>1, AnswersStay
<1>2. CASE sock # None
  <2>1. \A s \in Sockets : wire[s] # "unused" => wire'[s] # "unused"
    BY <1>2 DEF unlockedDisconnect, Inv, TypeOK
  <2>2. clearResponseWaiters("end") /\ sock' = None
    BY <1>2 DEF unlockedDisconnect
  <2>3. QED
    BY <2>1, <2>2, AnswersCleared
<1>3. QED
  BY <1>1, <1>2

\* unlockedConnect: no request waits while the client has no socket, and none has
\* the websocket that is being dialled.
LEMMA AnswersDial ==
  ASSUME Inv, AnswersInv
  PROVE  /\ \A who, jobs : Begin(who, jobs) => AnswersInv'
         /\ DialFails \/ HandshakeFails \/ Install => AnswersInv'
         /\ \A s \in Sockets : Dial(s) => AnswersInv'
<1>1. ASSUME NEW who, NEW jobs, Begin(who, jobs) PROVE AnswersInv'
  <2>1. CASE UNCHANGED <<connection, answers, attempt>>
    BY <1>1, <2>1, AnswersStay DEF Begin, connection, attempt
  <2>2. CASE unlockedDisconnect /\ UNCHANGED fresh
    BY <1>1, <2>2, AnswersDropped DEF Begin
  <2>3. QED
    BY <1>1, <2>1, <2>2 DEF Begin
<1>2. ASSUME DialFails PROVE AnswersInv'
  <2>1. UNCHANGED <<sock, wire, fresh, answers, callers>>
    BY <1>2 DEF DialFails, connection
  <2>2. QED
    BY <2>1, AnswersStay
<1>3. ASSUME HandshakeFails PROVE AnswersInv'
  <2>1. UNCHANGED <<sock, answers, callers>> /\ fresh' = None
    BY <1>3 DEF HandshakeFails
  <2>2. \A s \in Sockets : wire[s] # "unused" => wire'[s] # "unused"
    BY <1>3 DEF HandshakeFails, Inv, TypeOK
  <2>3. QED
    BY <2>1, <2>2, AnswersStay
<1>4. ASSUME Install PROVE AnswersInv'
  <2>1. /\ UNCHANGED <<wire, waiters, chan, reply, taken, dropped, pc, on>>
        /\ fresh' = None /\ sock' = fresh /\ sock = None
    BY <1>4 DEF Install, answers, callers, frames, request, Inv, TypeOK
  <2>2. UNCHANGED <<InHand, Held>>
    BY <2>1 DEF InHand, Held
  <2>3. UsedSockets'
    BY <2>1, NoneAssumption DEF AnswersInv, UsedSockets, Inv, TypeOK
  <2>4. WaitsOnCurrent'
    BY <2>1, <2>2 DEF AnswersInv, Registered, WaitsOnCurrent
  <2>5. QED
    BY <2>1, <2>2, <2>3, <2>4 DEF AnswersInv, Registered, Settled, OneWriter
<1>5. ASSUME NEW s \in Sockets, Dial(s) PROVE AnswersInv'
  <2>1. UNCHANGED <<sock, waiters, chan, reply, taken, dropped, pc, on>> /\ fresh' = s
    BY <1>5 DEF Dial, answers, callers, frames, request
  <2>2. wire[s] = "unused" /\ wire' = [wire EXCEPT ![s] = "open"]
    BY <1>5 DEF Dial
  <2>3. \A t \in Sockets : wire[t] # "unused" => wire'[t] # "unused"
    BY <2>2 DEF Inv, TypeOK
  <2>4. UsedSockets'
    BY <2>1, <2>2, <2>3 DEF AnswersInv, UsedSockets, Inv, TypeOK
  <2>5. UNCHANGED <<InHand, Held>>
    BY <2>1 DEF InHand, Held
  <2>6. QED
    BY <2>1, <2>4, <2>5 DEF AnswersInv, Registered, Settled, OneWriter, WaitsOnCurrent
<1>6. QED
  BY <1>1, <1>2, <1>3, <1>4, <1>5

\* The steps of a client, but for the ones of unlockedConnect.
LEMMA AnswersClient ==
  ASSUME Inv, AnswersInv, NEW s,
         \/ Disconnect \/ ResetConnection \/ AutoSleep \/ LoginDisconnect \/ PairConfirm
         \/ PairRefused
         \/ onDisconnect(s) \/ KeepAliveFails(s) \/ KeepAliveDisconnect(s) \/ KeepAliveReset(s)
         \/ RemoteClose(s) \/ (\E n \in Nodes : ServerSends(s, n)) \/ QueueDropped(s)
         \/ handleConnectSuccess(s) \/ handleConnectFailure(s) \/ handleStreamError(s)
         \/ handlePair(s)
  PROVE  AnswersInv'
<1>1. ASSUME \/ AutoSleep \/ KeepAliveFails(s) \/ KeepAliveReset(s)
             \/ (\E n \in Nodes : ServerSends(s, n)) \/ QueueDropped(s)
             \/ handleConnectSuccess(s) \/ handleConnectFailure(s) \/ handlePair(s)
      PROVE AnswersInv'
  <2>1. UNCHANGED <<sock, wire, fresh, answers, callers>>
    BY <1>1 DEF AutoSleep, KeepAliveFails, KeepAliveReset, ServerSends, QueueDropped,
      handleConnectSuccess, handleConnectFailure, handlePair, connection, attempt
  <2>2. QED
    BY <2>1, AnswersStay
<1>2. ASSUME Disconnect \/ LoginDisconnect \/ PairRefused \/ KeepAliveDisconnect(s)
      PROVE AnswersInv'
  BY <1>2, AnswersDropped DEF Disconnect, LoginDisconnect, PairRefused, KeepAliveDisconnect,
    disconnect, attempt
<1>3. ASSUME PairConfirm PROVE AnswersInv'
  <2>1. CASE UNCHANGED <<sock, wire, answers>>
    BY <1>3, <2>1, AnswersStay DEF PairConfirm, attempt
  <2>2. CASE disconnect
    BY <1>3, <2>2, AnswersDropped DEF PairConfirm, disconnect, attempt
  <2>3. QED
    BY <1>3, <2>1, <2>2 DEF PairConfirm
<1>4. ASSUME ResetConnection PROVE AnswersInv'
  <2>1. UNCHANGED <<sock, fresh, callers>>
    BY <1>4 DEF ResetConnection, attempt
  <2>2. CASE UNCHANGED <<wire, answers>>
    BY <2>1, <2>2, AnswersStay
  <2>3. CASE /\ sock # None /\ clearResponseWaiters("end")
             /\ wire' = [wire EXCEPT ![sock] = "closed"]
    <3>1. \A t \in Sockets : wire[t] # "unused" => wire'[t] # "unused"
      BY <2>3 DEF Inv, TypeOK
    <3>2. QED
      BY <2>1, <2>3, <3>1, AnswersCleared
  <2>4. QED
    BY <1>4, <2>2, <2>3 DEF ResetConnection
<1>5. ASSUME onDisconnect(s) PROVE AnswersInv'
  <2>1. UNCHANGED <<wire, fresh, callers>>
    BY <1>5 DEF onDisconnect, attempt
  <2>2. CASE UNCHANGED <<sock, answers>>
    BY <2>1, <2>2, AnswersStay
  <2>3. CASE sock' = None /\ clearResponseWaiters("end")
    BY <2>1, <2>3, AnswersCleared
  <2>4. QED
    BY <1>5, <2>2, <2>3 DEF onDisconnect
<1>6. ASSUME RemoteClose(s) PROVE AnswersInv'
  <2>1. UNCHANGED <<sock, fresh, answers, callers>>
    BY <1>6 DEF RemoteClose, attempt
  <2>2. \A t \in Sockets : wire[t] # "unused" => wire'[t] # "unused"
    BY <1>6 DEF RemoteClose, Inv, TypeOK
  <2>3. QED
    BY <2>1, <2>2, AnswersStay
<1>7. ASSUME handleStreamError(s) PROVE AnswersInv'
  <2>1. clearResponseWaiters(Cause(queue[s])) /\ Cause(queue[s]) \in {"end", "auth"}
    BY <1>7 DEF handleStreamError, Cause
  <2>2. UNCHANGED <<sock, wire, fresh, callers>>
    BY <1>7 DEF handleStreamError, connection, attempt
  <2>3. QED
    BY <2>1, <2>2, AnswersCleared
<1>8. QED
  BY <1>1, <1>2, <1>3, <1>4, <1>5, <1>6, <1>7

\* What a step of a request may do to the others, and to what the frame handlers hold.
LEMMA RequestKeeps ==
  ASSUME Inv, NEW r \in Requests, RequestStep(r)
  PROVE  /\ UNCHANGED <<sock, wire, fresh, reply, taken, dropped, InHand>>
         /\ \A q \in Requests \ {r} :
              pc'[q] = pc[q] /\ on'[q] = on[q] /\ chan'[q] = chan[q]
         /\ \A q \in Requests \ {r} : (q \in waiters' <=> q \in waiters)
         /\ waiters' \subseteq Requests
<1>1. UNCHANGED <<sock, wire, fresh, reply, taken, dropped>>
  BY DEF RequestStep, IQRegister, IQRead, IQSend, IQSent, IQResult, IQTimeout, IQRetry, IQReread,
    Mine, Rest, frames, connection, attempt
<1>2. InHand' = InHand
  BY <1>1 DEF InHand
<1>3. \A q \in Requests \ {r} : pc'[q] = pc[q] /\ on'[q] = on[q] /\ chan'[q] = chan[q]
  BY DEF RequestStep, IQRegister, IQRead, IQSend, IQSent, IQResult, IQTimeout, IQRetry, IQReread,
    At, waitResponse, cancelResponse, answers, Inv, TypeOK
<1>4. /\ \A q \in Requests \ {r} : (q \in waiters' <=> q \in waiters)
      /\ waiters' \subseteq Requests
  BY DEF RequestStep, IQRegister, IQRead, IQSend, IQSent, IQResult, IQTimeout, IQRetry, IQReread,
    waitResponse, cancelResponse, answers, Inv, TypeOK
<1>5. QED
  BY <1>1, <1>2, <1>3, <1>4

\* What AnswersInv says of one request.
Holds(r) == r \in waiters \/ r \in InHand \/ r \in dropped
Fits(r) ==
  /\ on[r] # None => wire[on[r]] # "unused" /\ on[r] # fresh
  /\ pc[r] \in {"read", "send", "resend"} \cup Out /\ chan[r] = "empty" => Holds(r)
  /\ pc[r] \in {"send", "register", "resend"} \cup Out => on[r] # None
  /\ Holds(r) => pc[r] # "idle"
  /\ pc[r] \in {"retry", "reread", "register"} => chan[r] = "end"
  /\ r \in dropped => r \notin waiters /\ r \notin InHand /\ chan[r] \in {"empty", "closed"}
  /\ r \in waiters => chan[r] = "empty" /\ r \notin InHand
  /\ r \in InHand => chan[r] = "empty" \/ (chan[r] = "closed" /\ pc[r] = "done")
  /\ pc[r] \in Out /\ chan[r] = "empty"
       => (r \in waiters /\ on[r] = sock) \/ r \in InHand \/ r \in dropped

\* What it says of the sockets and their frame handlers.
Handlers ==
  /\ \A s, t \in taken : reply[s] = reply[t] => s = t
  /\ sock # None => wire[sock] # "unused"
  /\ fresh # None => wire[fresh] # "unused"
  /\ \A s \in Sockets : reply[s] # None => wire[s] # "unused" /\ s # fresh

\* AnswersInv is what it says of every request, and of the sockets, now ...
LEMMA AnswersFit ==
  ASSUME AnswersInv
  PROVE  Handlers /\ \A r \in Requests : Fits(r)
BY DEF AnswersInv, UsedSockets, Registered, Settled, OneWriter, WaitsOnCurrent, Held, Holds, Fits,
  Handlers

\* ... and after a step.
LEMMA FitAnswers ==
  ASSUME TypeOK', Handlers', \A r \in Requests : Fits(r)'
  PROVE  AnswersInv'
<1>1. InHand' \subseteq Requests /\ dropped' \subseteq Requests /\ waiters' \subseteq Requests
  BY DEF InHand, TypeOK
<1>2. QED
  BY <1>1 DEF AnswersInv, UsedSockets, Registered, Settled, OneWriter, WaitsOnCurrent, Held, Holds,
    Fits, Handlers

\* The steps of a request.  IQSend goes on to wait only on an open websocket, which
\* is the client's own: a request never has the one that is being dialled.
LEMMA AnswersRequest ==
  ASSUME Inv, AnswersInv, NEW r \in Requests, RequestStep(r)
  PROVE  AnswersInv'
<1>1. /\ UNCHANGED <<sock, wire, fresh, reply, taken, dropped, InHand>>
      /\ \A q \in Requests \ {r} : pc'[q] = pc[q] /\ on'[q] = on[q] /\ chan'[q] = chan[q]
      /\ \A q \in Requests \ {r} : (q \in waiters' <=> q \in waiters)
  BY RequestKeeps
<1>2. Handlers /\ \A q \in Requests : Fits(q)
  BY AnswersFit
<1>3. \A q \in Requests \ {r} : Fits(q)'
  BY <1>1, <1>2 DEF Fits, Holds
<1>4. ASSUME IQRegister(r) PROVE Fits(r)'
  <2>1. r \notin InHand /\ r \notin dropped
    BY <1>2, <1>4 DEF IQRegister, At, Fits, Holds
  <2>2. waiters' = waiters \cup {r} /\ chan'[r] = "empty" /\ on' = on
    BY <1>4 DEF IQRegister, waitResponse, Inv, TypeOK
  <2>3. (pc[r] = "idle" /\ pc'[r] = "read") \/ (pc[r] = "register" /\ pc'[r] = "resend")
    BY <1>4 DEF IQRegister, At, Inv, TypeOK
  <2>4. QED
    BY <1>1, <1>2, <2>1, <2>2, <2>3 DEF Fits, Holds, Out
<1>5. ASSUME IQRead(r) PROVE Fits(r)'
  <2>1. on'[r] = sock /\ (sock # None => sock # fresh /\ wire[sock] # "unused")
    BY <1>5, NoneAssumption DEF IQRead, Unlocked, AnswersInv, UsedSockets, Inv, TypeOK
  <2>2. CASE sock # None /\ At(r, "read", "send") /\ UNCHANGED answers
    <3>1. pc[r] = "read" /\ pc'[r] = "send" /\ UNCHANGED <<waiters, chan>>
      BY <2>2 DEF At, answers, Inv, TypeOK
    <3>2. QED
      BY <1>1, <1>2, <2>1, <2>2, <3>1 DEF Fits, Holds, Out
  <2>3. CASE sock = None /\ At(r, "read", "done") /\ cancelResponse(r)
    <3>1. pc[r] = "read" /\ pc'[r] = "done" /\ waiters' = waiters \ {r} /\ chan'[r] = "closed"
      BY <2>3 DEF At, cancelResponse, Inv, TypeOK
    <3>2. QED
      BY <1>1, <1>2, <2>1, <2>3, <3>1 DEF Fits, Holds, Out
  <2>4. QED
    BY <1>5, <2>2, <2>3 DEF IQRead
<1>6. ASSUME cancelResponse(r), pc[r] # "idle", pc'[r] = "done", on' = on PROVE Fits(r)'
  <2>1. waiters' = waiters \ {r} /\ chan'[r] = "closed"
    BY <1>6 DEF cancelResponse, Inv, TypeOK
  <2>2. QED
    BY <1>1, <1>2, <1>6, <2>1 DEF Fits, Holds, Out
<1>7. ASSUME IQSend(r) PROVE Fits(r)'
  <2>1. on' = on
    BY <1>7 DEF IQSend
  <2>2. CASE /\ At(r, "send", "sent") \/ At(r, "resend", "resent")
             /\ wire[on[r]] = "open" /\ UNCHANGED answers
    <3>1. pc[r] \in {"send", "resend"} /\ pc'[r] \in {"sent", "resent"}
          /\ UNCHANGED <<waiters, chan>>
      BY <2>2 DEF At, answers, Inv, TypeOK
    <3>2. on[r] \in Sockets /\ on[r] # fresh
      BY <1>2, <3>1 DEF Fits, Inv, TypeOK
    <3>3. on[r] = sock
      BY <2>2, <3>2 DEF Inv, OpenIsHeld
    <3>4. QED
      BY <1>1, <1>2, <2>1, <3>1, <3>3 DEF Fits, Holds, Out
  <2>3. CASE (At(r, "send", "done") \/ At(r, "resend", "done")) /\ cancelResponse(r)
    BY <1>6, <2>1, <2>3 DEF At, Inv, TypeOK
  <2>4. QED
    BY <1>7, <2>2, <2>3 DEF IQSend
<1>8. ASSUME IQSent(r) PROVE Fits(r)'
  <2>1. on' = on
    BY <1>8 DEF IQSent
  <2>2. CASE (At(r, "sent", "wait") \/ At(r, "resent", "wait2")) /\ UNCHANGED answers
    <3>1. pc[r] \in {"sent", "resent"} /\ pc'[r] \in {"wait", "wait2"}
          /\ UNCHANGED <<waiters, chan>>
      BY <2>2 DEF At, answers, Inv, TypeOK
    <3>2. QED
      BY <1>1, <1>2, <2>1, <3>1 DEF Fits, Holds, Out
  <2>3. CASE (At(r, "sent", "done") \/ At(r, "resent", "done")) /\ cancelResponse(r)
    BY <1>6, <2>1, <2>3 DEF At, Inv, TypeOK
  <2>4. QED
    BY <1>8, <2>2, <2>3 DEF IQSent
<1>9. ASSUME IQResult(r) \/ IQTimeout(r) \/ IQRetry(r) PROVE Fits(r)'
  <2>1. UNCHANGED <<on, waiters, chan>>
    BY <1>9 DEF IQResult, IQTimeout, IQRetry, answers
  <2>2. \/ pc[r] # "idle" /\ pc'[r] = "done"
        \/ chan[r] = "end" /\ pc[r] = "wait" /\ pc'[r] = "retry"
        \/ pc[r] = "retry" /\ pc'[r] = "reread"
    BY <1>9 DEF IQResult, IQTimeout, IQRetry, At, Inv, TypeOK
  <2>3. QED
    BY <1>1, <1>2, <2>1, <2>2 DEF Fits, Holds, Out
<1>10. ASSUME IQReread(r) PROVE Fits(r)'
  <2>1. on'[r] = sock /\ (sock # None => sock # fresh /\ wire[sock] # "unused")
    BY <1>10, NoneAssumption DEF IQReread, Unlocked, AnswersInv, UsedSockets, Inv, TypeOK
  <2>2. UNCHANGED <<waiters, chan>>
    BY <1>10 DEF IQReread, answers
  <2>3. pc[r] = "reread" /\ (pc'[r] = "done" \/ (pc'[r] = "register" /\ sock # None))
    BY <1>10 DEF IQReread, At, Inv, TypeOK
  <2>4. QED
    BY <1>1, <1>2, <2>1, <2>2, <2>3 DEF Fits, Holds, Out
<1>11. Fits(r)'
  BY <1>4, <1>5, <1>7, <1>8, <1>9, <1>10 DEF RequestStep
<1>12. TypeOK'
  BY RequestInv DEF Inv
<1>13. Handlers'
  BY <1>1, <1>2 DEF Handlers
<1>14. QED
  BY <1>3, <1>11, <1>12, <1>13, FitAnswers

\* The steps of a frame handler: the waiter it takes is nobody else's, and what it does
\* with the answer concerns that one only.
LEMMA AnswersFrame ==
  ASSUME Inv, AnswersInv, NEW s \in Sockets, FrameStep(s)
  PROVE  AnswersInv'
<1>1. UNCHANGED <<sock, wire, fresh, pc, on>>
  BY DEF FrameStep, receiveResponse, Deliver, Answer, Rest, request, connection, attempt
<1>2. Handlers /\ \A q \in Requests : Fits(q)
  BY AnswersFit
<1>3. TypeOK'
  BY FrameInv DEF Inv
<1>4. \A q : q \in InHand <=> \E t \in taken : reply[t] = q
  BY DEF InHand
<1>5. \A q : q \in InHand' <=> \E t \in taken' : reply'[t] = q
  BY DEF InHand
<1>6. ASSUME NEW r \in Requests, Answer(s, r) PROVE AnswersInv'
  <2>1. UNCHANGED <<taken, dropped, waiters, chan>> /\ reply[s] = None
    BY <1>6 DEF Answer, answers
  <2>2. reply' = [reply EXCEPT ![s] = r] /\ wire[s] = "open" /\ on[r] = s
    BY <1>6 DEF Answer
  <2>3. s \notin taken /\ \A t \in taken : reply'[t] = reply[t]
    BY <2>1, <2>2 DEF Inv, TypeOK
  <2>4. InHand' = InHand
    BY <2>1, <2>3 DEF InHand
  <2>5. \A q \in Requests : Fits(q)'
    BY <1>1, <1>2, <2>1, <2>4 DEF Fits, Holds
  <2>6. Handlers'
    <3>1. s # fresh
      BY <1>2, <2>2, NoneAssumption DEF Fits, Inv, TypeOK
    <3>2. QED
      BY <1>1, <1>2, <2>1, <2>2, <2>3, <3>1 DEF Handlers, Inv, TypeOK
  <2>7. QED
    BY <1>3, <2>5, <2>6, FitAnswers
<1>7. ASSUME receiveResponse(s) PROVE AnswersInv'
  <2>1. UNCHANGED <<dropped, chan>> /\ reply[s] # None /\ s \notin taken
    BY <1>7 DEF receiveResponse
  <2>2. CASE /\ reply[s] \in waiters /\ waiters' = waiters \ {reply[s]}
             /\ taken' = taken \cup {s} /\ UNCHANGED reply
    <3>1. \A q : q \in InHand' <=> q \in InHand \/ q = reply[s]
      BY <1>4, <1>5, <2>2
    <3>2. reply[s] \notin InHand /\ chan[reply[s]] = "empty" /\ reply[s] \notin dropped
      BY <1>2, <2>2 DEF Fits, Inv, TypeOK
    <3>3. \A q \in Requests \ {reply[s]} : Fits(q)'
      BY <1>1, <1>2, <2>1, <2>2, <3>1 DEF Fits, Holds
    <3>4. ASSUME NEW r \in Requests, r = reply[s] PROVE Fits(r)'
      BY <1>1, <1>2, <2>1, <2>2, <3>1, <3>2, <3>4 DEF Fits, Holds
    <3>5. Handlers'
      BY <1>1, <1>2, <1>4, <2>2, <3>2 DEF Handlers
    <3>6. QED
      BY <1>3, <3>3, <3>4, <3>5, FitAnswers
  <2>3. CASE /\ reply[s] \notin waiters /\ reply' = [reply EXCEPT ![s] = None]
             /\ UNCHANGED <<waiters, taken>>
    <3>1. \A t \in taken : reply'[t] = reply[t]
      BY <2>1, <2>3 DEF Inv, TypeOK
    <3>2. InHand' = InHand
      BY <2>3, <3>1 DEF InHand
    <3>3. \A q \in Requests : Fits(q)'
      BY <1>1, <1>2, <2>1, <2>3, <3>2 DEF Fits, Holds
    <3>4. Handlers'
      BY <1>1, <1>2, <2>3, <3>1 DEF Handlers, Inv, TypeOK
    <3>5. QED
      BY <1>3, <3>3, <3>4, FitAnswers
  <2>4. QED
    BY <1>7, <2>2, <2>3 DEF receiveResponse
<1>8. ASSUME Deliver(s) PROVE AnswersInv'
  <2>1. /\ s \in taken /\ taken' = taken \ {s} /\ UNCHANGED waiters
        /\ reply' = [reply EXCEPT ![s] = None]
    BY <1>8 DEF Deliver
  <2>2. reply[s] \in Requests /\ \A t \in taken' : reply'[t] = reply[t] /\ reply[t] # reply[s]
    BY <1>2, <2>1, NoneAssumption DEF Handlers, Inv, TypeOK
  <2>3. \A q : q \in InHand' <=> q \in InHand /\ q # reply[s]
    BY <1>4, <1>5, <2>1, <2>2
  <2>4. reply[s] \in InHand /\ reply[s] \notin waiters /\ reply[s] \notin dropped
    BY <1>2, <1>4, <2>1, <2>2 DEF Fits
  <2>5. /\ \A q \in Requests \ {reply[s]} : chan'[q] = chan[q] /\ (q \in dropped' <=> q \in dropped)
        /\ \/ chan'[reply[s]] = "answer" /\ reply[s] \notin dropped'
           \/ chan[reply[s]] = "closed" /\ chan' = chan /\ reply[s] \notin dropped'
           \/ reply[s] \in dropped' /\ chan' = chan
    BY <1>8, <2>2, <2>4 DEF Deliver, Inv, TypeOK
  <2>6. \A q \in Requests \ {reply[s]} : Fits(q)'
    BY <1>1, <1>2, <2>1, <2>3, <2>5 DEF Fits, Holds
  <2>7. ASSUME NEW r \in Requests, r = reply[s] PROVE Fits(r)'
    BY <1>1, <1>2, <2>1, <2>3, <2>4, <2>5, <2>7 DEF Fits, Holds
  <2>8. Handlers'
    BY <1>1, <1>2, <2>1, <2>2 DEF Handlers, Inv, TypeOK
  <2>9. QED
    BY <1>3, <2>6, <2>7, <2>8, FitAnswers
<1>9. QED
  BY <1>6, <1>7, <1>8 DEF FrameStep

LEMMA AnswersNext == Inv /\ AnswersInv /\ [Next]_vars => AnswersInv'
<1> SUFFICES ASSUME Inv, AnswersInv, [Next]_vars PROVE AnswersInv'
  OBVIOUS
<1>1. CASE Connect \/ AutoConnect \/ LoginConnect
  BY <1>1, AnswersDial DEF Connect, AutoConnect, LoginConnect
<1>2. CASE DialFails \/ HandshakeFails \/ Install \/ (\E s \in Sockets : Dial(s))
  BY <1>2, AnswersDial
<1>3. CASE \/ Disconnect \/ ResetConnection \/ AutoSleep \/ LoginDisconnect \/ PairConfirm
           \/ PairRefused
  BY <1>3, AnswersClient
<1>4. CASE \E s \in Sockets :
             \/ onDisconnect(s) \/ KeepAliveFails(s) \/ KeepAliveDisconnect(s)
             \/ KeepAliveReset(s) \/ RemoteClose(s) \/ (\E n \in Nodes : ServerSends(s, n))
             \/ QueueDropped(s) \/ handleConnectSuccess(s) \/ handleConnectFailure(s)
             \/ handleStreamError(s) \/ handlePair(s)
  BY <1>4, AnswersClient
<1>5. CASE \E r \in Requests : RequestStep(r)
  BY <1>5, AnswersRequest
<1>6. CASE \E s \in Sockets : FrameStep(s)
  BY <1>6, AnswersFrame
<1>7. CASE UNCHANGED vars
  BY <1>7, AnswersStay DEF vars, connection, attempt
<1>8. QED
  BY <1>1, <1>2, <1>3, <1>4, <1>5, <1>6, <1>7 DEF Next, ClientStep

-----------------------------------------------------------------------------
(***************************************************************************)
(* The websocket that is being dialled                                     *)
(***************************************************************************)

\* A step that sets no handler and dials nothing.
LEMMA FreshKept ==
  ASSUME Inv, FreshIsNew, hook' \subseteq hook, fresh' \in {fresh, None},
         \A s \in Sockets : wire[s] # "unused" => wire'[s] # "unused",
         fresh' # None => closing'[fresh] = closing[fresh]
  PROVE  FreshIsNew'
BY DEF FreshIsNew, Inv, TypeOK

LEMMA FreshDropped ==
  ASSUME Inv, FreshIsNew, unlockedDisconnect, UNCHANGED <<closing, fresh>>
  PROVE  FreshIsNew'
<1>1. hook' \subseteq hook /\ \A s \in Sockets : wire[s] # "unused" => wire'[s] # "unused"
  <2>1. CASE sock = None
    BY <2>1 DEF unlockedDisconnect
  <2>2. CASE sock # None
    BY <2>2 DEF unlockedDisconnect, Inv, TypeOK
  <2>3. QED
    BY <2>1, <2>2
<1>2. QED
  BY <1>1, FreshKept

LEMMA FreshBegin ==
  ASSUME Inv, FreshIsNew, NEW who, NEW jobs, Begin(who, jobs)
  PROVE  FreshIsNew'
<1>1. CASE UNCHANGED <<connection, attempt>>
  BY <1>1 DEF FreshIsNew, connection, attempt
<1>2. CASE unlockedDisconnect /\ UNCHANGED <<closing, fresh>>
  BY <1>2, FreshDropped
<1>3. QED
  BY <1>1, <1>2 DEF Begin

LEMMA FreshNext == Inv /\ AnswersInv /\ FreshIsNew /\ [Next]_vars => FreshIsNew'
<1> SUFFICES ASSUME Inv, AnswersInv, FreshIsNew, [Next]_vars PROVE FreshIsNew'
  OBVIOUS
<1>1. CASE Connect \/ AutoConnect \/ LoginConnect
  BY <1>1, FreshBegin DEF Connect, AutoConnect, LoginConnect
<1>2. CASE \/ Disconnect \/ LoginDisconnect \/ PairRefused
           \/ \E s \in Sockets : KeepAliveDisconnect(s)
  BY <1>2, FreshDropped DEF Disconnect, LoginDisconnect, PairRefused, KeepAliveDisconnect,
    disconnect, attempt
<1>3. CASE PairConfirm
  <2>1. CASE UNCHANGED <<wire, hook>>
    BY <1>3, <2>1 DEF PairConfirm, FreshIsNew, attempt
  <2>2. CASE disconnect
    BY <1>3, <2>2, FreshDropped DEF PairConfirm, disconnect, attempt
  <2>3. QED
    BY <1>3, <2>1, <2>2 DEF PairConfirm
<1>4. CASE DialFails
  BY <1>4 DEF DialFails, FreshIsNew, connection
<1>5. CASE HandshakeFails
  BY <1>5, FreshKept DEF HandshakeFails, Inv, TypeOK
<1>6. CASE Install
  BY <1>6, NoneAssumption DEF Install, FreshIsNew, AnswersInv, UsedSockets, Inv, TypeOK
<1>7. CASE \E s \in Sockets : Dial(s)
  <2>1. PICK s \in Sockets : Dial(s)
    BY <1>7
  <2>2. s \notin hook /\ closing[s] = "no"
    BY <2>1 DEF Dial, FreshIsNew, Inv, TypeOK, ClosingIsClosed
  <2>3. QED
    BY <2>1, <2>2 DEF Dial, FreshIsNew, Inv, TypeOK
<1>8. CASE ResetConnection
  <2>1. hook' = hook /\ fresh' = None
    BY <1>8 DEF ResetConnection, Inv, TypeOK, attempt
  <2>2. \A s \in Sockets : wire[s] # "unused" => wire'[s] # "unused"
    BY <1>8 DEF ResetConnection, Inv, TypeOK
  <2>3. QED
    BY <2>1, <2>2, FreshKept
<1>9. CASE \E s \in Sockets : onDisconnect(s)
  BY <1>9 DEF onDisconnect, FreshIsNew, Inv, TypeOK, attempt
<1>10. CASE \E s \in Sockets : RemoteClose(s)
  <2>1. PICK s \in Sockets : RemoteClose(s)
    BY <1>10
  <2>2. /\ hook' = hook /\ fresh' = fresh
        /\ \A t \in Sockets : wire[t] # "unused" => wire'[t] # "unused"
    BY <2>1 DEF RemoteClose, Inv, TypeOK, attempt
  <2>3. fresh # None => closing'[fresh] = closing[fresh]
    BY <2>1 DEF RemoteClose, FreshIsNew, Inv, TypeOK
  <2>4. QED
    BY <2>2, <2>3, FreshKept
<1>11. CASE \/ AutoSleep
            \/ \E s \in Sockets :
                 \/ KeepAliveFails(s) \/ KeepAliveReset(s) \/ (\E n \in Nodes : ServerSends(s, n))
                 \/ QueueDropped(s) \/ handleConnectSuccess(s) \/ handleConnectFailure(s)
                 \/ handleStreamError(s) \/ handlePair(s)
  BY <1>11 DEF AutoSleep, KeepAliveFails, KeepAliveReset, ServerSends, QueueDropped,
    handleConnectSuccess, handleConnectFailure, handleStreamError, handlePair, FreshIsNew,
    connection, attempt
<1>12. CASE \E r \in Requests : RequestStep(r)
  BY <1>12 DEF RequestStep, IQRegister, IQRead, IQSend, IQSent, IQResult, IQTimeout, IQRetry,
    IQReread, Mine, Rest, FreshIsNew, connection, attempt
<1>13. CASE \E s \in Sockets : FrameStep(s)
  BY <1>13 DEF FrameStep, receiveResponse, Deliver, Answer, Rest, FreshIsNew, connection, attempt
<1>14. CASE UNCHANGED vars
  BY <1>14 DEF vars, FreshIsNew, connection, attempt
<1>15. QED
  BY <1>1, <1>2, <1>3, <1>4, <1>5, <1>6, <1>7, <1>8, <1>9, <1>10, <1>11, <1>12, <1>13, <1>14
    DEF Next, ClientStep

-----------------------------------------------------------------------------
(***************************************************************************)
(* Who reconnects                                                          *)
(***************************************************************************)

LEMMA ReconnectsInit == Init => ReconnectsInv
BY DEF Init, ReconnectsInv, HookIsSet, LocalIsForced, SomeoneReconnects

\* A step that touches none of what decides who reconnects.
LEMMA ReconnectsStay ==
  ASSUME ReconnectsInv,
         UNCHANGED <<connection, dialer, flags, store, running, keep, gaveUp>>
  PROVE  ReconnectsInv'
BY DEF ReconnectsInv, HookIsSet, LocalIsForced, Pending, SomeoneReconnects, Connected, Orphan,
  Reconnecting, Unlocked, connection, flags

\* Nobody needs to reconnect a client that expects its disconnect or has no device.
LEMMA ReconnectsExcused ==
  ASSUME expected' = TRUE \/ store' # "paired" \/ ~EnableAutoReconnect, HookIsSet'
  PROVE  ReconnectsInv'
BY DEF ReconnectsInv, LocalIsForced, SomeoneReconnects

\* The goroutines of Pending outlast whatever only adds some.
LEMMA PendingStays ==
  ASSUME TypeOK, Pending, \A j \in Jobs : running'[j] >= running[j], running' \in [Jobs -> Nat],
         \A s \in Sockets : keep[s] = "reset" => keep'[s] = "reset"
  PROVE  Pending'
<1>1. CASE \E s \in Sockets : keep[s] = "reset"
  BY <1>1 DEF Pending
<1>2. CASE \E j \in {"sleep", "wake", "login", "relogin", "refuse"} : running[j] > 0
  <2>1. PICK j \in {"sleep", "wake", "login", "relogin", "refuse"} : running[j] > 0
    BY <1>2
  <2>2. j \in Jobs /\ running[j] \in Nat /\ running'[j] \in Nat /\ running'[j] >= running[j]
    BY <2>1 DEF Jobs, TypeOK
  <2>3. running'[j] > 0
    BY <2>1, <2>2
  <2>4. QED
    BY <2>1, <2>3 DEF Pending
<1>3. QED
  BY <1>1, <1>2 DEF Pending

\* A goroutine that sleeps before it reconnects is pending.
LEMMA AutoPending ==
  ASSUME TypeOK, EnableAutoReconnect, store = "paired", running' = autoReconnect(running)
  PROVE  Pending'
<1>1. running'["sleep"] = running["sleep"] + 1 /\ running["sleep"] \in Nat
  BY DEF autoReconnect, TypeOK, Jobs
<1>2. QED
  BY <1>1 DEF Pending

\* Every way into unlockedConnect.  Only a goroutine that finds a connection leaves
\* without a successor.
LEMMA ReconnectsBegin ==
  ASSUME Inv, ReconnectsInv, NEW who \in Dialers, NEW jobs, Begin(who, jobs)
  PROVE  ReconnectsInv'
<1>1. CASE store = "deleted" /\ UNCHANGED connection
  <2>1. HookIsSet'
    BY <1>1 DEF ReconnectsInv, HookIsSet, connection
  <2>2. store' # "paired"
    BY <1>1 DEF Begin
  <2>3. QED
    BY <2>1, <2>2, ReconnectsExcused
<1>2. CASE Connected /\ UNCHANGED connection
  <2>1. Connected' /\ wire'[sock'] = "open"
    BY <1>2 DEF Connected, connection
  <2>2. HookIsSet'
    BY <1>2 DEF ReconnectsInv, HookIsSet, connection
  <2>3. closing[sock] = "no"
    BY <1>2 DEF Connected, Inv, TypeOK, ClosingIsClosed
  <2>4. QED
    BY <1>2, <2>1, <2>2, <2>3 DEF ReconnectsInv, LocalIsForced, SomeoneReconnects, connection
<1>3. CASE unlockedDisconnect /\ dialer' = who
  <2>1. sock' = None
    BY <1>3, DisconnectTypes
  <2>2. ~Unlocked'
    BY <1>3 DEF Unlocked, Dialers
  <2>3. QED
    BY <2>1, <2>2 DEF ReconnectsInv, HookIsSet, LocalIsForced, SomeoneReconnects, Reconnecting
<1>4. QED
  BY <1>1, <1>2, <1>3 DEF Begin

\* The end of an attempt that failed: autoReconnect sleeps again, unless the
\* disconnect is expected; the others give up.
LEMMA ReconnectsFailed ==
  ASSUME Inv, ReconnectsInv, Failed(dialer, running), sock' = None, UNCHANGED flags
  PROVE  ReconnectsInv'
<1>1. HookIsSet' /\ LocalIsForced'
  BY DEF HookIsSet, LocalIsForced
<1>2. CASE expected \/ gaveUp'
  BY <1>1, <1>2 DEF ReconnectsInv, SomeoneReconnects, flags
<1>3. CASE ~expected /\ ~gaveUp'
  <2>1. running' = [running EXCEPT !["sleep"] = @ + 1]
    BY <1>3 DEF Failed
  <2>2. running'["sleep"] > 0
    BY <2>1 DEF Inv, TypeOK, Jobs
  <2>3. QED
    BY <1>1, <2>2 DEF ReconnectsInv, SomeoneReconnects, Reconnecting
<1>4. QED
  BY <1>2, <1>3

\* The rest of unlockedConnect.
LEMMA ReconnectsDial ==
  ASSUME Inv, AnswersInv, FreshIsNew, ReconnectsInv,
         DialFails \/ HandshakeFails \/ Install \/ (\E s \in Sockets : Dial(s))
  PROVE  ReconnectsInv'
<1>1. ASSUME DialFails \/ HandshakeFails PROVE ReconnectsInv'
  <2>1. Failed(dialer, running) /\ sock' = None /\ UNCHANGED flags
    BY <1>1 DEF DialFails, HandshakeFails, connection, Inv, TypeOK
  <2>2. QED
    BY <2>1, ReconnectsFailed
<1>2. ASSUME Install PROVE ReconnectsInv'
  <2>1. sock' = fresh /\ fresh \in Sockets /\ fresh \in hook' /\ UNCHANGED <<wire, closing>>
    BY <1>2 DEF Install, Inv, TypeOK
  <2>2. HookIsSet'
    BY <2>1 DEF HookIsSet
  <2>3. CASE wire[fresh] = "open"
    BY <2>1, <2>2, <2>3, NoneAssumption DEF ReconnectsInv, LocalIsForced, SomeoneReconnects,
      Connected, Inv, ClosingIsClosed
  <2>4. CASE wire[fresh] # "open"
    <3>1. wire[fresh] = "closed" /\ closing[fresh] = "no" /\ fresh # None
      BY <1>2, <2>1, <2>4 DEF Install, Inv, TypeOK, AnswersInv, UsedSockets, FreshIsNew
    <3>2. QED
      BY <2>1, <2>2, <3>1 DEF ReconnectsInv, LocalIsForced, SomeoneReconnects, Orphan
  <2>5. QED
    BY <2>3, <2>4
<1>3. ASSUME NEW s \in Sockets, Dial(s) PROVE ReconnectsInv'
  <2>1. sock' = None /\ ~Unlocked'
    BY <1>3 DEF Dial, Inv, TypeOK, Unlocked
  <2>2. QED
    BY <2>1 DEF ReconnectsInv, HookIsSet, LocalIsForced, SomeoneReconnects, Reconnecting
<1>4. QED
  BY <1>1, <1>2, <1>3

\* A step that keeps the socket and its flags, and leaves somebody pending if
\* somebody was.
LEMMA ReconnectsKept ==
  ASSUME ReconnectsInv, UNCHANGED <<connection, dialer, flags, store, gaveUp>>, Pending => Pending'
  PROVE  ReconnectsInv'
<1>1. HookIsSet' /\ LocalIsForced'
  BY DEF ReconnectsInv, HookIsSet, LocalIsForced, connection, flags
<1>2. Reconnecting => Reconnecting'
  BY DEF Reconnecting, Pending, Unlocked, connection
<1>3. SomeoneReconnects'
  BY <1>2 DEF ReconnectsInv, SomeoneReconnects, Connected, Orphan, connection, flags
<1>4. QED
  BY <1>1, <1>3 DEF ReconnectsInv

LEMMA ReconnectsDropped ==
  ASSUME Inv, disconnect
  PROVE  ReconnectsInv'
<1>1. sock' = None
  BY DisconnectTypes DEF disconnect
<1>2. expected' = TRUE
  BY DEF disconnect, expectDisconnect
<1>3. QED
  BY <1>1, <1>2, ReconnectsExcused DEF HookIsSet

\* ResetConnection: either onDisconnect will be called, or it was before.
LEMMA ReconnectsReset ==
  ASSUME Inv, AnswersInv, ReconnectsInv, ResetConnection
  PROVE  ReconnectsInv'
<1>1. UNCHANGED <<sock, hook, keep, dialer, expected, store, running, gaveUp>> /\ force' = TRUE
  BY DEF ResetConnection, attempt
<1>2. LocalIsForced'
  BY <1>1 DEF LocalIsForced
<1>3. CASE sock = None
  BY <1>1, <1>2, <1>3 DEF ReconnectsInv, HookIsSet, SomeoneReconnects, Connected, Orphan,
    Reconnecting, Unlocked
<1>4. CASE sock # None
  <2>1. /\ wire'[sock] = "closed"
        /\ closing'[sock] = IF Connected THEN "local" ELSE closing[sock]
    BY <1>4 DEF ResetConnection, Inv, TypeOK
  <2>2. HookIsSet'
    BY <1>1, <2>1 DEF HookIsSet
  <2>3. CASE Connected
    BY <1>1, <1>2, <1>4, <2>1, <2>2, <2>3 DEF ReconnectsInv, SomeoneReconnects, Reconnecting
  <2>4. CASE ~Connected
    <3>1. wire[sock] = "closed"
      BY <1>4, <2>4 DEF Connected, Inv, TypeOK, AnswersInv, UsedSockets
    <3>2. QED
      BY <1>1, <1>2, <2>1, <2>2, <2>4, <3>1 DEF ReconnectsInv, SomeoneReconnects, Connected,
        Orphan, Reconnecting, Unlocked
  <2>5. QED
    BY <2>3, <2>4
<1>5. QED
  BY <1>3, <1>4

\* onDisconnect starts autoReconnect, or somebody else will, or the disconnect was
\* expected.
LEMMA ReconnectsOnDisconnect ==
  ASSUME Inv, ReconnectsInv, NEW s \in Sockets, onDisconnect(s)
  PROVE  ReconnectsInv'
<1>1. UNCHANGED <<wire, keep, dialer, expected, store, gaveUp>>
  BY DEF onDisconnect, attempt
<1>2. CASE sock # s
  <2>1. UNCHANGED <<sock, running, force>>
    BY <1>2 DEF onDisconnect
  <2>2. sock # None => closing'[sock] = closing[sock] /\ (sock \in hook => sock \in hook')
    BY <1>2 DEF onDisconnect, Inv, TypeOK
  <2>3. QED
    BY <1>1, <2>1, <2>2 DEF ReconnectsInv, HookIsSet, LocalIsForced, Pending, SomeoneReconnects,
      Connected, Orphan, Reconnecting, Unlocked
<1>3. CASE sock = s
  <2>1. sock' = None
    BY <1>3 DEF onDisconnect
  <2>2. HookIsSet' /\ LocalIsForced'
    BY <2>1 DEF HookIsSet, LocalIsForced
  <2>3. CASE expected \/ store # "paired" \/ ~EnableAutoReconnect
    BY <1>1, <2>2, <2>3 DEF ReconnectsInv, SomeoneReconnects
  <2>4. CASE ~expected /\ store = "paired" /\ EnableAutoReconnect
    <3>1. CASE NeedsReconnect(s)
      <4>1. running' = autoReconnect(running)
        BY <1>3, <3>1 DEF onDisconnect
      <4>2. Pending'
        BY <2>4, <4>1, AutoPending DEF Inv
      <4>3. QED
        BY <2>2, <4>2 DEF ReconnectsInv, SomeoneReconnects, Reconnecting, Pending
    <3>2. CASE ~NeedsReconnect(s)
      <4>1. closing[s] = "local" /\ ~force /\ running' = running
        BY <1>3, <2>4, <3>2 DEF onDisconnect, NeedsReconnect, Inv, TypeOK
      <4>2. Pending
        BY <1>3, <2>4, <4>1, NoneAssumption DEF ReconnectsInv, LocalIsForced
      <4>3. QED
        BY <1>1, <2>2, <4>1, <4>2 DEF ReconnectsInv, SomeoneReconnects, Reconnecting, Pending
    <3>3. QED
      BY <3>1, <3>2
  <2>5. QED
    BY <2>3, <2>4
<1>4. QED
  BY <1>2, <1>3

\* A websocket the server closes calls its handler back, if it is the client's.
LEMMA ReconnectsRemoteClose ==
  ASSUME Inv, ReconnectsInv, NEW s \in Sockets, RemoteClose(s)
  PROVE  ReconnectsInv'
<1>1. UNCHANGED <<sock, hook, keep, dialer, flags, store, running, gaveUp>>
  BY DEF RemoteClose, attempt
<1>2. CASE sock = s
  <2>1. wire'[sock] = "closed" /\ closing'[sock] = "remote"
    BY <1>2, NoneAssumption DEF RemoteClose, ReconnectsInv, HookIsSet, Inv, TypeOK
  <2>2. QED
    BY <1>1, <1>2, <2>1, NoneAssumption DEF ReconnectsInv, HookIsSet, LocalIsForced,
      SomeoneReconnects, Reconnecting
<1>3. CASE sock # s
  <2>1. sock # None => wire'[sock] = wire[sock] /\ closing'[sock] = closing[sock]
    BY <1>3 DEF RemoteClose, Inv, TypeOK
  <2>2. QED
    BY <1>1, <2>1 DEF ReconnectsInv, HookIsSet, LocalIsForced, Pending, SomeoneReconnects,
      Connected, Orphan, Reconnecting, Unlocked, flags
<1>4. QED
  BY <1>2, <1>3

\* autoReconnect's delay, the keepalive loop and the confirmation of a pairing.
LEMMA ReconnectsJobs ==
  ASSUME Inv, ReconnectsInv
  PROVE  /\ AutoSleep \/ PairConfirm => ReconnectsInv'
         /\ \A s \in Sockets :
              KeepAliveFails(s) \/ KeepAliveDisconnect(s) \/ KeepAliveReset(s) => ReconnectsInv'
<1>1. ASSUME AutoSleep PROVE ReconnectsInv'
  <2>1. UNCHANGED <<connection, dialer, flags, store, keep, gaveUp>>
    BY <1>1 DEF AutoSleep, attempt
  <2>2. CASE running' = Move("sleep", "wake")
    <3>1. running'["wake"] = running["wake"] + 1 /\ running["wake"] \in Nat
      BY <2>2 DEF Move, Inv, TypeOK, Jobs
    <3>2. Pending'
      BY <3>1 DEF Pending
    <3>3. QED
      BY <2>1, <3>2, ReconnectsKept
  <2>3. CASE expected
    <3>1. expected' = TRUE
      BY <2>1, <2>3 DEF flags, Inv, TypeOK
    <3>2. HookIsSet'
      BY <2>1 DEF ReconnectsInv, HookIsSet, connection
    <3>3. QED
      BY <3>1, <3>2, ReconnectsExcused
  <2>4. QED
    BY <1>1, <2>2, <2>3 DEF AutoSleep
<1>2. ASSUME PairConfirm PROVE ReconnectsInv'
  <2>1. CASE UNCHANGED <<sock, wire, hook, flags, store>>
    <3>1. \A j \in {"sleep", "wake", "login", "relogin", "refuse"} : running'[j] = running[j]
      BY <1>2 DEF PairConfirm, Leave, Inv, TypeOK, Jobs
    <3>2. Pending => Pending'
      BY <1>2, <3>1 DEF Pending, PairConfirm
    <3>3. QED
      BY <1>2, <2>1, <3>2, ReconnectsKept DEF PairConfirm, connection, attempt
  <2>2. CASE disconnect
    BY <2>2, ReconnectsDropped
  <2>3. QED
    BY <1>2, <2>1, <2>2 DEF PairConfirm
<1>3. ASSUME NEW s \in Sockets, KeepAliveFails(s) PROVE ReconnectsInv'
  <2>1. UNCHANGED <<connection, dialer, flags, store, running, gaveUp>>
    BY <1>3 DEF KeepAliveFails, attempt
  <2>2. \A t \in Sockets : keep[t] = "reset" => keep'[t] = "reset"
    BY <1>3 DEF KeepAliveFails, Inv, TypeOK
  <2>3. Pending => Pending'
    BY <2>1, <2>2 DEF Pending
  <2>4. QED
    BY <2>1, <2>3, ReconnectsKept
<1>4. ASSUME NEW s \in Sockets, KeepAliveDisconnect(s) PROVE ReconnectsInv'
  BY <1>4, ReconnectsDropped DEF KeepAliveDisconnect
<1>5. ASSUME NEW s \in Sockets, KeepAliveReset(s) PROVE ReconnectsInv'
  <2>1. HookIsSet'
    BY <1>5 DEF KeepAliveReset, ReconnectsInv, HookIsSet, connection
  <2>2. store' = store /\ running' = autoReconnect(running)
    BY <1>5 DEF KeepAliveReset
  <2>3. CASE EnableAutoReconnect /\ store = "paired"
    <3>1. Pending'
      BY <2>2, <2>3, AutoPending DEF Inv
    <3>2. QED
      BY <2>1, <3>1 DEF ReconnectsInv, LocalIsForced, SomeoneReconnects, Reconnecting, Pending
  <2>4. CASE ~(EnableAutoReconnect /\ store = "paired")
    BY <2>1, <2>2, <2>4, ReconnectsExcused
  <2>5. QED
    BY <2>3, <2>4
<1>6. QED
  BY <1>1, <1>2, <1>3, <1>4, <1>5

\* The node handlers: one that deletes the device or refuses the login expects the
\* disconnect, the others leave it to onDisconnect and to the goroutine of a 515.
LEMMA ReconnectsHandler ==
  ASSUME Inv, ReconnectsInv, NEW s \in Sockets,
         \/ handleConnectSuccess(s) \/ handleConnectFailure(s) \/ handleStreamError(s)
         \/ handlePair(s)
  PROVE  ReconnectsInv'
<1>1. UNCHANGED <<connection, dialer, keep, gaveUp>>
  BY DEF handleConnectSuccess, handleConnectFailure, handleStreamError, handlePair, attempt
<1>2. HookIsSet'
  BY <1>1 DEF ReconnectsInv, HookIsSet, connection
<1>3. CASE expected' = TRUE
  BY <1>2, <1>3, ReconnectsExcused
<1>4. CASE running' = [running EXCEPT !["refuse"] = @ + 1]
  <2>1. running'["refuse"] > 0
    BY <1>4 DEF Inv, TypeOK, Jobs
  <2>2. QED
    BY <1>2, <2>1 DEF ReconnectsInv, LocalIsForced, Pending, SomeoneReconnects, Reconnecting
<1>5. CASE expected' # TRUE /\ running' # [running EXCEPT !["refuse"] = @ + 1]
  <2>1. UNCHANGED <<flags, store>>
    BY <1>5 DEF handleConnectSuccess, handleConnectFailure, handleStreamError, handlePair,
      expectDisconnect
  <2>2. running' = running \/ running' = [running EXCEPT !["login"] = @ + 1]
    BY <1>5 DEF handleConnectSuccess, handleConnectFailure, handleStreamError, handlePair,
      expectDisconnect
  <2>3. running' \in [Jobs -> Nat] /\ \A j \in Jobs : running'[j] >= running[j]
    BY <2>2 DEF Inv, TypeOK, Jobs
  <2>4. Pending => Pending'
    BY <1>1, <2>3, PendingStays DEF Inv
  <2>5. QED
    BY <1>1, <2>1, <2>4, ReconnectsKept
<1>6. QED
  BY <1>3, <1>4, <1>5

LEMMA ReconnectsNext ==
  Inv /\ AnswersInv /\ FreshIsNew /\ ReconnectsInv /\ [Next]_vars => ReconnectsInv'
<1> SUFFICES ASSUME Inv, AnswersInv, FreshIsNew, ReconnectsInv, [Next]_vars PROVE ReconnectsInv'
  OBVIOUS
<1>1. CASE Connect \/ AutoConnect \/ LoginConnect
  <2>1. \A jobs : \A who \in Dialers : Begin(who, jobs) => ReconnectsInv'
    BY ReconnectsBegin
  <2>2. QED
    BY <1>1, <2>1 DEF Connect, AutoConnect, LoginConnect, Dialers
<1>2. CASE DialFails \/ HandshakeFails \/ Install \/ (\E s \in Sockets : Dial(s))
  BY <1>2, ReconnectsDial
<1>3. CASE Disconnect \/ LoginDisconnect \/ PairRefused
  BY <1>3, ReconnectsDropped DEF Disconnect, LoginDisconnect, PairRefused
<1>4. CASE ResetConnection
  BY <1>4, ReconnectsReset
<1>5. CASE \E s \in Sockets : onDisconnect(s) \/ RemoteClose(s)
  BY <1>5, ReconnectsOnDisconnect, ReconnectsRemoteClose
<1>6. CASE \/ AutoSleep \/ PairConfirm
           \/ \E s \in Sockets : KeepAliveFails(s) \/ KeepAliveDisconnect(s) \/ KeepAliveReset(s)
  BY <1>6, ReconnectsJobs
<1>7. CASE \E s \in Sockets :
             \/ handleConnectSuccess(s) \/ handleConnectFailure(s) \/ handleStreamError(s)
             \/ handlePair(s)
  BY <1>7, ReconnectsHandler
<1>8. CASE \E s \in Sockets : (\E n \in Nodes : ServerSends(s, n)) \/ QueueDropped(s)
  BY <1>8, ReconnectsStay DEF ServerSends, QueueDropped, attempt
<1>9. CASE \E r \in Requests : RequestStep(r)
  BY <1>9, ReconnectsStay DEF RequestStep, IQRegister, IQRead, IQSend, IQSent, IQResult, IQTimeout,
    IQRetry, IQReread, Mine, Rest, attempt
<1>10. CASE \E s \in Sockets : FrameStep(s)
  BY <1>10, ReconnectsStay DEF FrameStep, receiveResponse, Deliver, Answer, Rest, attempt
<1>11. CASE UNCHANGED vars
  BY <1>11, ReconnectsStay DEF vars, attempt
<1>12. QED
  BY <1>1, <1>2, <1>3, <1>4, <1>5, <1>6, <1>7, <1>8, <1>9, <1>10, <1>11 DEF Next, ClientStep

-----------------------------------------------------------------------------
(***************************************************************************)
(* The theorems                                                            *)
(***************************************************************************)

\* Every variable keeps its type, and a client that dials has dropped the socket
\* it had before, for any number of websockets, requests, faults and calls.
THEOREM ConnectionTypes == Spec => []TypeOK
<1>1. Inv => TypeOK
  BY DEF Inv
<1>2. QED
  BY <1>1, InitInv, NextInv, PTL DEF Spec

\* Whatever the application, the keepalive loop, a 515 and autoReconnect do at the
\* same time, unlockedConnect and unlockedDisconnect never leave two websockets open.
THEOREM OneWebsocket == Spec => []OneConnection
<1>1. Inv => OneConnection
  <2> SUFFICES ASSUME Inv PROVE OneConnection
    OBVIOUS
  <2> DEFINE open == {s \in Sockets : wire[s] = "open"}
  <2>1. PICK held : open \subseteq {held}
    <3>1. CASE Unlocked
      BY <3>1, NoneAssumption DEF Inv, TypeOK, OpenIsHeld
    <3>2. CASE ~Unlocked
      BY <3>2, NoneAssumption DEF Inv, TypeOK, OpenIsHeld
    <3>3. QED
      BY <3>1, <3>2
  <2>2. IsFiniteSet({held}) /\ Cardinality({held}) = 1
    BY FS_Singleton
  <2>3. IsFiniteSet(open) /\ Cardinality(open) <= Cardinality({held})
    BY <2>1, <2>2, FS_Subset
  <2>4. QED
    BY <2>2, <2>3 DEF OneConnection
<1>2. QED
  BY <1>1, InitInv, NextInv, PTL DEF Spec

\* A request that waits with an empty channel is in responseWaiters and waits on the
\* socket the client still has, so that clearResponseWaiters reaches it when that
\* socket goes, or receiveResponse has its answer in hand, or dropped it because its
\* socket had closed: the only way to leave a request to its timeout.
THEOREM NoLostWaiter == Spec => []WaitsOnCurrent
<1>1. Init => Inv /\ AnswersInv
  BY InitInv, AnswersInit
<1>2. Inv /\ AnswersInv /\ [Next]_vars => (Inv /\ AnswersInv)'
  BY NextInv, AnswersNext
<1>3. AnswersInv => WaitsOnCurrent
  BY DEF AnswersInv
<1>4. QED
  BY <1>1, <1>2, <1>3, PTL DEF Spec

\* clearResponseWaiters never finds a full channel, two frame handlers never have one
\* waiter, and the send of receiveResponse after its unlock neither blocks nor meets a
\* channel that anybody but its own caller has written or closed.
THEOREM ChannelsHaveOneWriter == Spec => []OneWriter
<1>1. Init => Inv /\ AnswersInv
  BY InitInv, AnswersInit
<1>2. Inv /\ AnswersInv /\ [Next]_vars => (Inv /\ AnswersInv)'
  BY NextInv, AnswersNext
<1>3. AnswersInv => OneWriter
  BY DEF AnswersInv
<1>4. QED
  BY <1>1, <1>2, <1>3, PTL DEF Spec

\* A paired client that lost its connection without expecting it is always in the
\* hands of onDisconnect, autoReconnect, the keepalive loop, a 515 or a dialer, but
\* for the two ways out that SomeoneReconnects names.
THEOREM NeverAbandoned == Spec => []SomeoneReconnects
<1> DEFINE All == Inv /\ AnswersInv /\ FreshIsNew /\ ReconnectsInv
<1>1. Init => All
  BY InitInv, AnswersInit, ReconnectsInit DEF Init, FreshIsNew
<1>2. All /\ [Next]_vars => All'
  BY NextInv, AnswersNext, FreshNext, ReconnectsNext
<1>3. All => SomeoneReconnects
  BY DEF ReconnectsInv
<1>4. QED
  BY <1>1, <1>2, <1>3, PTL DEF Spec
=============================================================================
