--------------------------- MODULE AccountProofs ---------------------------
(***************************************************************************)
(* Connection implements Account, for any number of websockets, requests,  *)
(* faults and calls.                                                       *)
(***************************************************************************)
EXTENDS ConnectionProofs

\* A step of Account, or none.
Step == Abstract!Next \/ UNCHANGED <<Link, store, Query>>

-----------------------------------------------------------------------------
(***************************************************************************)
(* Lemmas about the mapping                                                *)
(***************************************************************************)

LEMMA LinkStays ==
  ASSUME UNCHANGED <<dialer, sock, wire>>
  PROVE  Link' = Link
BY DEF Link, Unlocked, Connected

\* The answer to a request is in hand on a socket that is open.
Back(r) == \E s \in taken : reply[s] = r /\ wire[s] = "open"

\* The place of a query, with that name.
LEMMA QueryIs ==
  /\ DOMAIN Query = Requests
  /\ \A r \in Requests :
       Query[r] = IF pc[r] = "done" THEN "done"
                  ELSE IF pc[r] \notin Out \/ chan[r] # "empty" THEN "own"
                  ELSE IF r \in waiters THEN "out"
                  ELSE IF r \in dropped THEN "lost"
                  ELSE IF Back(r) THEN "back" ELSE "late"
BY DEF Query, Back

LEMMA QueryIsNext ==
  /\ DOMAIN Query' = Requests
  /\ \A r \in Requests :
       Query'[r] = IF pc'[r] = "done" THEN "done"
                   ELSE IF pc'[r] \notin Out \/ chan'[r] # "empty" THEN "own"
                   ELSE IF r \in waiters' THEN "out"
                   ELSE IF r \in dropped' THEN "lost"
                   ELSE IF Back(r)' THEN "back" ELSE "late"
BY DEF Query, Back

\* Two functions on the requests with the same values.
LEMMA SameQuery ==
  ASSUME NEW f, NEW g, f = [r \in Requests |-> f[r]], g = [r \in Requests |-> g[r]],
         \A r \in Requests : f[r] = g[r]
  PROVE  f = g
OBVIOUS

\* A step that leaves the requests alone and, of the sockets whose handler has an
\* answer in hand, closes none.
LEMMA QueryStays ==
  ASSUME UNCHANGED <<pc, chan, waiters, reply, taken, dropped>>,
         \A s \in taken : wire'[s] = "open" <=> wire[s] = "open"
  PROVE  Query' = Query
<1>1. \A r : Back(r)' <=> Back(r)
  BY DEF Back
<1>2. \A r \in Requests : Query'[r] = Query[r]
  BY <1>1, QueryIs, QueryIsNext
<1>3. QED
  BY <1>2, SameQuery DEF Query

\* The handlers' answers are on the client's own socket, or late.
LEMMA InHandOnSocket ==
  ASSUME Inv, AnswersInv, NEW s \in taken, wire[s] = "open"
  PROVE  s = sock /\ Connected /\ Unlocked
<1>1. s \in Sockets /\ reply[s] # None
  BY DEF Inv, TypeOK
<1>2. s = sock
  BY <1>1 DEF AnswersInv, UsedSockets, Inv, OpenIsHeld
<1>3. QED
  BY <1>1, <1>2, NoneAssumption DEF Connected, Inv, TypeOK

\* A query that is out is in responseWaiters, so clearing them brings it back.
LEMMA QueryReleased ==
  ASSUME AnswersInv, NEW node \in {"end", "auth"}, clearResponseWaiters(node),
         UNCHANGED <<pc, reply, taken, dropped>>,
         \A s \in taken : wire'[s] = "open" <=> wire[s] = "open"
  PROVE  Query' = Abstract!Released
<1>1. \A r : Back(r)' <=> Back(r)
  BY DEF Back
<1>2. \A r \in Requests : Query'[r] = Abstract!Released[r]
  BY <1>1, QueryIs, QueryIsNext DEF clearResponseWaiters, Abstract!Released
<1>3. QED
  BY <1>2, SameQuery DEF Query, Abstract!Released

\* Closing every socket whose handler has an answer in hand makes that one late.
LEMMA QueryCut ==
  ASSUME UNCHANGED <<pc, chan, waiters, reply, taken, dropped>>,
         \A s \in taken : wire'[s] # "open"
  PROVE  Query' = Abstract!Cut(Query)
<1>1. \A r : ~Back(r)'
  BY DEF Back
<1>2. \A r \in Requests : Query'[r] = Abstract!Cut(Query)[r]
  BY <1>1, QueryIs, QueryIsNext DEF Abstract!Cut
<1>3. QED
  BY <1>2, SameQuery DEF Query, Abstract!Cut

\* Both at once, as when the client drops its socket.
LEMMA QueryDropped ==
  ASSUME AnswersInv, NEW node \in {"end", "auth"}, clearResponseWaiters(node),
         UNCHANGED <<pc, reply, taken, dropped>>,
         \A s \in taken : wire'[s] # "open"
  PROVE  Query' = Abstract!Cut(Abstract!Released)
<1>1. \A r : ~Back(r)'
  BY DEF Back
<1>2. \A r \in Requests : Query'[r] = Abstract!Cut(Abstract!Released)[r]
  BY <1>1, QueryIs, QueryIsNext DEF clearResponseWaiters, Abstract!Released, Abstract!Cut
<1>3. QED
  BY <1>2, SameQuery DEF Query, Abstract!Released, Abstract!Cut

\* No answer is on its way back while the client has no open socket, and no query is
\* out while it has none at all.
LEMMA NobodyBack ==
  ASSUME Inv, AnswersInv, ~Connected
  PROVE  /\ \A s \in taken : wire[s] # "open"
         /\ Abstract!Cut(Query) = Query
         /\ Abstract!Cut(Abstract!Released) = Abstract!Released
<1>1. \A s \in taken : wire[s] # "open"
  BY InHandOnSocket
<1>2. \A r \in Requests : ~Back(r)
  BY <1>1 DEF Back
<1>3. \A r \in Requests : Query[r] # "back"
  BY <1>2, QueryIs
<1>4. /\ \A r \in Requests : Abstract!Cut(Query)[r] = Query[r]
      /\ \A r \in Requests : Abstract!Cut(Abstract!Released)[r] = Abstract!Released[r]
  BY <1>3 DEF Abstract!Cut, Abstract!Released
<1>5. QED
  BY <1>1, <1>4, SameQuery DEF Query, Abstract!Released, Abstract!Cut

LEMMA NobodyOut ==
  ASSUME AnswersInv, sock = None
  PROVE  Abstract!Released = Query
<1>1. \A r \in Requests : Query[r] # "out"
  BY QueryIs DEF AnswersInv, WaitsOnCurrent, Registered, Settled, OneWriter
<1>2. \A r \in Requests : Abstract!Released[r] = Query[r]
  BY <1>1 DEF Abstract!Released
<1>3. QED
  BY <1>2, SameQuery DEF Query, Abstract!Released

\* unlockedDisconnect releases the queries, whether there was a socket or not, and
\* makes an answer late.
LEMMA DisconnectReleases ==
  ASSUME Inv, AnswersInv, unlockedDisconnect, UNCHANGED callers
  PROVE  /\ Query' = Abstract!Cut(Abstract!Released)
         /\ ~Connected => Query' = Abstract!Released
<1>1. UNCHANGED <<pc, reply, taken, dropped>>
  BY DEF callers, frames, request
<1>2. CASE sock = None
  <2>1. UNCHANGED <<wire, waiters, chan>>
    BY <1>2 DEF unlockedDisconnect, answers
  <2>2. Query' = Query
    BY <1>1, <2>1, QueryStays
  <2>3. QED
    BY <1>2, <2>2, NobodyOut, NobodyBack DEF Connected
<1>3. CASE sock # None
  <2>1. clearResponseWaiters("end") /\ wire' = [wire EXCEPT ![sock] = "closed"]
    BY <1>3 DEF unlockedDisconnect
  <2>2. \A s \in taken : wire'[s] # "open"
    BY <1>3, <2>1, InHandOnSocket DEF Inv, TypeOK
  <2>3. QED
    BY <1>1, <2>1, <2>2, QueryDropped, NobodyBack
<1>4. QED
  BY <1>2, <1>3

\* Disconnect, whoever calls it: the link is given up, if there was one.
LEMMA DisconnectStep ==
  ASSUME Inv, AnswersInv, disconnect, UNCHANGED <<attempt, callers>>, store' \in {store, "deleted"}
  PROVE  Step
<1>1. Query' = Abstract!Cut(Abstract!Released)
  BY DisconnectReleases DEF disconnect
<1>2. Unlocked /\ Unlocked' /\ sock' = None
  BY DisconnectTypes DEF disconnect, Unlocked, attempt
<1>3. Link' = "down"
  BY <1>2 DEF Link
<1>4. CASE sock = None
  <2>1. Link = "down" /\ Query' = Query
    BY <1>1, <1>2, <1>4, NobodyOut, NobodyBack DEF Link, Connected
  <2>2. QED
    BY <1>3, <2>1 DEF Step, Abstract!Next, Abstract!Expel
<1>5. CASE sock # None
  <2>1. Link \in {"up", "lost"}
    BY <1>2, <1>5 DEF Link
  <2>2. QED
    BY <1>1, <1>3, <2>1 DEF Step, Abstract!Next, Abstract!Drop
<1>6. QED
  BY <1>4, <1>5

-----------------------------------------------------------------------------
(***************************************************************************)
(* One lemma for each part of Next                                         *)
(***************************************************************************)

\* unlockedConnect: Account's Dial when it goes on, DialEnds when it is over.
LEMMA BeginStep ==
  ASSUME Inv, AnswersInv, NEW who \in Dialers, NEW jobs, Begin(who, jobs)
  PROVE  Step
<1>1. UNCHANGED <<store, callers>>
  BY DEF Begin
<1>2. CASE UNCHANGED <<connection, answers, attempt>>
  BY <1>1, <1>2, LinkStays, QueryStays DEF Step, connection, answers, attempt, callers, frames,
    request
<1>3. CASE store # "deleted" /\ ~Connected /\ unlockedDisconnect /\ dialer' = who
  <2>1. Query' = Abstract!Released
    BY <1>1, <1>3, DisconnectReleases
  <2>2. Link \in {"down", "lost"}
    BY <1>3 DEF Begin, Link
  <2>3. Link' = "dialling"
    BY <1>3 DEF Link, Unlocked, Dialers
  <2>4. QED
    BY <1>1, <1>3, <2>1, <2>2, <2>3 DEF Step, Abstract!Next, Abstract!Dial
<1>4. QED
  BY <1>2, <1>3 DEF Begin

LEMMA DialStep ==
  ASSUME Inv, AnswersInv,
         DialFails \/ HandshakeFails \/ Install \/ (\E s \in Sockets : Dial(s))
  PROVE  Step
<1>1. Link = "dialling" /\ UNCHANGED <<store, pc, chan, waiters, reply, taken, dropped>>
  BY DEF DialFails, HandshakeFails, Install, Dial, Link, answers, callers, frames, request
<1>2. Query' = Query
  <2>1. \A s \in taken : s \in Sockets /\ wire[s] # "unused" /\ s # fresh
    BY DEF AnswersInv, UsedSockets, Inv, TypeOK
  <2>2. \A s \in taken : wire'[s] = wire[s]
    BY <2>1 DEF DialFails, HandshakeFails, Install, Dial, connection, Inv, TypeOK
  <2>3. QED
    BY <1>1, <2>2, QueryStays
<1>3. CASE \E s \in Sockets : Dial(s)
  <2>1. Link' = "dialling"
    BY <1>3 DEF Dial, Link, Unlocked
  <2>2. QED
    BY <1>1, <1>2, <2>1 DEF Step
<1>4. CASE DialFails \/ HandshakeFails \/ Install
  <2>1. Unlocked'
    BY <1>4 DEF DialFails, HandshakeFails, Install, Unlocked
  <2>2. Link' \in {"down", "up", "lost"}
    BY <2>1 DEF Link
  <2>3. QED
    BY <1>1, <1>2, <2>2 DEF Step, Abstract!Next, Abstract!DialEnds
<1>5. QED
  BY <1>3, <1>4

\* ResetConnection closes the link and releases its queries.
LEMMA ResetStep ==
  ASSUME Inv, AnswersInv, ResetConnection
  PROVE  Step
<1>1. UNCHANGED <<store, pc, reply, taken, dropped, sock, dialer>> /\ Unlocked
  BY DEF ResetConnection, attempt, callers, frames, request
<1>2. CASE sock = None
  <2>1. UNCHANGED <<wire, chan, waiters>>
    BY <1>2 DEF ResetConnection, answers
  <2>2. QED
    BY <1>1, <2>1, LinkStays, QueryStays DEF Step
<1>3. CASE sock # None
  <2>1. clearResponseWaiters("end") /\ wire' = [wire EXCEPT ![sock] = "closed"]
    BY <1>3 DEF ResetConnection
  <2>2. \A s \in taken : wire'[s] # "open"
    BY <1>3, <2>1, InHandOnSocket DEF Inv, TypeOK
  <2>3. Query' = Abstract!Cut(Abstract!Released)
    BY <1>1, <2>1, <2>2, QueryDropped
  <2>4. Link' = "lost"
    BY <1>1, <1>3, <2>1 DEF Link, Unlocked, Connected, Inv, TypeOK
  <2>5. CASE Connected
    <3>1. Link = "up"
      BY <1>1, <1>3, <2>5 DEF Link
    <3>2. QED
      BY <1>1, <2>3, <2>4, <3>1 DEF Step, Abstract!Next, Abstract!Lose
  <2>6. CASE ~Connected
    <3>1. Link = "lost" /\ Query' = Abstract!Released
      BY <1>1, <1>3, <2>3, <2>6, NobodyBack DEF Link
    <3>2. QED
      BY <1>1, <2>4, <3>1 DEF Step, Abstract!Next, Abstract!Expel
  <2>7. QED
    BY <2>5, <2>6
<1>4. QED
  BY <1>2, <1>3

\* onDisconnect of the client's socket notices a link that was lost before.
LEMMA OnDisconnectStep ==
  ASSUME Inv, AnswersInv, NEW s \in Sockets, onDisconnect(s)
  PROVE  Step
<1>1. UNCHANGED <<store, pc, reply, taken, dropped, wire, dialer>> /\ Unlocked
  BY DEF onDisconnect, attempt, callers, frames, request
<1>2. CASE sock # s
  <2>1. UNCHANGED <<sock, chan, waiters>>
    BY <1>2 DEF onDisconnect, answers
  <2>2. QED
    BY <1>1, <2>1, LinkStays, QueryStays DEF Step
<1>3. CASE sock = s
  <2>1. sock' = None /\ clearResponseWaiters("end")
    BY <1>3 DEF onDisconnect
  <2>2. ~Connected
    BY <1>3 DEF onDisconnect, Connected, Inv, ClosingIsClosed
  <2>3. Query' = Abstract!Cut(Abstract!Released)
    BY <1>1, <2>1, <2>2, QueryReleased, NobodyBack
  <2>4. Link' = "down"
    BY <1>1, <2>1 DEF Link, Unlocked
  <2>5. Link \in {"up", "lost"}
    BY <1>1, <1>3, NoneAssumption DEF Link
  <2>6. QED
    BY <1>1, <2>3, <2>4, <2>5 DEF Step, Abstract!Next, Abstract!Drop
<1>4. QED
  BY <1>2, <1>3

\* The other side closes the client's websocket, which makes an answer late, or one
\* that the client does not have (yet).
LEMMA RemoteCloseStep ==
  ASSUME Inv, AnswersInv, NEW s \in Sockets, RemoteClose(s)
  PROVE  Step
<1>1. UNCHANGED <<store, pc, chan, waiters, reply, taken, dropped, sock, dialer>>
  BY DEF RemoteClose, attempt, answers, callers, frames, request
<1>2. wire' = [wire EXCEPT ![s] = "closed"] /\ wire[s] = "open"
  BY DEF RemoteClose
<1>3. CASE sock = s
  <2>1. Unlocked /\ sock # None
    BY <1>3, NoneAssumption DEF Inv, TypeOK
  <2>2. Link = "up"
    BY <1>2, <1>3, <2>1 DEF Link, Connected
  <2>3. Link' = "lost"
    BY <1>1, <1>2, <1>3, <2>1 DEF Link, Unlocked, Connected, Inv, TypeOK
  <2>4. \A t \in taken : wire'[t] # "open"
    BY <1>2, <1>3, InHandOnSocket DEF Inv, TypeOK
  <2>5. Query' = Abstract!Cut(Query)
    BY <1>1, <2>4, QueryCut
  <2>6. QED
    BY <1>1, <2>2, <2>3, <2>5 DEF Step, Abstract!Next, Abstract!Lose
<1>4. CASE sock # s
  <2>1. sock # None => wire'[sock] = wire[sock]
    BY <1>2, <1>4 DEF Inv, TypeOK
  <2>2. Link' = Link
    BY <1>1, <2>1 DEF Link, Unlocked, Connected
  <2>3. \A t \in taken : wire'[t] = "open" <=> wire[t] = "open"
    BY <1>2, <1>4, InHandOnSocket DEF Inv, TypeOK
  <2>4. QED
    BY <1>1, <2>2, <2>3, QueryStays DEF Step
<1>5. QED
  BY <1>3, <1>4

\* The node handlers, and the confirmation of a pairing.
LEMMA HandlerStep ==
  ASSUME Inv, AnswersInv, NEW s \in Sockets,
         \/ handleConnectFailure(s) \/ handleStreamError(s) \/ handlePair(s) \/ PairConfirm
  PROVE  Step
<1>1. ASSUME handleConnectFailure(s) PROVE Step
  <2>1. Link' = Link /\ Query' = Query
    BY <1>1, LinkStays, QueryStays DEF handleConnectFailure, connection, attempt, answers, callers,
      frames, request
  <2>2. store' \in {store, "deleted"}
    BY <1>1 DEF handleConnectFailure
  <2>3. QED
    BY <2>1, <2>2 DEF Step, Abstract!Next, Abstract!Expel
<1>2. ASSUME handleStreamError(s) PROVE Step
  <2>1. clearResponseWaiters(Cause(queue[s])) /\ Cause(queue[s]) \in {"end", "auth"}
    BY <1>2 DEF handleStreamError, Cause
  <2>2. Link' = Link /\ UNCHANGED <<pc, reply, taken, dropped, wire>>
    BY <1>2, LinkStays DEF handleStreamError, connection, attempt, callers, frames, request
  <2>3. Query' = Abstract!Released
    BY <2>1, <2>2, QueryReleased
  <2>4. store' \in {store, "deleted"}
    BY <1>2 DEF handleStreamError
  <2>5. QED
    BY <2>2, <2>3, <2>4 DEF Step, Abstract!Next, Abstract!Expel
<1>3. ASSUME handlePair(s) PROVE Step
  <2>1. Link' = Link /\ Query' = Query
    BY <1>3, LinkStays, QueryStays DEF handlePair, connection, attempt, answers, callers, frames,
      request
  <2>2. store' \in {store, "deleted"} \/ (store # "deleted" /\ store' = "paired")
    BY <1>3 DEF handlePair
  <2>3. QED
    BY <2>1, <2>2 DEF Step, Abstract!Next, Abstract!Pair, Abstract!Expel
<1>4. ASSUME PairConfirm PROVE Step
  <2>1. UNCHANGED <<attempt, callers>>
    BY <1>4 DEF PairConfirm
  <2>2. CASE UNCHANGED <<sock, wire, answers, store>>
    BY <2>1, <2>2, LinkStays, QueryStays DEF Step, attempt, answers, callers, frames, request
  <2>3. CASE store' = "deleted" /\ disconnect
    BY <2>1, <2>3, DisconnectStep
  <2>4. QED
    BY <1>4, <2>2, <2>3 DEF PairConfirm
<1>5. QED
  BY <1>1, <1>2, <1>3, <1>4

\* A step that changes the place of one query.
LEMMA OneQuery ==
  ASSUME NEW r \in Requests, \A q \in Requests \ {r} : Query'[q] = Query[q]
  PROVE  Query' = [Query EXCEPT ![r] = Query'[r]]
<1>1. \A q \in Requests : Query'[q] = [Query EXCEPT ![r] = Query'[r]][q]
  BY DEF Query
<1>2. QED
  BY <1>1, SameQuery DEF Query

\* The steps of sendIQ.  A frame goes out on the client's own open websocket: the link
\* is up.
LEMMA RequestStepStep ==
  ASSUME Inv, AnswersInv, NEW r \in Requests, RequestStep(r)
  PROVE  Step
<1>1. Link' = Link /\ UNCHANGED store
  BY LinkStays DEF RequestStep, IQRegister, IQRead, IQSend, IQSent, IQResult, IQTimeout, IQRetry,
    IQReread, Mine, Rest, connection, attempt
<1>2. /\ UNCHANGED <<sock, wire, fresh, reply, taken, dropped>>
      /\ \A q \in Requests \ {r} : pc'[q] = pc[q] /\ chan'[q] = chan[q]
      /\ \A q \in Requests \ {r} : (q \in waiters' <=> q \in waiters)
  BY RequestKeeps
<1>3. \A q : Back(q)' <=> Back(q)
  BY <1>2 DEF Back
<1>4. Query' = [Query EXCEPT ![r] = Query'[r]]
  <2>1. \A q \in Requests \ {r} : Query'[q] = Query[q]
    BY <1>2, <1>3, QueryIs, QueryIsNext
  <2>2. QED
    BY <2>1, OneQuery
<1>5. pc[r] # "done"
  BY DEF RequestStep, IQRegister, IQRead, IQSend, IQSent, IQResult, IQTimeout, IQRetry, IQReread, At
<1>6. Query[r] \in Abstract!Places \ {"done"} /\ Query'[r] \in Abstract!Places
  BY <1>5, QueryIs, QueryIsNext DEF Abstract!Places
<1>7. CASE Query'[r] = Query[r]
  BY <1>1, <1>4, <1>7 DEF Step, Query
<1>8. CASE Query'[r] = "done"
  BY <1>1, <1>4, <1>6, <1>8 DEF Step, Abstract!Next, Abstract!Finish, Abstract!Moves
<1>9. CASE Query[r] # "own" /\ Query'[r] # "done"
  <2>1. pc[r] \in Out /\ chan[r] = "empty" /\ pc'[r] # "done"
    BY <1>5, <1>9, QueryIs, QueryIsNext
  <2>2. pc'[r] \in Out /\ UNCHANGED <<chan, waiters>>
    BY <2>1 DEF RequestStep, IQRegister, IQRead, IQSend, IQSent, IQResult, IQTimeout, IQRetry,
      IQReread, At, Out, answers, Inv, TypeOK
  <2>3. Query'[r] = Query[r]
    BY <1>2, <1>3, <1>5, <2>1, <2>2, QueryIs, QueryIsNext
  <2>4. QED
    BY <1>7, <2>3
<1>10. CASE Query[r] = "own" /\ Query'[r] \notin {"own", "done"}
  <2>1. pc'[r] \in Out /\ chan'[r] = "empty" /\ ~(pc[r] \in Out /\ chan[r] = "empty")
    BY <1>5, <1>10, QueryIs, QueryIsNext
  <2>2. IQSend(r) /\ wire[on[r]] = "open"
    BY <2>1 DEF RequestStep, IQRegister, IQRead, IQSend, IQSent, IQResult, IQTimeout,
      IQRetry, IQReread, At, Out, answers, Inv, TypeOK
  <2>3. on[r] = sock /\ sock \in Sockets
    BY <2>2, NoneAssumption DEF IQSend, At, AnswersInv, UsedSockets, Registered, Inv, TypeOK,
      OpenIsHeld
  <2>4. Link = "up"
    BY <2>2, <2>3, NoneAssumption DEF Link, Connected, Inv, TypeOK
  <2>5. Query'[r] \in {"out", "back", "late", "lost"}
    BY <1>6, <1>10 DEF Abstract!Places
  <2>6. QED
    BY <1>1, <1>4, <1>10, <2>4, <2>5 DEF Step, Abstract!Next, Abstract!Ask, Abstract!Moves
<1>11. QED
  BY <1>7, <1>8, <1>9, <1>10

\* The steps of a frame handler: an answer comes, reaches its caller, or is dropped
\* with a socket that is closed.
LEMMA FrameStepStep ==
  ASSUME Inv, AnswersInv, NEW s \in Sockets, FrameStep(s)
  PROVE  Step
<1>1. UNCHANGED <<pc, on, wire, store>> /\ Link' = Link
  BY LinkStays DEF FrameStep, receiveResponse, Deliver, Answer, Rest, request, connection, attempt
<1>2. Handlers /\ \A q \in Requests : Fits(q)
  BY AnswersFit
<1>3. \A q : q \in InHand <=> \E t \in taken : reply[t] = q
  BY DEF InHand
<1>4. ASSUME NEW r \in Requests, Answer(s, r) PROVE Step
  <2>1. UNCHANGED <<chan, waiters, taken, dropped>> /\ \A t \in taken : reply'[t] = reply[t]
    BY <1>4 DEF Answer, answers, Inv, TypeOK
  <2>2. \A q : Back(q)' <=> Back(q)
    BY <1>1, <2>1 DEF Back
  <2>3. \A q \in Requests : Query'[q] = Query[q]
    BY <1>1, <2>1, <2>2, QueryIs, QueryIsNext
  <2>4. Query' = Query
    BY <2>3, SameQuery DEF Query
  <2>5. QED
    BY <1>1, <2>4 DEF Step
<1>5. ASSUME receiveResponse(s) PROVE Step
  <2>1. UNCHANGED <<dropped, chan>> /\ reply[s] # None /\ s \notin taken
    BY <1>5 DEF receiveResponse
  <2>2. CASE /\ reply[s] \in waiters /\ waiters' = waiters \ {reply[s]}
             /\ taken' = taken \cup {s} /\ UNCHANGED reply
    <3>1. PICK r \in Requests : r = reply[s]
      BY <2>2 DEF Inv, TypeOK
    <3>2. \A q \in Requests \ {r} : Back(q)' <=> Back(q)
      BY <1>1, <2>2, <3>1 DEF Back
    <3>3. \A q \in Requests \ {r} : Query'[q] = Query[q]
      BY <1>1, <2>1, <2>2, <3>1, <3>2, QueryIs, QueryIsNext
    <3>4. Query' = [Query EXCEPT ![r] = Query'[r]]
      BY <3>3, OneQuery
    <3>5. r \notin dropped /\ r \notin InHand /\ chan[r] = "empty"
      BY <1>2, <2>2, <3>1 DEF Fits
    <3>6. Back(r)' <=> wire[s] = "open"
      BY <1>1, <1>3, <2>2, <3>1, <3>5 DEF Back
    <3>7. CASE pc[r] \notin Out
      <4>1. Query'[r] = Query[r]
        BY <1>1, <3>7, QueryIs, QueryIsNext DEF Out
      <4>2. QED
        BY <1>1, <3>4, <4>1 DEF Step, Query
    <3>8. CASE pc[r] \in Out
      <4>1. /\ Query[r] = "out"
            /\ Query'[r] = IF wire[s] = "open" THEN "back" ELSE "late"
        BY <1>1, <2>1, <2>2, <3>1, <3>5, <3>6, <3>8, QueryIs, QueryIsNext DEF Out
      <4>2. on[r] = sock /\ sock # None
        BY <1>2, <3>5, <3>8 DEF Fits
      <4>3. Link \in {"up", "lost"}
        BY <4>2 DEF Link, Inv, TypeOK
      <4>4. CASE wire[s] = "open"
        <5>1. s = sock
          BY <1>2, <2>1, <4>4 DEF Handlers, Inv, OpenIsHeld
        <5>2. Link = "up"
          BY <4>2, <4>4, <5>1 DEF Link, Connected, Inv, TypeOK
        <5>3. QED
          BY <1>1, <3>4, <4>1, <4>4, <5>2 DEF Step, Abstract!Next, Abstract!Answer, Abstract!Moves
      <4>5. CASE wire[s] # "open"
        BY <1>1, <3>4, <4>1, <4>3, <4>5 DEF Step, Abstract!Next, Abstract!Answer, Abstract!Moves
      <4>6. QED
        BY <4>4, <4>5
    <3>9. QED
      BY <3>7, <3>8
  <2>3. CASE /\ reply[s] \notin waiters /\ reply' = [reply EXCEPT ![s] = None]
             /\ UNCHANGED <<waiters, taken>>
    <3>1. \A t \in taken : reply'[t] = reply[t]
      BY <2>1, <2>3 DEF Inv, TypeOK
    <3>2. \A q : Back(q)' <=> Back(q)
      BY <1>1, <2>3, <3>1 DEF Back
    <3>3. \A q \in Requests : Query'[q] = Query[q]
      BY <1>1, <2>1, <2>3, <3>2, QueryIs, QueryIsNext
    <3>4. Query' = Query
      BY <3>3, SameQuery DEF Query
    <3>5. QED
      BY <1>1, <3>4 DEF Step
  <2>4. QED
    BY <1>5, <2>2, <2>3 DEF receiveResponse
<1>6. ASSUME Deliver(s) PROVE Step
  <2>1. /\ s \in taken /\ taken' = taken \ {s} /\ UNCHANGED waiters
        /\ reply' = [reply EXCEPT ![s] = None]
    BY <1>6 DEF Deliver
  <2>2. PICK r \in Requests : r = reply[s]
    BY <2>1 DEF Inv, TypeOK
  <2>3. \A t \in taken' : t \in taken /\ reply'[t] = reply[t] /\ reply[t] # r
    BY <1>2, <2>1, <2>2 DEF Handlers, Inv, TypeOK
  <2>4. \A q \in Requests \ {r} : Back(q)' <=> Back(q)
    BY <1>1, <2>1, <2>2, <2>3 DEF Back
  <2>5. r \in InHand /\ r \notin waiters /\ r \notin dropped
    BY <1>2, <1>3, <2>1, <2>2 DEF Fits
  <2>6. /\ \A q \in Requests \ {r} : chan'[q] = chan[q] /\ (q \in dropped' <=> q \in dropped)
        /\ \/ chan'[r] = "answer"
           \/ chan[r] = "closed" /\ chan' = chan
           \/ r \in dropped' /\ chan' = chan /\ wire[s] = "closed"
    BY <1>6, <2>2, <2>5 DEF Deliver, Inv, TypeOK
  <2>7. \A q \in Requests \ {r} : Query'[q] = Query[q]
    BY <1>1, <2>1, <2>4, <2>6, QueryIs, QueryIsNext
  <2>8. Query' = [Query EXCEPT ![r] = Query'[r]]
    BY <2>7, OneQuery
  <2>9. CASE pc[r] \notin Out \/ chan[r] # "empty"
    <3>1. pc[r] \notin Out
      BY <1>2, <2>5, <2>9 DEF Fits, Out
    <3>2. Query'[r] = Query[r]
      BY <1>1, <3>1, QueryIs, QueryIsNext
    <3>3. QED
      BY <1>1, <2>8, <3>2 DEF Step, Query
  <2>10. CASE pc[r] \in Out /\ chan[r] = "empty"
    <3>1. Query[r] = IF Back(r) THEN "back" ELSE "late"
      BY <2>5, <2>10, QueryIs DEF Out
    <3>2. CASE chan'[r] = "answer"
      <4>1. Query'[r] = "own"
        BY <1>1, <2>10, <3>2, QueryIsNext DEF Out
      <4>2. QED
        BY <1>1, <2>8, <3>1, <4>1 DEF Step, Abstract!Next, Abstract!Return, Abstract!Moves
    <3>3. CASE r \in dropped' /\ chan' = chan /\ wire[s] = "closed"
      <4>1. ~Back(r)
        BY <1>2, <2>1, <2>2, <3>3 DEF Back, Handlers
      <4>2. Query'[r] = "lost"
        BY <1>1, <2>1, <2>5, <2>10, <3>3, QueryIsNext DEF Out
      <4>3. QED
        BY <1>1, <2>8, <3>1, <4>1, <4>2 DEF Step, Abstract!Next, Abstract!Return, Abstract!Moves
    <3>4. QED
      BY <2>6, <2>10, <3>2, <3>3
  <2>11. QED
    BY <2>9, <2>10
<1>7. QED
  BY <1>4, <1>5, <1>6 DEF FrameStep

LEMMA NextStep == Inv /\ AnswersInv /\ [Next]_vars => Step
<1> SUFFICES ASSUME Inv, AnswersInv, [Next]_vars PROVE Step
  OBVIOUS
<1>1. CASE Connect \/ AutoConnect \/ LoginConnect
  <2>1. \A jobs : \A who \in Dialers : Begin(who, jobs) => Step
    BY BeginStep
  <2>2. QED
    BY <1>1, <2>1 DEF Connect, AutoConnect, LoginConnect, Dialers
<1>2. CASE DialFails \/ HandshakeFails \/ Install \/ (\E s \in Sockets : Dial(s))
  BY <1>2, DialStep
<1>3. CASE \/ Disconnect \/ LoginDisconnect \/ PairRefused
           \/ \E s \in Sockets : KeepAliveDisconnect(s)
  BY <1>3, DisconnectStep DEF Disconnect, LoginDisconnect, PairRefused, KeepAliveDisconnect
<1>4. CASE ResetConnection
  BY <1>4, ResetStep
<1>5. CASE \E s \in Sockets : onDisconnect(s) \/ RemoteClose(s)
  BY <1>5, OnDisconnectStep, RemoteCloseStep
<1>6. CASE \E s \in Sockets : handleConnectFailure(s) \/ handleStreamError(s) \/ handlePair(s)
  BY <1>6, HandlerStep
<1>7. CASE PairConfirm
  <2>1. CASE Sockets = {}
    <3>1. sock = None
      BY <2>1 DEF Inv, TypeOK
    <3>2. QED
      BY <1>7, DisconnectStep, LinkStays, QueryStays DEF PairConfirm, Step, attempt, answers,
        callers, frames, request
  <2>2. CASE Sockets # {}
    BY <1>7, <2>2, HandlerStep
  <2>3. QED
    BY <2>1, <2>2
<1>8. CASE \/ AutoSleep
           \/ \E s \in Sockets :
                \/ KeepAliveFails(s) \/ KeepAliveReset(s) \/ (\E n \in Nodes : ServerSends(s, n))
                \/ QueueDropped(s) \/ handleConnectSuccess(s)
  <2>1. UNCHANGED <<dialer, sock, wire, store, pc, chan, waiters, reply, taken, dropped>>
    BY <1>8 DEF AutoSleep, KeepAliveFails, KeepAliveReset, ServerSends, QueueDropped,
      handleConnectSuccess, connection, attempt, answers, callers, frames, request
  <2>2. QED
    BY <2>1, LinkStays, QueryStays DEF Step
<1>9. CASE \E r \in Requests : RequestStep(r)
  BY <1>9, RequestStepStep
<1>10. CASE \E s \in Sockets : FrameStep(s)
  BY <1>10, FrameStepStep
<1>11. CASE UNCHANGED vars
  BY <1>11, LinkStays, QueryStays DEF Step, vars, connection, attempt, answers, callers, frames,
    request
<1>12. QED
  BY <1>1, <1>2, <1>3, <1>4, <1>5, <1>6, <1>7, <1>8, <1>9, <1>10, <1>11 DEF Next, ClientStep

-----------------------------------------------------------------------------
\* The client implements Account: whatever the goroutines that share the socket and
\* its flags do, the program sees a link that comes up only through a dial, a deletion that
\* is final, and queries that go out on the link that is up and are back in their callers'
\* hands when it is given up, but for those whose answer was already on its way.
THEOREM Implements == Spec => ImplementsAccount
<1>1. Init => Inv /\ AnswersInv
  BY InitInv, AnswersInit
<1>2. Inv /\ AnswersInv /\ [Next]_vars => (Inv /\ AnswersInv)'
  BY NextInv, AnswersNext
<1>3. Init => Abstract!Init
  <2> SUFFICES ASSUME Init PROVE Abstract!Init
    OBVIOUS
  <2>1. Link = "down"
    BY DEF Init, Link, Unlocked
  <2>2. \A r \in Requests : pc[r] \in {"idle", "done"}
    BY DEF Init
  <2>3. Query \in [Requests -> {"own", "done"}]
    BY <2>2 DEF Query, Out
  <2>4. QED
    BY <2>1, <2>3 DEF Init, Abstract!Init
<1>4. Inv /\ AnswersInv /\ [Next]_vars => [Abstract!Next]_(Abstract!account)
  BY NextStep DEF Step, Abstract!account
<1>5. QED
  BY <1>1, <1>2, <1>3, <1>4, PTL DEF Spec, ImplementsAccount, Abstract!Spec
=============================================================================
