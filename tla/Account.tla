------------------------------ MODULE Account ------------------------------
(***************************************************************************)
(* What a client promises to the program that uses it, without its         *)
(* goroutines, flags and sockets: a link that comes up only through a      *)
(* dial, a device whose deletion is final, and info queries that do not    *)
(* outlive the link they went out on, but for one whose answer had come    *)
(* and was still on its way to the caller when the link was lost.          *)
(* Connection is shown to implement this.                                  *)
(***************************************************************************)

CONSTANT Requests

VARIABLES
  link,    \* "down", "dialling", "up", or "lost": closed and not yet noticed
  device,  \* "new", "paired" or "deleted"
  query    \* where a query is, see Places

account == <<link, device, query>>

\* With its caller, out at the server, its answer on the way back over the link
\* that is up or over one that is gone, the answer lost with that one, or done, as one is that
\* nobody makes.
Places == {"own", "out", "back", "late", "lost", "done"}

Init ==
  /\ link = "down"
  /\ device \in {"new", "paired"}
  /\ query \in [Requests -> {"own", "done"}]

\* Every query that is out goes back to its caller, who may try once more.
Released == [r \in Requests |-> IF query[r] = "out" THEN "own" ELSE query[r]]

\* An answer that is on its way when the link goes is late.
Cut(q) == [r \in Requests |-> IF q[r] = "back" THEN "late" ELSE q[r]]

\* Nobody dials for a deleted device.
Dial ==
  /\ link \in {"down", "lost"} /\ device # "deleted"
  /\ link' = "dialling" /\ query' = Released
  /\ UNCHANGED device

\* A link that is lost when the dial ends may be taken for one that is up.
DialEnds ==
  /\ link = "dialling" /\ link' \in {"down", "up", "lost"}
  /\ UNCHANGED <<device, query>>

\* The other side closes the link, or a reset does, which releases the queries.
Lose ==
  /\ link = "up" /\ link' = "lost"
  /\ query' \in {Cut(query), Cut(Released)}
  /\ UNCHANGED device

\* The link is given up, in the worst case with the device.
Drop ==
  /\ link \in {"up", "lost"} /\ link' = "down"
  /\ query' = Cut(Released)
  /\ device' \in {device, "deleted"}

\* The server pairs the device.
Pair ==
  /\ device # "deleted" /\ device' = "paired"
  /\ UNCHANGED <<link, query>>

\* The device is deleted, or the stream failed: the link may last a little longer.
Expel ==
  /\ query' \in {query, Released}
  /\ device' \in {device, "deleted"}
  /\ UNCHANGED link

Moves(r, from, to) ==
  /\ query[r] \in from
  /\ \E place \in to : query' = [query EXCEPT ![r] = place]
  /\ UNCHANGED <<link, device>>

\* A query goes out on a link that is up.  When it is a retry, the answer to the
\* first attempt may have been faster.
Ask(r) == link = "up" /\ Moves(r, {"own"}, {"out", "back", "late", "lost"})

\* Its answer comes, over the link it is out on or over the one before.
Answer(r) ==
  \/ link = "up" /\ Moves(r, {"out"}, {"back", "late"})
  \/ link = "lost" /\ Moves(r, {"out"}, {"late"})

\* The answer reaches the caller; one that is late may not.
Return(r) == Moves(r, {"back", "late"}, {"own"}) \/ Moves(r, {"late"}, {"lost"})

\* Its caller has the answer, or an error, or waits no longer.
Finish(r) == Moves(r, Places \ {"done"}, {"done"})

Next ==
  \/ Dial \/ DialEnds \/ Lose \/ Drop \/ Pair \/ Expel
  \/ \E r \in Requests : Ask(r) \/ Answer(r) \/ Return(r) \/ Finish(r)

Spec == Init /\ [][Next]_account
=============================================================================
