---------------------------- MODULE MCConnection ----------------------------
(* Instances of Connection for TLC. *)
EXTENDS Connection, TLC

CONSTANTS s1, s2, r1

MCSockets == {s1, s2}
MCRequests == {r1}

\* A request and one fault, or more faults and nobody who asks.
MCStarts == {[asks |-> {r1}, faults |-> 1], [asks |-> {}, faults |-> 3]}

\* Websockets are alike.
MCSymmetry == Permutations(MCSockets)
=============================================================================
