---------------------------- MODULE MCAppState -----------------------------
(***************************************************************************)
(* Instances of AppState for TLC.                                          *)
(***************************************************************************)
EXTENDS AppState, TLC

CONSTANTS f1, f2, s1, i1, i2

Mute(i) == [op |-> "set", index |-> i]
Unset(i) == [op |-> "remove", index |-> i]

\* One setting changed, and one removed and another changed under a newer key.
Simple == {[muts |-> <<Mute(i1)>>, key |-> 1, rkey |-> 1],
           [muts |-> <<Unset(i1), Mute(i2)>>, key |-> 2, rkey |-> 2]}
\* Two settings, the second under a newer key.
TwoKeys == {[muts |-> <<Mute(i1)>>, key |-> 1, rkey |-> 1],
            [muts |-> <<Mute(i2)>>, key |-> 2, rkey |-> 2]}
\* A patch with a repeated index, whose records have a newer key than the patch.
Odd == Simple \cup {[muts |-> <<Mute(i1), Mute(i1)>>, key |-> 1, rkey |-> 2]}

=============================================================================
