----------------------------- MODULE MCSafeSend -----------------------------
(***************************************************************************)
(* Instances of SafeSend for TLC.                                          *)
(***************************************************************************)
EXTENDS SafeSend, TLC

CONSTANTS s1, s2, x1, x2, p1, p2

\* One Session shared by two senders, and one Session per process.
SharedSession == s1 :> x1 @@ s2 :> x1
OwnSession == s1 :> x1 @@ s2 :> x2
OneProcess == x1 :> p1
TwoProcesses == x1 :> p1 @@ x2 :> p2

IntervalRange == [def |-> 1, min |-> 1, max |-> 2]
HourRange == [def |-> 2, min |-> 1, max |-> 2]
DayRange == [def |-> 2, min |-> 1, max |-> 2]

=============================================================================
