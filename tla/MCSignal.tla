------------------------------ MODULE MCSignal ------------------------------
(***************************************************************************)
(* Instances of Signal for TLC.                                            *)
(***************************************************************************)
EXTENDS Signal, TLC

CONSTANTS a, b

AllModes == [buffer : BOOLEAN, sync : BOOLEAN]

\* a writes in a session this device has lost, b starts one.
Scenario(sa, sb, n) == [session |-> [p \in Peers |-> IF p = a THEN sa ELSE sb], faults |-> n]
Scenarios ==
  {Scenario(Stale, Signed, 0), Scenario(Stale, Absent, 1), Scenario(Signed, Signed, 1),
   Scenario(Signed, Absent, 2)}

=============================================================================
