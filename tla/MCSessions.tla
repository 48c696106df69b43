----------------------------- MODULE MCSessions -----------------------------
(* Instances of Sessions for TLC. *)
EXTENDS Sessions, TLC

CONSTANTS h1, h2, d0, d1, t1

MCHandlers == {h1, h2}
MCDevices == {d0, d1}
MCTokens == {t1}

\* Requests are alike.
MCSymmetry == Permutations({h1, h2})
=============================================================================
