---------------------------- MODULE MCBulkQueue ----------------------------
(***************************************************************************)
(* Instances of BulkQueue for TLC.                                         *)
(***************************************************************************)
EXTENDS BulkQueue, TLC

CONSTANTS h1, h2, c1, c2

\* A file with one record, one with a record twice, and one with two records.
OneRecord == {<<c1>>}
RepeatedRecord == {<<c1, c1>>}
TwoRecords == {<<c1, c2>>}

HandlerSymmetry == Permutations(Handlers)

=============================================================================
