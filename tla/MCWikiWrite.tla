----------------------------- MODULE MCWikiWrite -----------------------------
(***************************************************************************)
(* WikiWrite on small instances: the calls are interchangeable.            *)
(***************************************************************************)
EXTENDS WikiWrite, TLC

Symmetry == Permutations(Calls)

=============================================================================
