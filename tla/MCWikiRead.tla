----------------------------- MODULE MCWikiRead -----------------------------
(***************************************************************************)
(* WikiRead on small instances: the readers are interchangeable.           *)
(***************************************************************************)
EXTENDS WikiRead, TLC

Symmetry == Permutations(Readers)

=============================================================================
