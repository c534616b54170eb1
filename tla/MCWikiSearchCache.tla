------------------------- MODULE MCWikiSearchCache -------------------------
(***************************************************************************)
(* WikiSearchCache on small instances: the searches are interchangeable,   *)
(* and one scope is the whole wiki and one a single page of it.            *)
(***************************************************************************)
EXTENDS WikiSearchCache, TLC

CONSTANTS p1, p2

TwoScopes == {{p1}, {p1, p2}}
OnePage   == {{p1}}

Symmetry == Permutations(Searches)

=============================================================================
