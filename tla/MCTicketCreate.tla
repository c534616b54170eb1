--------------------------- MODULE MCTicketCreate ---------------------------
(***************************************************************************)
(* TicketCreate on small instances: the calls are interchangeable, and so  *)
(* are the summaries.                                                      *)
(***************************************************************************)
EXTENDS TicketCreate, TLC

Symmetry == Permutations(Calls) \cup Permutations(Summaries)

=============================================================================
