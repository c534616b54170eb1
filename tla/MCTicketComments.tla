---------------------------- MODULE MCTicketComments ---------------------------
(***************************************************************************)
(* Two tickets of the same number, one of which is read: a comment, one    *)
(* posted with a change of fields, and a comment elsewhere.                *)
(***************************************************************************)
EXTENDS TicketComments, TLC

CONSTANTS c1, c2
MCLog == [here  |-> <<ChangeSet(1, 1, FALSE, 0), ChangeSet(2, 3, TRUE, 0)>>,
          there |-> <<ChangeSet(1, 2, FALSE, 0)>>]
Symmetry == Permutations({c1, c2})
===============================================================================
