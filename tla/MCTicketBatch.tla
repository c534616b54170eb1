---------------------------- MODULE MCTicketBatch ----------------------------
(***************************************************************************)
(* TicketBatch on a small instance: a batch of two and a batch of one.     *)
(***************************************************************************)
EXTENDS TicketBatch, TLC

CONSTANTS b1, b2

TwoAndOne == {<<b1, 1>>, <<b1, 2>>, <<b2, 1>>}

=============================================================================
