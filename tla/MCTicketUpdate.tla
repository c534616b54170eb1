--------------------------- MODULE MCTicketUpdate ---------------------------
(***************************************************************************)
(* TicketUpdate on small instances.  Two texts tell a twin comment from a  *)
(* different one; three ticks to the second let several changes share one. *)
(***************************************************************************)
EXTENDS TicketUpdate, TLC

CommentA == [text |-> "a", fields |-> "none"]
CommentB == [text |-> "b", fields |-> "changed"]
NoChange == [text |-> NoText, fields |-> "same"]
Edit     == [text |-> NoText, fields |-> "changed"]
Spaces   == [text |-> Blank, fields |-> "none"]

AllUpdates   == {CommentA, CommentB, NoChange, Edit, Spaces}
OneComment   == {CommentA}

By(author, text, threaded) ==
    [author |-> author, text |-> text, threaded |-> threaded]

AnyOther == {By(Me, "a", FALSE), By(Me, "b", FALSE), By(Me, "a", TRUE),
             By(Other, "a", FALSE), By(Other, NoText, FALSE)}
FewOther == {By(Me, "b", FALSE), By(Other, "a", FALSE)}

Symmetry == Permutations(Calls)

=============================================================================
