-------------------------- MODULE ConditionalStore --------------------------
(***************************************************************************)
(* What wiki_update promises: one page, written by calls that each name    *)
(* the revision they read.  A call writes at most once, in one step, and   *)
(* only on top of the very revision it named; everybody else's writes also *)
(* move the page on by one version.                                        *)
(***************************************************************************)
EXTENDS Naturals

CONSTANT Calls

VARIABLES
    page,      \* the current revision, [version, rev]
    expected,  \* the revision each call names, none before it has read
    written    \* the revision each call wrote, none before it has

vars == <<page, expected, written>>

None     == [version |-> 0, rev |-> 0]
Revision == [version : Nat, rev : Nat]

\* A new revision of the page is one version on, and unlike any before.
Successor(r) == r.version = page.version + 1 /\ r.rev > page.rev

Init ==
    /\ page \in {None, [version |-> 1, rev |-> 1]}
    /\ expected = [c \in Calls |-> None]
    /\ written = [c \in Calls |-> None]

Read(c) ==
    /\ expected[c] = None
    /\ page # None
    /\ expected' = [expected EXCEPT ![c] = page]
    /\ UNCHANGED <<page, written>>

Write(c) ==
    /\ written[c] = None
    /\ expected[c] = page
    /\ page' \in Revision
    /\ Successor(page')
    /\ written' = [written EXCEPT ![c] = page']
    /\ UNCHANGED expected

OtherWrite ==
    /\ page' \in Revision
    /\ Successor(page')
    /\ UNCHANGED <<expected, written>>

Next == (\E c \in Calls : Read(c) \/ Write(c)) \/ OtherWrite

Spec == Init /\ [][Next]_vars

=============================================================================
