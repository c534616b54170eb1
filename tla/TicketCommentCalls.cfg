\* Two calls of any kind, on the ticket that was read or on another one, among
\* comments and deletions of others.  The calls are finitely many, so
\* the system stops.
SPECIFICATION Spec
CONSTANTS
    c1 = c1
    c2 = c2
    Callers = {c1, c2}
    Tickets = {"here", "there"}
    Read = {"here"}
    Log <- MCLog
    Start = 3
    MaxTime = 5
    MaxOthers = 2
SYMMETRY Symmetry
CHECK_DEADLOCK FALSE
INVARIANTS
    EditIsOfWhatWasRead
    AnswersAreTrue
