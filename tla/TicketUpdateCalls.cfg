\* Two overlapping updates of any content and a change by anybody else.
\* The calls are finitely many, so the system stops.
SPECIFICATION Spec
CONSTANTS
    Calls = {c1, c2}
    Texts = {"a", "b"}
    Updates <- AllUpdates
    OtherChanges <- AnyOther
    MaxOthers = 1
    Bases = {TRUE, FALSE}
    KnowsUser = TRUE
    TicksPerSecond = 3
SYMMETRY Symmetry
CHECK_DEADLOCK FALSE
INVARIANTS
    LockIsExact
    NotStoredWhenSaid
    ConflictNamesAll
    VerdictsAreTrue
