\* Two creates of the same or of different summaries, tickets created by
\* anybody, and a search that looks at fewer tickets than there may be.
\* The calls are finitely many, so the system stops.
SPECIFICATION CreateSpec
CONSTANTS
    Calls = {c1, c2}
    Summaries = {s1, s2}
    MaxOthers = 1
    MaxTime = 3
    Window = 1
    QueryMax = 2
    KnowsUser = TRUE
SYMMETRY Symmetry
CHECK_DEADLOCK FALSE
INVARIANTS
    TimeoutsAreSafe
    MissedOnlyIf
