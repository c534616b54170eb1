\* Two searches while pages are edited, deleted and created again, each
\* revision in a second of its own.
\* The searches are finitely many, so the system stops.
SPECIFICATION Spec
CONSTANTS
    p1 = p1
    p2 = p2
    Pages = {p1, p2}
    Scopes <- TwoScopes
    Searches = {s1, s2}
    IndexMax = 1
    BatchPages = 1
    MaxSaves = 2
    PageDeletes = 1
    SameSecond = FALSE
    OneByOne = TRUE
CHECK_DEADLOCK FALSE
INVARIANTS
    FreshResults
    IndexesMatchCache
PROPERTY
    EverySearchEnds
