\* Two readers of any kind, saves and a deletion by others, and the writes
\* the readers base on what they read.
\* The readers are finitely many, so the system stops.
SPECIFICATION ReadSpec
CONSTANTS
    Readers = {r1, r2}
    Kinds = {"get", "pull", "conventions"}
    MaxVersion = 2
    MaxSaves = 2
    MaxDeletes = 1
SYMMETRY Symmetry
CHECK_DEADLOCK FALSE
INVARIANTS
    PinnedReadsMatch
    PartsAreRecent
    PinnedEditsLoseNothing
