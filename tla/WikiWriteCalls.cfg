\* Two overlapping calls of any writing tool, a save by another user,
\* deletions, and the plugin present, missing or deployed meanwhile.
\* The calls are finitely many, so the system stops.
SPECIFICATION Spec
CONSTANTS
    Calls = {c1, c2}
    Tools = {"update", "create", "push", "delete"}
    MaxWebSaves = 2
    WebDeletes = TRUE
    Deployments = {TRUE, FALSE}
SYMMETRY Symmetry
CHECK_DEADLOCK FALSE
INVARIANTS
    NothingStoredOnRefusal
    StoredWhenSaid
    ConditionalReplacedBase
    UnflaggedReplacedBase
    FlaggedOnlyOnContention
