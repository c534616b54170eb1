\* What a write through the plugin implements, and that every call ends.
\* The calls are finitely many, so the system stops.
SPECIFICATION Spec
CONSTANTS
    Calls = {c1, c2}
    Tools = {"update", "create", "push"}
    MaxWebSaves = 2
    WebDeletes = FALSE
    Deployments = {TRUE, FALSE}
CHECK_DEADLOCK FALSE
PROPERTIES
    IsConditionalStore
    EveryCallEnds
    DeployedPluginIsFound
