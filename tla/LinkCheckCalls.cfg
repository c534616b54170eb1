SPECIFICATION Spec
CONSTANTS
    Requests <- MCRequests
    Worlds <- MCWorlds
    Toggles <- MCToggles
    MaxChanges = 2
    Edits <- MCEdits
    Instances <- MCInstances
    Redirects <- MCRedirects
    OwnInstance = "own"
    OwnPrefix <- MCOwnPrefix
    Concurrency = 2
    InterTrac <- MCInterTrac
    LocalBases <- MCLocalBases
    AutoLinked <- MCAutoLinked
INVARIANTS
    DeadLinksAreTold
    OnlyDeadLinksBlock
    FindingsAreCounted
    ProbesKeepTheScope
    UncheckedIsSaid
CHECK_DEADLOCK FALSE
