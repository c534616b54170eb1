CONSTANTS
    Callers = {c1, c2}
    Deployments <- MCDeployments
    DeclaredFiles <- MCDeclaredFiles
    Tools <- MCTools
    Tokens <- MCTokens
    Arguments <- MCArguments
    MaxEdits = 1
    MaxCached = 1
SYMMETRY Symmetry
SPECIFICATION Spec
INVARIANTS
    OnlyEntitledCallersEnter
    CallsUseOwnCredentials
    ClientsKeepTheirScope
    NamesAreFresh
    UncheckedOnlyAfterAnEdit
CHECK_DEADLOCK FALSE
