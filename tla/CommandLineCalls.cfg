\* A call of any kind and a command of any kind, in both modes, while files,
\* folders, attachments and the ticket are changed by others.  Both end, so the
\* system stops.
SPECIFICATION CliSpec
CONSTANTS
    Callers = {"tool", "terminal"}
    Terminals = {"terminal"}
    Calls <- MCCalls
    Commands <- MCCommands
    Worlds <- MCWorlds
    Contents = {"small", "large"}
    Size <- MCSize
    Homes = {"small", "large", "blank", "void", "nowhere"}
    Nowhere = "nowhere"
    MaxComment = 1
    Tails <- MCTails
    Paths = {"/a/file", "a/file"}
    Absolute = {"/a/file"}
    Names = {"file", "other", "page"}
    Modes = {"local", "off"}
    MaxInline = 2
    MaxOthers = 1
CHECK_DEADLOCK FALSE
INVARIANTS
    FileAccessIsKept
    AnswersNameWhatIsStored
    ExitCodesAreTrue
