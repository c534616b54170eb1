\* A counterexample is expected.
\* The readers are finitely many, so the system stops.
SPECIFICATION ReadSpec
CONSTANTS
    Readers = {r1}
    Kinds = {"get"}
    MaxVersion = 0
    MaxSaves = 1
    MaxDeletes = 0
CHECK_DEADLOCK FALSE
INVARIANT
    ReadEditWriteLosesNothing
