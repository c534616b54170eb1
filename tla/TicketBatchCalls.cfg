\* Two batches whose three items, all of one ticket, share two slots, a
\* change of that ticket by anybody else, and calls that may be cancelled.
\* The batches are finitely many, so the system stops.
SPECIFICATION Spec
CONSTANTS
    b1 = b1
    b2 = b2
    Batches = {b1, b2}
    Items <- TwoAndOne
    Tickets = {t1}
    Kinds = {"create", "update", "delete"}
    MaxParallel = 2
    MaxOthers = 1
    Cancels = TRUE
CHECK_DEADLOCK FALSE
INVARIANTS
    SlotsAreConserved
    AnswersAreTrue
    UpdatesAreBasedApart
    CollisionsHaveWinners
PROPERTY
    EveryBatchIsAnswered
