CONSTANTS
    q1 = q1
    q2 = q2
    None = None
    Questions = {q1, q2}
    Carded = {q1}
    PollLimit = 3
    MaxVisits = 1
    MaxRevisions = 1
    MaxFaults = 0
SPECIFICATION Spec
INVARIANTS DecidedOnce CardsAreTrue
CHECK_DEADLOCK FALSE
