CONSTANTS
    q1 = q1
    q2 = q2
    None = None
    Questions = {q1, q2}
    Carded = {}
    PollLimit = 3
    MaxVisits = 0
    MaxRevisions = 1
    MaxFaults = 4
SPECIFICATION FairSpec
INVARIANTS ShownIsCurrent BusyIsOneTask AnswersAreTheirOwn
PROPERTIES NothingIsSentAfterStop InterruptedRunsAreShown
CHECK_DEADLOCK FALSE
