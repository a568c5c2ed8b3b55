CONSTANTS
    q1 = q1
    q2 = q2
    None = None
    Questions = {q1, q2}
    Carded = {}
    PollLimit = 3
    MaxVisits = 0
    MaxRevisions = 0
    MaxFaults = 1
SPECIFICATION FairButSignIn
PROPERTIES StopEndsWaiting
CHECK_DEADLOCK FALSE
