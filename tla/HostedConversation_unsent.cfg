CONSTANTS
    q1 = q1
    q2 = q2
    None = None
    Questions = {q1, q2}
    Carded = {q1}
    PollLimit = 3
    MaxVisits = 0
    MaxRevisions = 0
    MaxFaults = 0
SPECIFICATION Spec
INVARIANTS BlockedCardsStayUnwritten
CHECK_DEADLOCK FALSE
