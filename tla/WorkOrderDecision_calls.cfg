CONSTANTS
    c1 = c1
    c2 = c2
    c3 = c3
    e1 = e1
    e2 = e2
    None = None
    Reject = Reject
    Calls = {c1, c2, c3}
    Edits = {e1, e2}
    MaxCrashes = 1
SPECIFICATION FairSpec
INVARIANTS OneCreation
PROPERTIES KeepsCard DecisionsAreAnswered
CHECK_DEADLOCK FALSE
