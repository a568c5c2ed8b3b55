CONSTANTS
    r1 = r1
    r2 = r2
    b2 = b2
    b1 = b1
    s1 = s1
    s2 = s2
    d1 = d1
    d2 = d2
    None = None
    Uncovered = Uncovered
    Runs = {r1}
    Bodies = {b1, b2}
    Sources = {s1, s2}
    Drafts = {d1, d2}
    Window = 2
    Capacity = 1
    MaxTime = 3
    MaxCrashes = 1
    MaxFaults = 3
SPECIFICATION FairSpec
INVARIANTS ReceiptsAgree DecisionIsResumable
PROPERTIES WritesAreCovered StepsAreNotRepeated KeepsPromise Settles
CHECK_DEADLOCK FALSE
