CONSTANTS
    r1 = r1
    r2 = r2
    r3 = r3
    b1 = b1
    b2 = b2
    s1 = s1
    s2 = s2
    None = None
    Runs = {r1, r2, r3}
    Bodies = {b1, b2}
    Sources = {s1, s2}
    Capacity = 1
    QueueLimit = 2
    MaxStops = 1
    MaxFaults = 1
SPECIFICATION FairSpec
INVARIANTS TypeOK AnswersTheRequest RestartFits
PROPERTIES SettledRunsRest AcceptedRunsSettle
CHECK_DEADLOCK FALSE
