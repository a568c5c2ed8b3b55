CONSTANTS
    r1 = r1
    r2 = r2
    None = None
    Runs = {r1}
    Capacity = 1
    MaxCrashes = 0
    MaxFaults = 0
SPECIFICATION FairSpec
PROPERTIES RunsEndRecorded
CHECK_DEADLOCK FALSE
