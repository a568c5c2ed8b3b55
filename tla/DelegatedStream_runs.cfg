CONSTANTS
    r1 = r1
    r2 = r2
    None = None
    Runs = {r1, r2}
    Capacity = 1
    MaxCrashes = 2
    MaxFaults = 2
SPECIFICATION FairSpec
INVARIANTS TypeOK InterruptedIsOrphan LeaseCoversRun
PROPERTIES KeepsOutcome AbandonedRunsAreTold
CHECK_DEADLOCK FALSE
