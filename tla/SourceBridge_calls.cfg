CONSTANTS
    c1 = c1
    c2 = c2
    Lifespan = Lifespan
    None = None
    Calls = {c1, c2}
    MaxFaults = 1
    MaxChanges = 1
SPECIFICATION FairSpec
INVARIANTS PendingIsServed NoWorkerIsLeaked
PROPERTIES ConfigurationIsFollowed CallsEnd
CHECK_DEADLOCK FALSE
