CONSTANTS
    c1 = c1
    c2 = c2
    Lifespan = Lifespan
    None = None
    Calls = {c1, c2}
    MaxFaults = 0
    MaxChanges = 0
SPECIFICATION Spec
INVARIANTS ExitIsTrue
CHECK_DEADLOCK FALSE
