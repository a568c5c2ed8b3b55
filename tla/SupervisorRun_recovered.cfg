CONSTANTS
    qa = qa
    rca = rca
    x1 = x1
    x2 = x2
    None = None
    Steps = 3
    Roles = {qa, rca}
    Reads = {x1, x2}
    MaxStops = 1
SPECIFICATION Spec
INVARIANTS InterruptedRunsRecover
CHECK_DEADLOCK FALSE
