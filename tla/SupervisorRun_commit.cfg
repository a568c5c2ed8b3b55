CONSTANTS
    qa = qa
    rca = rca
    x1 = x1
    x2 = x2
    None = None
    Steps = 3
    Roles = {qa, rca}
    Reads = {x1, x2}
    MaxStops = 2
SPECIFICATION Spec
INVARIANTS ProgressIsCheckpointed AnswersRestOnReceipts
PROPERTIES CompletedWorkIsNotRepeated ExecutesItsTask
CHECK_DEADLOCK FALSE
