CONSTANTS
    None = None
    MaxJobs = 3
    MaxEvents = 1
SPECIFICATION Spec
INVARIANTS ResumedOnce
CHECK_DEADLOCK FALSE
