CONSTANTS
    None = None
    MaxJobs = 2
    MaxEvents = 1
SPECIFICATION FairSpec
INVARIANTS OneCommand CancelledCommandsEnd OneActiveRun DependenciesAreVerified
PROPERTIES AcceptedRunsAreWatched JobsEnd
CHECK_DEADLOCK FALSE
