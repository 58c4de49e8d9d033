SPECIFICATION ProcessSpec
CONSTANTS
    ApiThreads = {h1}
    Ports <- OnePort
    Users <- OwnOnly
    MaxRuns = 1
INVARIANT RestoredOnExit
CHECK_DEADLOCK FALSE
