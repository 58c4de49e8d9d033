SPECIFICATION ProcessFairSpec
CONSTANTS
    ApiThreads = {h1}
    Ports <- OnePort
    Users <- AllUsers
    MaxRuns = 1
INVARIANT ProcessTypeOK
INVARIANT ServerRestored
INVARIANT QuitRestores
INVARIANT EnabledIsComplete
INVARIANT EndsCleanly
PROPERTY ProcessEnds
CHECK_DEADLOCK FALSE
