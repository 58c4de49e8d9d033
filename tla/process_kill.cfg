SPECIFICATION RestartSpec
CONSTANTS
    ApiThreads = {h1}
    Ports <- TwoPorts
    Users <- LongList
    MaxRuns = 2
INVARIANT BypassListReturns
INVARIANT PointsAtListener
INVARIANT SavedIsTheUsers
CHECK_DEADLOCK FALSE
