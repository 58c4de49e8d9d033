SPECIFICATION PoolSpec
CONSTANTS
    Names <- MCNames
    Words <- NoWords
    Numerals <- NoWords
    LeadingNumber <- NoWordsRead
    Pools <- Pair
    MaxNodes = 2
    MaxReloads = 0
    Strategies = {"BEST_LATENCY"}
    Latencies = {1}
    RRPeriod = 2
    FailCap = 3
    Callers = {t1}
    Sweepers = {s1}
    Free = Free
INVARIANT OnlineBelowThreshold
INVARIANT OnlineHasLatency
PROPERTY BestIsMeasured
