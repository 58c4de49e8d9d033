SPECIFICATION PoolSpec
CONSTANTS
    Names <- MCNames
    Words <- NoWords
    Numerals <- NoWords
    LeadingNumber <- NoWordsRead
    Pools <- Shrinking
    MaxNodes = 2
    MaxReloads = 1
    Strategies = {"FAILOVER"}
    Latencies = {0}
    RRPeriod = 2
    FailCap = 3
    Callers = {t1}
    Sweepers = {s1}
    Free = Free
INVARIANT TypeOK
INVARIANT OverrunBound
PROPERTY NoNeedlessFallback
