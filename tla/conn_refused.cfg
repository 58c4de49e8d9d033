SPECIFICATION ConnectFairSpec
CONSTANTS
    Names <- MCNames
    Words <- NoWords
    Numerals <- NoWords
    LeadingNumber <- NoWordsRead
    Pools <- PairOrNone
    MaxNodes = 2
    MaxReloads = 0
    Strategies = {"FAILOVER"}
    Latencies = {0}
    RRPeriod = 2
    FailCap = 2
    Callers = {t1}
    Sweepers = {s1}
    Free = Free
    Configs <- PairConfig
    Default <- Constructed
    Broken = Broken
    Targets = {"x", "closed"}
    Refusing = {"closed"}
    MaxFlips = 0
    Reused = {t1}
INVARIANT ReachableIsOnline
PROPERTY FirstFailureFailsOver
PROPERTY ProbedIsOnline
