SPECIFICATION ConnectFairSpec
CONSTANTS
    Names <- MCNames
    Words <- NoWords
    Numerals <- NoWords
    LeadingNumber <- NoWordsRead
    Pools <- Swapping
    MaxNodes = 2
    MaxReloads = 1
    Strategies = {"FAILOVER"}
    Latencies = {0}
    RRPeriod = 2
    FailCap = 2
    Callers = {t1, t2}
    Sweepers = {}
    Free = Free
    Configs <- SwapConfigs
    Default <- Constructed
    Broken = Broken
    Targets = {"x"}
    Refusing = {}
    MaxFlips = 1
    Reused = {}
PROPERTY ConnectionEnds
