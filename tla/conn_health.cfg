SPECIFICATION ConnectFairSpec
CONSTANTS
    Names <- OneName
    Words <- NoWords
    Numerals <- NoWords
    LeadingNumber <- NoWordsRead
    Pools <- OneOrNone
    MaxNodes = 1
    MaxReloads = 1
    Strategies = {"FAILOVER"}
    Latencies = {0}
    RRPeriod = 1
    FailCap = 2
    Callers = {t1}
    Sweepers = {s1}
    Free = Free
    Configs <- OneConfig
    Default <- Constructed
    Broken = Broken
    Targets = {"x"}
    Refusing = {}
    MaxFlips = 2
    Reused = {t1}
PROPERTY SweepEnds
PROPERTY HealthConverges
PROPERTY ConnectionEnds
