SPECIFICATION ConnectSpec
CONSTANTS
    Names <- MCNames
    Words <- NoWords
    Numerals <- NoWords
    LeadingNumber <- NoWordsRead
    Pools <- PairOrNone
    MaxNodes = 2
    MaxReloads = 1
    Strategies = {"FAILOVER"}
    Latencies = {0}
    RRPeriod = 2
    FailCap = 2
    Callers = {t1}
    Sweepers = {}
    Free = Free
    Configs <- ReloadConfigs
    Default <- Constructed
    Broken = Broken
    Targets = {"x"}
    Refusing = {}
    MaxFlips = 0
    Reused = {t1}
INVARIANT ConnTypeOK
INVARIANT FallbackIsConfigured
INVARIANT SettledRoute
INVARIANT RouteIsConfigured
PROPERTY PoolIsUsedAsSpecified
