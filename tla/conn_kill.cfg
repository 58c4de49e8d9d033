SPECIFICATION ConnectSpec
CONSTANTS
    Names <- MCNames
    Words <- NoWords
    Numerals <- NoWords
    LeadingNumber <- NoWordsRead
    Pools <- OneOrNone
    MaxNodes = 1
    MaxReloads = 1
    Strategies = {"FAILOVER"}
    Latencies = {0}
    RRPeriod = 1
    FailCap = 2
    Callers = {t1}
    Sweepers = {}
    Free = Free
    Configs <- SwitchOn
    Default <- Constructed
    Broken = Broken
    Targets = {"x"}
    Refusing = {}
    MaxFlips = 0
    Reused = {t1}
INVARIANT KillSwitchStays
