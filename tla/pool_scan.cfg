SPECIFICATION PoolSpec
CONSTANTS
    Names <- MCNames
    Words <- MCWords
    Numerals <- MCNumerals
    LeadingNumber <- MCLeadingNumber
    Pools <- Pair
    MaxNodes = 2
    MaxReloads = 0
    Strategies = {"FAILOVER", "BEST_LATENCY", "ROUND_ROBIN"}
    Latencies = {1, 2}
    RRPeriod = 2
    FailCap = 2
    Callers = {t1}
    Sweepers = {s1}
    Free = Free

INVARIANT ScanInv
PROPERTY PinHonoured
PROPERTY BestIsFastest
PROPERTY FailoverInOrder
PROPERTY RoundRobinTakesTurns
