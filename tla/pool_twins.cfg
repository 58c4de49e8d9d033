SPECIFICATION PoolSpec
CONSTANTS
    Names <- MCNames
    Words <- MCWords
    Numerals <- MCNumerals
    LeadingNumber <- MCLeadingNumber
    Pools <- Twins
    MaxNodes = 2
    MaxReloads = 0
    Strategies = {"FAILOVER"}
    Latencies = {1}
    RRPeriod = 2
    FailCap = 3
    Callers = {t1}
    Sweepers = {s1}
    Free = Free
PROPERTY PinHonoured
PROPERTY ChargedNodeWasUsed
