SPECIFICATION ConfigSpec
CONSTANTS
    Numerals = {"1080", "1081"}
    Ports = {"1080", "1081"}
    Tools = {"t1", "t2"}
    Initial <- MCSaved
    Names <- MCPlainNames
    TextOf <- ToText
    ConfigOf <- FromText
    Configs <- MCConfigs
    ReadBlock = 30
    WriteBlock = 20
    MayFail = FALSE
    MayCrash = FALSE
    Users = {"add-node", "kill-switch"}
    MaxEdits = 2
INVARIANT ConfigTypeOK
PROPERTY LoadsNeverMix
INVARIANT AddedStays
PROPERTY KillSwitchLoads
CHECK_DEADLOCK FALSE
