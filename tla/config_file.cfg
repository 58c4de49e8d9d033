SPECIFICATION ConfigSpec
CONSTANTS
    Numerals = {"1080", "1081"}
    Ports = {"1080", "1081"}
    Tools = {"tool"}
    Initial <- MCInitial
    Names <- MCNames
    TextOf <- ToText
    ConfigOf <- FromText
    Configs <- MCConfigs
    ReadBlock = 30
    WriteBlock = 20
    MayFail = TRUE
    MayCrash = TRUE
    Users = {"add-node", "set-port", "kill-switch"}
    MaxEdits = 2
INVARIANT WritesWhole
PROPERTY SavedOrDefault
PROPERTY LoadsWhatWasSaved
CHECK_DEADLOCK FALSE
