SPECIFICATION OneShotSpec
CONSTANTS
    Numerals = {"1080", "1081"}
    Conns = {"c1", "c2"}
    Nodes <- MCNodes
    Requests <- MCRequests
    HeadLimit = 2
    ReadBlock = 4
    ProxyPort = "1081"
    Foreign <- MCForeign
    MaxRequests = 0
    Tools = {"t1"}
    Commands <- MCCommands
    MaxCommands = 1
PROPERTY DaemonIsSeen
CHECK_DEADLOCK FALSE
