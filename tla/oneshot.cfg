SPECIFICATION OneShotSpec
CONSTANTS
    Numerals = {"1080", "1081"}
    Conns = {"c1", "c2"}
    Nodes <- MCNodes
    Requests <- MCRequests
    HeadLimit = 2
    ReadBlock = 4
    ProxyPort = "1081"
    Foreign <- MCForeign
    MaxRequests = 1
    Tools = {"t1"}
    Commands <- MCCommands
    MaxCommands = 2
PROPERTY CutShortChangesNothing
PROPERTY RequestEnds
PROPERTY CommandEnds
CHECK_DEADLOCK FALSE
