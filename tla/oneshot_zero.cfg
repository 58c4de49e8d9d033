SPECIFICATION OneShotSpec
CONSTANTS
    Numerals = {"1080", "1081"}
    Conns = {"c1", "c2"}
    Nodes <- MCNodes
    Requests <- MCByHand
    HeadLimit = 2
    ReadBlock = 4
    ProxyPort = "1081"
    Foreign <- MCForeign
    MaxRequests = 2
    Tools = {"t1"}
    Commands <- MCCommands
    MaxCommands = 1
INVARIANT WholeIsRead
PROPERTY AnswerIsOwn
PROPERTY ZeroIsSuccess
PROPERTY PointsAtProxy
PROPERTY CommandAlwaysEnds
CHECK_DEADLOCK FALSE
