SPECIFICATION UdpFairSpec
CONSTANTS
    Clients = {"client"}
    Targets = {"t1"}
    Strangers = {}
    Answers = {"plain", "zeros"}
    Intrusions = {"plain"}
    Loads = {"a"}
    MaxSent = 3
    MaxControl = 1
    HupAllowed = {TRUE, FALSE}
INVARIANT UdpTypeOK
INVARIANT OnlyForTheClient
INVARIANT OwnSocketOnly
PROPERTY DatagramsMove
PROPERTY HandlerEnds
CHECK_DEADLOCK FALSE
