SPECIFICATION UdpFairSpec
CONSTANTS
    Clients = {"client"}
    Targets = {"t1", "t2"}
    Strangers = {"x"}
    Answers = {"plain", "ipv4"}
    Intrusions = {"ipv4"}
    Loads = {"a"}
    MaxSent = 3
    MaxControl = 1
    HupAllowed = {TRUE, FALSE}
INVARIANT OnlyRelayed
INVARIANT NothingOutlives
PROPERTY AssociationEnds
CHECK_DEADLOCK FALSE
