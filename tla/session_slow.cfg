SPECIFICATION SessionSlowSpec
CONSTANTS
    Modes = {"HTTP"}
    Requests = {"CONNECT", "CONNECT_authorized", "GET", "GET_authorized", "no_host", "port_no_number"}
    Protocols = {"HTTP"}
    Body <- MCBody
    Auths = {FALSE}
    MaxReloads = 0
    Window = 2
    Buffer = 1
    Limit = 2
    Via = {"direct"}
    HttpAnswers = {}
    HeadMax = 1
    Attempts = 1
INVARIANT NothingLeftBehind
INVARIANT TxIsSent
PROPERTY IdleIsSilence
PROPERTY SessionEnds
CHECK_DEADLOCK FALSE
