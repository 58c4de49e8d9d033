SPECIFICATION SessionFairSpec
CONSTANTS
    Modes = {"DUAL"}
    Requests = {"CONNECT", "CONNECT_authorized", "CONNECT_miscased", "GET", "GET_authorized", "no_host", "port_no_number"}
    Protocols = {"SOCKS5", "HTTP"}
    Body <- MCShortBody
    Auths = {TRUE, FALSE}
    MaxReloads = 0
    Window = 2
    Buffer = 2
    Limit = 1
    Via = {"direct"}
    HttpAnswers = {}
    HeadMax = 1
    Attempts = 1
PROPERTY FieldsReadWhole
PROPERTY PeekEnds
PROPERTY OnlyRightCredentials
CHECK_DEADLOCK FALSE
