SPECIFICATION SessionFairSpec
CONSTANTS
    Modes = {"SOCKS5", "HTTP", "DUAL"}
    Protocols = {"SOCKS5", "HTTP"}
    Requests = {"CONNECT", "CONNECT_authorized", "CONNECT_miscased", "GET", "GET_authorized", "no_host", "port_no_number"}
    Body <- MCShortBody
    Auths = {TRUE, FALSE}
    MaxReloads = 1
    Window = 2
    Buffer = 2
    Limit = 1
    Via = {"direct"}
    HttpAnswers = {}
    HeadMax = 1
    Attempts = 1
INVARIANT OnlyAuthenticated
INVARIANT EndsReleased
PROPERTY SessionEnds
CHECK_DEADLOCK FALSE
