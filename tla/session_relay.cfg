SPECIFICATION SessionFairSpec
CONSTANTS
    Modes = {"HTTP"}
    Requests = {"CONNECT", "GET"}
    Protocols = {"HTTP"}
    Body <- MCBody
    Auths = {FALSE}
    MaxReloads = 0
    Window = 2
    Buffer = 2
    Limit = 1
    Via = {"direct", "socks5", "http"}
    HttpAnswers <- MCHeaders
    HeadMax = 2
    Attempts = 2
INVARIANT StreamsIntact
INVARIANT CountsAgree
PROPERTY ChannelIsImplemented
CHECK_DEADLOCK FALSE
