SPECIFICATION SessionFairSpec
CONSTANTS
    Modes = {"HTTP"}
    Protocols = {"HTTP"}
    Requests = {"CONNECT"}
    Body <- MCOneWord
    Auths = {FALSE}
    MaxReloads = 0
    Window = 2
    Buffer = 2
    Limit = 1
    Via = {"socks5", "http"}
    HttpAnswers <- MCOddHeaders
    HeadMax = 2
    Attempts = 2
INVARIANT SessionTypeOK
INVARIANT NodeStaysHidden
INVARIANT GrantedIsTold
CHECK_DEADLOCK FALSE
