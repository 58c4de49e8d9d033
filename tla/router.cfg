SPECIFICATION RouterSpec
CONSTANTS
    Lines <- MCLines
    MaxLines = 2
    Hosts <- MCHosts
    Width = 3
    LowerOf <- MCLowerOf
    AddressOf <- MCAddressOf
    NumberOf <- MCNumberOf
INVARIANT RouterTypeOK
INVARIANT AnswerAsDocumented
INVARIANT SoundLinesLoad
CHECK_DEADLOCK FALSE
