SPECIFICATION RouterSpec
CONSTANTS
    Lines <- MCLines
    MaxLines = 2
    Hosts <- MCHosts
    Width = 3
    LowerOf <- MCLowerOf
    AddressOf <- MCAddressOf
    NumberOf <- MCNumberOf
INVARIANT LoadReturns
INVARIANT DoctorValidLoads
CHECK_DEADLOCK FALSE
