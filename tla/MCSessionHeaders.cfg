SPECIFICATION Spec
CONSTANTS
    HdrCap = 12
    SdpCap = 2
    LineEnds <- MCLineEnds
    Declared <- MCDeclared
    MaxSdp = 1
    MaxPad = 0
    MaxSessions = 1
    Faults = FALSE
INVARIANT
    HeadersLeaveTheBody
CHECK_DEADLOCK FALSE
