SPECIFICATION MCSpec
CONSTANTS
    HdrCap = 10
    SdpCap = 1
    LineEnds <- MCLineEnds
    Declared <- MCDeclared
    MaxSdp = 2
    MaxPad = 1
    MaxSessions = 2
    Faults = TRUE
INVARIANTS
    TypeOK
    BuffersKept
    ProceedsOnlyIfGranted
    ClosedWhenIdle
    LeakedPortIsFatal
    OnlyLostIsLeft
PROPERTIES
    EachStreamEnds
    StartReturns
CHECK_DEADLOCK FALSE
