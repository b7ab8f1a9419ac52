SPECIFICATION Spec
CONSTANTS
    JITTER_CAP = 4
    DecDelay = 2
    MaxFrames = 7
INVARIANTS
    TypeOK
    NothingRefused
    NothingDropped
PROPERTIES
    ShownInOrder
    NoFrameStays
CHECK_DEADLOCK FALSE
