SPECIFICATION PathSpec
CONSTANTS
    NumBlocks = 3
    BlockSamples = 2
    PortRate = 2
    Inputs <- MCInputs
    MaxStaged = 12
    MaxLag = 1
    DecDelay = 0
    MaxPackets = 3
INVARIANTS
    TypeOK
    NeverClobbers
    SubmittedInOrder
PROPERTIES
    FirstPlaysInOrder
    EveryBlockEnds
