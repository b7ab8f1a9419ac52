SPECIFICATION Spec
CONSTANTS
    NumBlocks = 4
    BlockSamples = 2
    PortRate = 2
    Inputs <- MCInputs
    MaxStaged = 4
    MaxLag = 0
INVARIANT
    NothingLost
