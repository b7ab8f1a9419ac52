\* Every sequence of up to six datagrams out of three frames.
CONSTANTS
    NFrames = 3
    Parts <- MCParts
    PLen <- MCPLen
    Slack = 1
    HeapFails = TRUE
    Runt = Runt
    MaxFeeds = 6
SPECIFICATION Spec
INVARIANTS TypeOK WithinCapacity Framed IntactRunEmitted OneFramePerStart
\* The bounded input runs out.
CHECK_DEADLOCK FALSE
