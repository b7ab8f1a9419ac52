\* Two lost datagrams, a socket of two, any failed reallocation.
CONSTANTS
    NFrames = 5
    Parts <- MCParts
    PLen <- MCPLen
    Slack = 1
    HeapFails = TRUE
    Runt = Runt
    MaxFeeds = 10
    SockCap = 2
    MaxLoss = 2
SPECIFICATION ChanSpec
PROPERTY ImplementsStream
\* The host's stream ends.
CHECK_DEADLOCK FALSE
