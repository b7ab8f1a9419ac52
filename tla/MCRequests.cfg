SPECIFICATION RequestsSpec
CONSTANTS
    MAX_HOSTS = 2
    MAX_APPS = 2
    PIN_LEN = 2
    Digits = 2
    ReadLen = 2
    FirstCap = 4
    MaxAnswer = 5
INVARIANTS
    TypeOK
    OnlyPairedStreams
    ListIsOfChosenHost
    NothingFromTheStack
    NothingButTLSLeaks
PROPERTIES
    RequestsReturn
CHECK_DEADLOCK FALSE
