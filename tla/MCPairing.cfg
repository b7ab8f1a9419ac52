SPECIFICATION Spec
CONSTANTS
    Ips <- MCIps
    IpLen = 2
    MAX_DISCOVERED = 2
    Rounds = 3
    MAX_HOSTS = 2
    PathCap = 16384
    ReqCap = 16896
    PemLen = 1200
    SignedLen = 272
    Faults = TRUE
    MaxCerts = 2
    MaxBoots = 3
INVARIANTS
    TypeOK
    PairedMeansTrusted
    OneRecordPerHost
    PairingsKept
PROPERTIES
    IdentityKept
CHECK_DEADLOCK FALSE
