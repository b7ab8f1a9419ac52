SPECIFICATION Spec
CONSTANTS
    Ips <- MCIps
    IpLen = 2
    MAX_DISCOVERED = 1
    Rounds = 1
    MAX_HOSTS = 2
    PathCap = 512
    ReqCap = 1024
    PemLen = 1200
    SignedLen = 272
    Faults = FALSE
    MaxCerts = 2
    MaxBoots = 1
PROPERTY
    PairingSucceeds
CHECK_DEADLOCK FALSE
