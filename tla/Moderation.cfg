SPECIFICATION Spec
CONSTANTS
    u1 = u1
    Peers = {p1}
    Mods = {m1}
    Founder = Founder
    Handler = handler
    Cleaner = cleaner
    RateSaver = rateSaver
    Users = {u1}
    RateLimit = 1
    RateWindow = 2
    MinBan = 1
    MaxBan = 2
    MaxCert = 2
    SeenCap = 2
    HistoryCap = 1
    MaxTime = 3
    Scenes <- MCScenes
INVARIANTS
    NoStaleBan
    QuotaHolds
    Durable
    HandledOnce
PROPERTIES
    RevokedCannotAct
CHECK_DEADLOCK FALSE
