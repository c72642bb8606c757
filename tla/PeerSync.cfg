SPECIFICATION FairSpec
CONSTANTS
    Peers = {p1, p2}
    NoPeer = NoPeer
    Workers = {w1, w2}
    MaxParallel = 1
    PerRound = 1
    ResyncAfter = 1
    RetryAfter = 1
    Interval = 1
    Old = 1
    FailOld = 1
    QueueCap = 1
    Healthy = {p1}
    Broken = {}
    Flaky = {p2}
INVARIANTS
    OneSyncPerPeer
    NothingAfterStop
PROPERTIES
    Stops
    AntiEntropy
