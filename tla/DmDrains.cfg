SPECIFICATION FairSpec
CONSTANTS
    p = p
    Peers = {p}
    NoPeer = NoPeer
    Out = {a, b}
    Ins = {}
    To <- Recipient
    Machine = {}
    NoMsg = NoMsg
    Workers = {w1}
    Reader = Reader
    Opener = Opener
    NoThread = NoThread
    MaxOut = 1
    HistoryLimit = 3
    MachineLimit = 1
    Lifetime = 0
    MaxTime = 1
    Flaky = {p}
    Readable = {}
    Crashes = 0
CHECK_DEADLOCK FALSE
PROPERTY
    Drains
