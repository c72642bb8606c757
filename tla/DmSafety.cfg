SPECIFICATION Spec
CONSTANTS
    p = p
    Peers = {p}
    NoPeer = NoPeer
    Out = {a, b}
    Ins = {i}
    To <- Recipient
    Machine = {b}
    NoMsg = NoMsg
    Workers = {w1, w2}
    Reader = Reader
    Opener = Opener
    NoThread = NoThread
    MaxOut = 2
    HistoryLimit = 1
    MachineLimit = 1
    Lifetime = 1
    MaxTime = 0
    Flaky = {p}
    Readable = {p}
    Crashes = 1
CHECK_DEADLOCK FALSE
SYMMETRY Symmetry
INVARIANTS
    AckDurable
    FileCurrent
    
    QueueOrder
    SentOnce
