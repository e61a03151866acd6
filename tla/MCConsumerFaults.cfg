\* Everything that can happen to the connections and epoll_ctl failing.
SPECIFICATION Spec
CONSTANTS
    Clients = {k1, k2}
    Requests = 1
    ReqLen = 2
    RespLen = 2
    BufIn = 2
    BufOut = 2
    NumCa = 2
    NumEp = 2
    NumApa = 1
    NumFds = 5
    SetSize = 5
    Balance = 2
    Protect = 1
    Latencies <- Fast
    Faults = {"midclose", "reset", "peerclose", "splitreq", "splitresp", "shortwrite", "slow", "epoll"}
SYMMETRY Symmetry
INVARIANTS
    TypeOK
    PooledConnectionIdle
    NoStrayDescriptor
    NoNeedlessAbort
CHECK_DEADLOCK FALSE
