\* Objects and descriptors are used again; the set size runs out before the descriptors.
SPECIFICATION Spec
CONSTANTS
    Clients = {k1, k2, k3}
    Requests = 1
    ReqLen = 1
    RespLen = 2
    BufIn = 2
    BufOut = 2
    NumCa = 2
    NumEp = 2
    NumApa = 1
    NumFds = 5
    SetSize = 4
    Balance = 2
    Protect = 1
    Latencies <- Fast
    Faults = {"midclose", "reset", "peerclose", "splitresp"}
SYMMETRY Symmetry
INVARIANTS
    ConnectionOwnership
    OutstandingInUse
CHECK_DEADLOCK FALSE
