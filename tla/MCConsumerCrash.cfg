\* A consumer closes while its request is on its way and the next one gets its object.
SPECIFICATION Spec
CONSTANTS
    Clients = {k1, k2}
    Requests = 1
    ReqLen = 2
    RespLen = 2
    BufIn = 2
    BufOut = 2
    NumCa = 1
    NumEp = 2
    NumApa = 1
    NumFds = 5
    SetSize = 5
    Balance = 2
    Protect = 1
    Latencies <- Fast
    Faults = {"midclose"}
INVARIANT NoCrash
CHECK_DEADLOCK FALSE
