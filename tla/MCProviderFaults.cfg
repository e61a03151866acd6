\* Everything that can happen to the connections.
SPECIFICATION Spec
CONSTANTS
    Clients = {k1, k2, k3}
    Requests = 1
    ReqLen = 3
    RespLen = 2
    HeadLen = 1
    SepLen = 2
    DubboLen = 1
    BufIn = 3
    BufResp = 3
    MaxGot = 1
    NumCaa = 1
    NumFds = 4
    SetSize = 4
    Faults = {"midclose", "reset", "peerclose", "splitreq", "splitresp", "shortwrite", "epoll"}
SYMMETRY Symmetry
INVARIANTS
    TypeOK
    NoStrayDescriptor
    HealthyOwnership
    OnlyWholeResponses
CHECK_DEADLOCK FALSE
