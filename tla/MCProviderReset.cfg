\* A client's connection is reset; later clients get its object.
SPECIFICATION Spec
CONSTANTS
    Clients = {k1, k2, k3}
    Requests = 1
    ReqLen = 2
    RespLen = 2
    HeadLen = 1
    SepLen = 1
    DubboLen = 1
    BufIn = 2
    BufResp = 2
    MaxGot = 2
    NumCaa = 2
    NumFds = 5
    SetSize = 5
    Faults = {"reset"}
INVARIANT OutstandingInUse
CHECK_DEADLOCK FALSE
