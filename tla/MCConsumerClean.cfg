\* Well-behaved peers; requests in pieces, short writes; two requests per connection.
SPECIFICATION Spec
CONSTANTS
    Clients = {k1, k2}
    Requests = 2
    ReqLen = 2
    RespLen = 2
    BufIn = 3
    BufOut = 4
    NumCa = 2
    NumEp = 2
    NumApa = 1
    NumFds = 5
    SetSize = 5
    Balance = 2
    Protect = 1
    Latencies <- Fast
    Faults = {"splitreq", "shortwrite"}
INVARIANTS
    NoLeak
PROPERTIES
    RefinesForwarding
    AnswersEveryRequest
CHECK_DEADLOCK FALSE
