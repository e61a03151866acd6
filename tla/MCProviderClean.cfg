\* Well-behaved peers: heads and responses in pieces, two requests per connection.
SPECIFICATION Spec
CONSTANTS
    Clients = {k1, k2, k3}
    Requests = 2
    ReqLen = 4
    RespLen = 2
    HeadLen = 2
    SepLen = 1
    DubboLen = 1
    BufIn = 5
    BufResp = 3
    MaxGot = 2
    NumCaa = 2
    NumFds = 5
    SetSize = 5
    Faults = {"splithead", "splitresp"}
PROPERTIES
    RefinesForwarding
    AnswersEveryRequest
CHECK_DEADLOCK FALSE
