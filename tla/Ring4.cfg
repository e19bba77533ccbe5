SPECIFICATION Spec
CONSTANTS
    N = 8
    Nodes = {1, 3, 4, 6}
    Pred <- MCPred
    Succ <- MCSucc
    c1 = c1
    c2 = c2
    c3 = c3
    kA = kA
    kB = kB
    kS = kS
    v1 = v1
    v2 = v2
    Clients = {c1, c2}
    Keys = {kA, kB, kS}
    Hash <- MCHash
    Values = {v1, v2}
    NoValue = NoValue
    InitResources <- MCInitResources
    MAX_RESOURCES = 3
    RequestsOf <- MCRoutingRequests
    NoRequest = NoRequest
    ForeignMsgs = {}
    MaxRequests = 2
    MaxFaults = 1
SYMMETRY MCSymmetry
INVARIANT TypeOK
INVARIANT ServedByOwner
INVARIANT LookupBeforeOwner
INVARIANT ReplyNamesInterval
INVARIANT NoSelfRedirect
CHECK_DEADLOCK FALSE
