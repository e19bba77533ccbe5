SPECIFICATION FairSpec
CONSTANTS
    N = 4
    Nodes = {0, 1, 2}
    Pred <- MCPred
    Succ <- MCSucc
    c1 = c1
    c2 = c2
    c3 = c3
    kA = kA
    kB = kB
    kS = kS
    v1 = v1
    v2 = v2
    Clients = {c1, c2, c3}
    Keys = {kA, kB, kS}
    Hash <- MCHash
    Values = {v1, v2}
    NoValue = NoValue
    InitResources <- MCInitResources
    MAX_RESOURCES = 3
    RequestsOf <- MCOneKeyEach
    NoRequest = NoRequest
    ForeignMsgs = {}
    MaxRequests = 3
    MaxFaults = 0
PROPERTY EveryRequestServed
CHECK_DEADLOCK FALSE
