SPECIFICATION FairSpec
CONSTANTS
    a = a
    b = b
    Clients = {a, b}
    NoClient = NoClient
    Scripts <- MCScripts
    Request <- MCRequest
    Length <- MCLength
    Headers = {"len2", "len3"}
    NUL = "NUL"
    HEADER_BLOCK = 20
    Names = {"f", "g"}
    StaticNames = {"s"}
    NULL = NULL
    SIZE = 10
    MaxFaults = 1
    Resetting = {a}
    MaxSegments <- MCMaxSegments
INVARIANT TypeOK
INVARIANT BufferContinuesStream
INVARIANT AnswersFollowMessages
PROPERTY DictionaryWhileIntact
PROPERTY AllServed
CHECK_DEADLOCK FALSE
