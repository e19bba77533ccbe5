SPECIFICATION Spec
CONSTANTS
    a = a
    b = b
    Clients = {a, b}
    NoClient = NoClient
    Streams <- ClosingStreams
    HTTP_MAX_SIZE = 16
    Splitting = {a, b}
    Resetting = {}
    MaxUdp = 0
    MaxSent = 0
INVARIANT NeverStuck
CHECK_DEADLOCK FALSE
