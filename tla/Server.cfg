SPECIFICATION FairSpec
CONSTANTS
    a = a
    b = b
    Clients = {a, b}
    NoClient = NoClient
    Streams <- PipelinedStreams
    HTTP_MAX_SIZE = 9
    Splitting = {b}
    Resetting = {b}
    MaxUdp = 1
    MaxSent = 1
INVARIANT TypeOK
INVARIANT OneConnection
INVARIANT StreamPreserved
INVARIANT SegmentationIndependent
PROPERTY AllAnswered
PROPERTY UdpServed
CHECK_DEADLOCK FALSE
