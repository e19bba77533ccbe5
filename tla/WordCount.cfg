CONSTANTS
    w1 = w1
    w2 = w2
    Workers <- TwoWorkers
    PortCount = 3
    Host <- ThreePorts
    Texts <- AllTexts
    MAX_MSG_LEN = 12
    CHUNK_MAX_SIZE = 9
    MAX_WORD = 4
    MaxFaults = 1
SPECIFICATION FairSpec
INVARIANTS
    TypeOK
    WordsConserved
    PrintedIsTheWordCount
    NothingInvented
    RepliesFit
PROPERTIES
    JobEnds
    WorkersRetire
CHECK_DEADLOCK FALSE
