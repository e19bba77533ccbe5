SPECIFICATION Spec
CONSTANTS
    x = x
    y = y
    the = the
    The = The
    of = of
    Maps = {x, y}
    Counting = {x}
    Words = {the, The, of}
    Lower <- MCLower
    Hash <- MCHash
    Sizes <- MCSizes
    DEFAULT_N_BUCKETS = 2
    NULL = NULL
    MaxCount = 2
    MaxFaults = 2
INVARIANT TypeOK
INVARIANT AcknowledgedIsCounted
INVARIANT MergeConserves
PROPERTY ImplementsTally
CHECK_DEADLOCK FALSE
