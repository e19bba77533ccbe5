SPECIFICATION Spec
CONSTANTS
    kS = kS
    k1 = k1
    k2 = k2
    k3 = k3
    v1 = v1
    v2 = v2
    Keys = {kS, k1, k2, k3}
    Values = {v1, v2}
    NULL = NULL
    MAX_RESOURCES = 3
    Literals <- MCLiterals
    LiteralValue <- MCLiteralValue
    Written = {kS, k1, k2, k3}
INVARIANT TypeOK
INVARIANT UniqueKeys
PROPERTY ImplementsDictionary
CHECK_DEADLOCK FALSE
