SPECIFICATION Spec
CONSTANTS
    Party = {p1}
    SubType = {s1}
    Currency = {usd}
    Fsp = {f1}
    Caller = {c1}
    Null = Null
    Failed = Failed
    Keys <- SubTypedKeys
    MayFail = FALSE
    MaxWrites = 1
    MaxEnds = 0
INVARIANTS SubTypeRespected
CHECK_DEADLOCK FALSE
