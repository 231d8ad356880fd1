SPECIFICATION Spec
CONSTANTS
    Party = {p1}
    SubType = {s1}
    Currency = {usd}
    Fsp = {f1, f2}
    Caller = {c1, c2}
    Null = Null
    Failed = Failed
    Keys <- MixedKeys
    MayFail = TRUE
    MaxWrites = 2
    MaxEnds = 2
INVARIANTS TypeOK AckedIsDurable OneWinner AnswersWereAccepted
PROPERTIES ImplementsStore
SYMMETRY Interchangeable
CHECK_DEADLOCK FALSE
