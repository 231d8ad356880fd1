SPECIFICATION FairSpec
CONSTANTS
    Party = {p1}
    SubType = {}
    Currency = {usd}
    Fsp = {f1, f2}
    Caller = {c1, c2}
    Null = Null
    Undefined = Undefined
    Failed = Failed
    Keys <- CurrencyOrNull
    MayFail = TRUE
    MaxWrites = 2
INVARIANTS TypeOK Provenance
PROPERTIES AnswersAreRegistered EventuallyCoherent ImplementsStore
