SPECIFICATION Spec
CONSTANTS
    Party = {p1}
    SubType = {}
    Currency = {usd}
    Fsp = {f1}
    Caller = {c1}
    Null = Null
    Undefined = Undefined
    Failed = Failed
    Keys <- CurrencyOrNone
    MayFail = FALSE
    MaxWrites = 2
INVARIANTS CoherentWhenQuiescent
