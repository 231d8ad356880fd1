SPECIFICATION SearchSpec
CONSTANTS
    Party = {p1}
    SubType = {s1}
    Currency = {usd, eur}
    Fsp = {f1, f2}
    Caller = {c1}
    Null = Null
    Undefined = Undefined
    Failed = Failed
    Keys <- FullKeys
    MayFail = FALSE
    MaxWrites = 4
    Limit = 2
    MaxEntriesPerPage = 3
    PageIndexes <- FirstIndex
    PageSizes <- FullSize
PROPERTIES OnePageIsAll
SYMMETRY Interchangeable
