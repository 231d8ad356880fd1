SPECIFICATION FairSpec
CONSTANTS
    o1 = o1
    o2 = o2
    n1 = n1
    n2 = n2
    msisdn = msisdn
    usd = usd
    eur = eur
    url = url
    Instance = {i1, i2}
    Admin = {a1, a2}
    Id <- Ids
    Name <- Names
    PartyType <- PartyTypes
    Currency <- Currencies
    Endpoint <- Endpoints
    Null = Null
    Undefined = Undefined
    Candidates <- SomeCandidates
    MayFail = TRUE
    MaxOps = 3
    MaxStops = 1
PROPERTIES StableRouting EventuallyUp
CHECK_DEADLOCK FALSE
