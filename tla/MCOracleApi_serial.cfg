SPECIFICATION ApiSpec
CONSTANTS
    o1 = o1
    o2 = o2
    n1 = n1
    n2 = n2
    msisdn = msisdn
    usd = usd
    eur = eur
    url = url
    Instance = {i1}
    Admin = {a1}
    Id <- Ids
    Name <- Names
    PartyType <- PartyTypes
    Currency <- Currencies
    Endpoint <- Endpoints
    Null = Null
    Undefined = Undefined
    Candidates <- MixedCandidates
    MayFail = FALSE
    Reader = {r1}
    MaxChanges = 1
    MaxOps = 4
    MaxStops = 1
INVARIANTS ApiTypeOK UniqueRegistration ResolvesToRegistered NoOrphanAdapter CalmListingSucceeds PromisesKept
PROPERTIES NullMeansNobody ListingComplete
CHECK_DEADLOCK FALSE
