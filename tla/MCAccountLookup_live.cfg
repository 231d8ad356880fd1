SPECIFICATION FairSpec
CONSTANTS
    w1 = w1
    w2 = w2
    p1 = p1
    f1 = f1
    f2 = f2
    Worker <- Workers
    Party <- Parties
    Fsp <- Fsps
    Null = Null
    Logs <- ShortLogs
    Approval <- MostlyActive
    BatchSize = 2
    MaxChanges = 1
    MaxFaults = 1
INVARIANTS SuccessIsVetted
PROPERTIES AllAnswered
CHECK_DEADLOCK FALSE
