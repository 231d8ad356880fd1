SPECIFICATION Spec
CONSTANTS
    w1 = w1
    w2 = w2
    p1 = p1
    f1 = f1
    f2 = f2
    Worker <- Workers
    Party <- Parties
    Fsp <- Fsps
    Null = Null
    Logs <- AllLogs
    Approval <- MostlyActive
    BatchSize = 2
    MaxChanges = 0
    MaxFaults = 2
INVARIANTS TypeOK AnsweredBeforeCommit OneAnswerPerDelivery SuccessIsVetted RoutedToOwner StoreIsReported
CHECK_DEADLOCK FALSE
