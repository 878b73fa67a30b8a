SPECIFICATION FairSpec
CONSTANTS
    NumRequests = 1
    Request <- OneRequest
    Users <- MCUsers
    Programs <- MCPrograms
    Keys <- MCKeys
    OpeningBalance <- MCOpeningBalance
    OpeningSettlement <- MCOpeningSettlement
    Workers = {w1, w2}
    Deadline = 1
    MaxTries = 2
    VerificationDelay = 1
    StuckAfter = 3
    NotFoundGrace = 4
    Lease = 2
    BatchSize = 1
    MaxAttempts = 2
    BackoffBase = 1
    BackoffMax = 2
    PrepMax = 1
    OutcomeMax = 4
    MaxLate = 0
    RejectIsFinal = TRUE
    LastArrival = 0
    Horizon = 4
PROPERTY EveryTransferResolves
CHECK_DEADLOCK FALSE
