SPECIFICATION Spec
CONSTANTS
    NumRequests = 1
    Request <- OneRequest
    Users <- MCUsers
    Programs <- MCPrograms
    Keys <- MCKeys
    OpeningBalance <- MCOpeningBalance
    OpeningSettlement <- MCOpeningSettlement
    Workers = {w1, w2}
    Deadline = 2
    MaxTries = 2
    VerificationDelay = 1
    StuckAfter = 3
    NotFoundGrace = 3
    Lease = 3
    BatchSize = 1
    MaxAttempts = 2
    BackoffBase = 1
    BackoffMax = 2
    PrepMax = 1
    OutcomeMax = 5
    MaxLate = 0
    RejectIsFinal = TRUE
    LastArrival = 0
    Horizon = 5
INVARIANT NotReceivedIsFinal
CHECK_DEADLOCK FALSE
SYMMETRY WorkerSymmetry
