SPECIFICATION Spec
CONSTANTS
    NumRequests = 1
    Request <- OneRequest
    Users <- MCUsers
    Programs <- MCPrograms
    Keys <- MCKeys
    OpeningBalance <- MCOpeningBalance
    OpeningSettlement <- MCOpeningSettlement
    Workers = {w1, w2}
    Deadline = 1
    MaxTries = 2
    VerificationDelay = 1
    StuckAfter = 5
    NotFoundGrace = 5
    Lease = 2
    BatchSize = 1
    MaxAttempts = 2
    BackoffBase = 1
    BackoffMax = 2
    PrepMax = 2
    OutcomeMax = 1
    MaxLate = 0
    RejectIsFinal = TRUE
    LastArrival = 1
    Horizon = 8
INVARIANT LiveRequestUntouched
CHECK_DEADLOCK FALSE
SYMMETRY WorkerSymmetry
