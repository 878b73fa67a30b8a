SPECIFICATION Spec
CONSTANTS
    NumRequests = 1
    Request <- OneRequest
    Users <- MCUsers
    Programs <- MCPrograms
    Keys <- MCKeys
    OpeningBalance <- MCOpeningBalance
    OpeningSettlement <- MCOpeningSettlement
    Workers = {w1, w2}
    Deadline = 1
    MaxTries = 2
    VerificationDelay = 1
    StuckAfter = 2
    NotFoundGrace = 6
    Lease = 2
    BatchSize = 1
    MaxAttempts = 2
    BackoffBase = 1
    BackoffMax = 2
    PrepMax = 2
    OutcomeMax = 7
    MaxLate = 1
    RejectIsFinal = TRUE
    LastArrival = 0
    Horizon = 7
INVARIANTS TypeOK PartnerAgreement InterruptedNeverSent ScheduleFitsStatus ResolutionNeverRaises RecordsMatchStatus
PROPERTY ImplementsContract
CHECK_DEADLOCK FALSE
SYMMETRY WorkerSymmetry
