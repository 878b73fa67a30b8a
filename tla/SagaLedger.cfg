SPECIFICATION Spec
CONSTANTS
    NumRequests = 4
    Request <- FourRequests
    Users <- MCUsers
    Programs <- MCPrograms
    Keys <- MCKeys
    OpeningBalance <- MCOpeningBalance
    OpeningSettlement <- MCOpeningSettlement
    Workers = {w1}
    Deadline = 1
    MaxTries = 1
    VerificationDelay = 1
    StuckAfter = 2
    NotFoundGrace = 3
    Lease = 2
    BatchSize = 2
    MaxAttempts = 1
    BackoffBase = 1
    BackoffMax = 2
    PrepMax = 0
    OutcomeMax = 3
    MaxLate = 0
    RejectIsFinal = TRUE
    LastArrival = 0
    Horizon = 3
INVARIANTS NoOverdraft OneTransferPerKey BalancesMatchTransfers ProgramBalancesSumToZero
CHECK_DEADLOCK FALSE
