SPECIFICATION Spec
CONSTANTS
    Txns = {"debit1", "debit2", "debit3", "settle", "reverse"}
    job <- MCJob
    Accounts <- MCAccounts
    UserAccounts <- MCUsers
    Transfers = {"x1", "x2", "x3", "x4"}
    Keys = {"k1", "k3", "k4"}
    MaxId = 6
    OpeningBalance <- MCOpening
INVARIANTS TypeOK NoWaitCycle DebitNeverBounces
PROPERTY TransactionsAreAtomic
CHECK_DEADLOCK FALSE
