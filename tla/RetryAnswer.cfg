SPECIFICATION FairSpec
CONSTANTS
    Requests = {"r1", "r2"}
    Keys = {"k1"}
    Bodies = {"a", "b"}
    Asks <- MCSame
    key <- MCKey
    points <- MCPoints
    OpeningBalance = 5
    Ids = {1, 2, 3, 4}
    LockTtl = 1
    KeyTtl = 2
    MaxFaults = 1
PROPERTY BusinessErrorMeansNoTransfer
CHECK_DEADLOCK FALSE
