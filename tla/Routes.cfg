SPECIFICATION Spec
CONSTANTS
    Second = 2
    WindowSeconds = 2
    RateLimit = 1
    NoCursor = NoCursor
    Posts = {p1, p2, p3}
    Earlier = {p3}
    PageSize = 1
    MaxLag = 1
    MaxStatus = 3
    MaxChanged = 1
    MaxTime = 5
SYMMETRY MCSymmetry
INVARIANTS TypeOK WindowLimit RetryLeavesWindow WalkIsComplete TimelineCoversStatus
CHECK_DEADLOCK FALSE
