SPECIFICATION FairSpec
CONSTANTS
    Calls <- MCCalls
    Threshold = 2
    Cooldown = 4
    Deadline = 2
    MaxAttempts = 2
    MaxLag = 1
    MaxRaises = 1
INVARIANTS TypeOK TrialIsAlone TrialIsMade
PROPERTIES PartnerIsLeftAlone Recovers
