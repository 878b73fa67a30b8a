SPECIFICATION Spec
CONSTANTS
    Admins = {a1, a2}
    Quotes = {"q1"}
    Transfers = {"t1"}
    NewRates <- MCTerms
    NewBonuses <- MCBonuses
    OpeningRates <- MCOpening
    amount <- MCAmount
    Ttl = 2
    MaxLoad = 1
    MaxCommit = 1
    MaxVersions = 2
    MaxTime = 4
    Forever = 9
INVARIANTS TypeOK OneVersionApplies TermsNeverChange PricedInForce BonusIsReal SplittingNeverPays
PROPERTY QuoteIsRecent
SYMMETRY MCSymmetry
