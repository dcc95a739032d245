SPECIFICATION MCSpec
CONSTANTS
    Investor = {ann, org}
    OrgInvestor = {org}
    Order = {q1, q2}
    Amounts = {1, 2}
    Offered = 3
    Batches = 1
    NoInvestor = NoInvestor
    MaxInvestRun = 2
    MaxInvestCrash = 1
    cid = cid
    dan = dan
    Candidate = {ann, cid}
    Founder = {cid, dan}
    Answer = {a1, a2}
    Holding <- MCHolding
    Percents = {0, 30}
    BatchSize = 1
    Nobody = Nobody
    MaxRuns = 3
    MaxSends = 2
    MaxBroadcast = 2
SYMMETRY Symmetry
INVARIANTS
    InvestmentsArePaid
    InvestedWithinOffer
    MembersCoverOffer
    EquityNeedsCause
    MembershipMatchesOffer
CHECK_DEADLOCK FALSE
