SPECIFICATION MCSpec
CONSTANTS
    Wallet = {w1, w2}
    Owner = {o1, o2}
    Login = {l1, l2}
    Account = {a1, a2}
    NoLogin = NoLogin
    NoAccount = NoAccount
    Req = {q1, q2}
    NoReq = NoReq
    MaxPrice = 2
    MaxCrash = 1
    PeriodDays = 2
    MaxTxns = 2
    MaxBalance = 2
    MaxSize = 3
    PageLimit = 2
    MaxUses = 5
SYMMETRY Symmetry
INVARIANTS
    PaidAgainNeedsOverlap
    
    RecordedFollowed
    
    ClaimsFitAirdrop
    UsageIsCounted
CHECK_DEADLOCK FALSE
