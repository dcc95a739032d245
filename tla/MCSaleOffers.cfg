SPECIFICATION Spec
CONSTANTS
    SaleOffer = {once, life}
    LifeTime = {life}
    Account = {a1, a2}
    Req = {q1, q2}
    NoOffer = NoOffer
    NoAccount = NoAccount
    NoSwap = NoSwap
    MaxRun = 2
    MaxCrash = 1
INVARIANTS
    ApprovedIsPaid
    PaymentsStand
    SoldAgainNeedsFault
CHECK_DEADLOCK FALSE
