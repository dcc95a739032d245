SPECIFICATION Spec
CONSTANTS
    ann = ann
    org = org
    Member <- MCMember
    OrgMember <- MCOrgMember
    Contribution = {c1, c2}
    StartReq = {q1, q2}
    StopReq = {r1, r2}
    OrgToken = OrgToken
    NoMember = NoMember
    NoMint = NoMint
    NoContribution = NoContribution
    Lamports = {11}
    Investments <- MCInvestments
    MaxSend = 2
    MaxCrash = 1
INVARIANTS
    OneActivePerMember
CHECK_DEADLOCK FALSE
