SPECIFICATION FairSpec
CONSTANTS
    ann = ann
    org = org
    Member <- MCMember
    OrgMember <- MCOrgMember
    Contribution = {c1}
    StartReq = {q1}
    StopReq = {r1, r2}
    OrgToken = OrgToken
    NoMember = NoMember
    NoMint = NoMint
    NoContribution = NoContribution
    Lamports = {11}
    Investments <- MCInvestments
    MaxSend = 3
    MaxCrash = 1
PROPERTIES
    
    ReturnedIsKept
CHECK_DEADLOCK FALSE
