-------------------------------- MODULE Split --------------------------------
(***************************************************************************)
(* How the tokens of a stopped contribution are shared between the member  *)
(* who worked and the organisation's investors                             *)
(* (ContributionsService._calculateAndUpdateInvestorsShares and its use in *)
(* stopContribution).  Amounts are whole lamports and the equity           *)
(* allocations whole percentages; JavaScript's Math.round takes a half up. *)
(***************************************************************************)
EXTENDS Integers, Functions, FiniteSets

\* Mutant: the share is truncated.
ShareTruncated(lamports, percent) == (lamports * percent) \div 100

\* Math.round(lamports * (percent / 100)), for amounts that are not negative.
Share(lamports, percent) == (2 * lamports * percent + 100) \div 200

\* Every investor's share, rounded on its own.
InvestorShares(lamports, equity) ==
    [i \in DOMAIN equity |-> Share(lamports, equity[i])]

\* What the member gets is what the rounded shares leave.
Remainder(lamports, equity) ==
    lamports - SumFunction(InvestorShares(lamports, equity))

\* The amount each of Receivers gets: a member who works and is an investor
\* too is listed twice in the split, so both amounts add up.
SplitAmong(Receivers, member, lamports, equity) ==
    [r \in Receivers |->
        (IF r \in DOMAIN equity THEN Share(lamports, equity[r]) ELSE 0)
        + (IF r = member THEN Remainder(lamports, equity) ELSE 0)]

=============================================================================
