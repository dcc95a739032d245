---------------------------- MODULE AirdropShares ----------------------------
(***************************************************************************)
(* The arithmetic of the airdrop (AirdropService): the rows a wallet's     *)
(* transactions leave (calculate), how debits use up earlier credits and   *)
(* what the rest weighs (finalCalculations), the share of the airdrop a    *)
(* weight gives (airdropCalculations, getClaimByWallet), and the minutes   *)
(* of use a claim requires (deplanWalletCheck).  Amounts are whole         *)
(* lamports.  Time is counted in half days: a period of d days is the half *)
(* days 0..2d-1 of it, so that its end is not a whole number of days after *)
(* its start, as in the code, where it is a second short.                  *)
(***************************************************************************)
EXTENDS Integers, SequencesExt

CONSTANTS
    PeriodDays,    \* length of a holding period
    MaxTxns,       \* bounds of the checked inputs: transactions a period,
    MaxBalance,    \* balance,
    MaxSize,       \* size of the airdrop and weight of a wallet,
    PageLimit,     \* transactions a page,
    MaxUses        \* transactions of the wallet that uses DePlan

ASSUME InputAssumption ==
    /\ {PeriodDays, PageLimit} \subseteq Nat \ {0}
    /\ {MaxTxns, MaxBalance, MaxSize, MaxUses} \subseteq Nat

VARIABLE input    \* what the operators are checked on, chosen at the beginning

Absent == -1

Sum(s) == FoldLeft(+, 0, s)

\* What of s is at `places`, in order.
OnlyAt(s, places) ==
    LET Keep(kept, i) == IF i \in places THEN Append(kept, s[i]) ELSE kept
    IN  FoldLeft(Keep, <<>>, [i \in DOMAIN s |-> i])

(***************************************************************************)
(* The rows of a wallet.                                                   *)
(***************************************************************************)

PeriodLength == 2 * PeriodDays

\* getDaysDifference: whole days between two times.
DaysBetween(from, to) == (to - from) \div 2

\* What a transaction did to the wallet's balance.  A balance is absent when
\* the transaction opened or closed the wallet's token account.
RowOf(t, end) ==
    [type |-> IF t.pre = Absent \/ t.post > t.pre THEN "CREDIT"
              ELSE IF t.post < t.pre THEN "DEBIT" ELSE "UNKNOWN",
     amount |-> IF t.pre = Absent THEN t.post
                ELSE IF t.post > t.pre THEN t.post - t.pre
                ELSE t.pre - t.post,
     date |-> t.date,
     days |-> DaysBetween(t.date, end),
     balance |-> 0]

\* The rows of the period's transactions, the newest first: not of those that
\* failed and not of those that closed the account.
NewRows(txns, end) ==
    LET counted == OnlyAt(txns, {i \in DOMAIN txns : ~txns[i].failed /\ txns[i].post # Absent})
    IN  [i \in DOMAIN counted |-> RowOf(counted[i], end)]

\* What is left of earlier periods was held for the whole of this one.
Aged(rows) ==
    [i \in DOMAIN rows |->
        [rows[i] EXCEPT !.days = @ + DaysBetween(0, PeriodLength - 1)]]

\* The balance after the newest transaction goes into every row; rows keep
\* theirs when there is none.
WithBalance(rows, txns) ==
    IF txns = <<>> THEN rows
    ELSE [i \in DOMAIN rows |->
             [rows[i] EXCEPT !.balance = IF txns[1].post = Absent THEN 0 ELSE txns[1].post]]

(***************************************************************************)
(* finalCalculations.                                                      *)
(***************************************************************************)

\* A stable sort by date: the place of a row is the number of rows of an earlier
\* date, and of its own date up to itself.
SortByDate(rows) ==
    LET Place(i) == Cardinality({j \in DOMAIN rows :
                        \/ rows[j].date < rows[i].date
                        \/ rows[j].date = rows[i].date /\ j <= i})
    IN  [p \in DOMAIN rows |-> rows[CHOOSE i \in DOMAIN rows : Place(i) = p]]

\* Debit i uses up credit j if that came before it.
UsesUp(rows, i, j) ==
    LET used == IF rows[i].amount <= rows[j].amount THEN rows[i].amount ELSE rows[j].amount
    IN  IF /\ rows[i].type = "DEBIT"
           /\ rows[j].type = "CREDIT"
           /\ rows[j].date < rows[i].date
        THEN [rows EXCEPT ![i].amount = @ - used, ![j].amount = @ - used]
        ELSE rows

\* Mutant: every debit uses up the newest credits before it.
OffsetNewestFirst(rows) ==
    LET places == [i \in DOMAIN rows |-> i]
        Debited(rs, i) == FoldRight(LAMBDA j, r : UsesUp(r, i, j), places, rs)
    IN  FoldLeft(Debited, rows, places)

\* Every debit uses up earlier credits, the oldest first.
Offset(rows) ==
    LET places == [i \in DOMAIN rows |-> i]
        Debited(rs, i) == FoldLeft(LAMBDA r, j : UsesUp(r, i, j), rs, places)
    IN  FoldLeft(Debited, rows, places)

\* What the rows say the wallet holds.
BalanceCheck(rows) ==
    Sum([i \in DOMAIN rows |-> CASE rows[i].type = "CREDIT" -> rows[i].amount
                                 [] rows[i].type = "DEBIT"  -> -rows[i].amount
                                 [] OTHER                   -> 0])

\* The rows with something left, what they weigh, and whether they disagree
\* with the wallet's balance.  A debit no credit covers counts like a credit.
FinalCalculations(rows) ==
    LET sorted == SortByDate(rows)
        settled == Offset(sorted)
        left == OnlyAt(settled, {i \in DOMAIN settled : settled[i].amount # 0})
    IN  [rows |-> left,
         finalAmount |-> Sum([i \in DOMAIN left |-> left[i].amount * left[i].days]),
         error |-> left # <<>> /\ Last(left).balance # BalanceCheck(sorted)]

\* One run of calculate for a wallet, given its rows and what was fetched of
\* its transactions in the period, the newest first.
Calculated(rows, txns, end) ==
    FinalCalculations(WithBalance(Aged(rows) \o NewRows(txns, end), txns))

(***************************************************************************)
(* Shares of the airdrop.                                                  *)
(***************************************************************************)

\* Mutant: a claim is rounded up.
ClaimRoundedUp(size, weight, total) == (size * weight + total - 1) \div total

\* Math.round(size * (weight / total)).
ClaimAmount(size, weight, total) == (2 * size * weight + total) \div (2 * total)

\* The claims of wallets by their weights; one whose rows are wrong takes its
\* part of the total but cannot claim.
Claims(size, weights, errors) ==
    [w \in DOMAIN weights |->
        IF w \in errors THEN 0 ELSE ClaimAmount(size, weights[w], Sum(weights))]

(***************************************************************************)
(* Minutes of use.                                                         *)
(***************************************************************************)

\* What +memo gives for a memo that is not a number.
NaN == -1

\* Mutant: the next page starts one transaction later.
NextCursorLater(before, page) == before + Len(page) + 1

\* The next page starts behind the last transaction of this one.
NextCursor(before, page) == before + Len(page)

\* getTokenHistory: a page of transactions, those before a time left out.
TokenHistory(txns, before, from) ==
    LET end == IF before + PageLimit <= Len(txns) THEN before + PageLimit ELSE Len(txns)
        Keep(page, t) == IF t.date >= from THEN Append(page, t) ELSE page
    IN  FoldLeft(Keep, <<>>, SubSeq(txns, before + 1, end))

\* The minutes since the period began, read in pages from the newest on; NaN
\* when a memo is not a number.  Only transfers of the wallet with a memo count.
UsageMinutes(txns, from) ==
    LET Add(total, t) ==
            IF ~t.used THEN total
            ELSE IF NaN \in {total, t.memo} THEN NaN ELSE total + t.memo
        total[before \in 0..Len(txns) + PageLimit] ==
            LET page == TokenHistory(txns, before, from)
            IN  IF before > Len(txns) \/ page = <<>> THEN 0
                ELSE FoldLeft(Add, total[NextCursor(before, page)], page)
    IN  total[0]

\* NaN < required is false.
EnoughUsage(txns, from, required) ==
    ~(UsageMinutes(txns, from) # NaN /\ UsageMinutes(txns, from) < required)

(***************************************************************************)
(* What is checked of it, over bounded inputs.                             *)
(***************************************************************************)

\* The transactions of a period that starts with balance b; one that fails
\* leaves it as it was.
Histories(b) ==
    LET Dated(dates) ==
            {h \in {[i \in 1..Len(dates) |->
                        [pre |-> IF i = 1 THEN b ELSE after[i - 1], post |-> after[i],
                         date |-> dates[i], failed |-> i \in failed]] :
                       after \in [1..Len(dates) -> 0..MaxBalance],
                       failed \in SUBSET (1..Len(dates))} :
             \A i \in DOMAIN h : h[i].failed => h[i].post = h[i].pre}
        Increasing(dates) == \A i, j \in DOMAIN dates : i < j => dates[i] < dates[j]
    IN  UNION {Dated(dates) :
                   dates \in {d \in UNION {[1..n -> 0..PeriodLength - 1] : n \in 0..MaxTxns} :
                                 Increasing(d)}}

BalanceAfter(history, b) == IF history = <<>> THEN b ELSE Last(history).post

\* The transactions of a period as those of the next one.
NextPeriod(history) ==
    [i \in DOMAIN history |-> [history[i] EXCEPT !.date = @ + PeriodLength]]

Received(t) == IF t.post > t.pre THEN t.post - t.pre ELSE 0

\* The days to the end of the second period, whole ones in each of the two.
DaysHeld(t) ==
    IF t.date < PeriodLength
    THEN DaysBetween(t.date, PeriodLength - 1) + DaysBetween(0, PeriodLength - 1)
    ELSE DaysBetween(t.date, 2 * PeriodLength - 1)

\* How much of what transaction i brought is held in the end: those received last
\* are held, as many as are left of the balance.
StillHeld(history, i) ==
    LET later == SumFunctionOnSet([j \in DOMAIN history |-> Received(history[j])],
                                  {j \in DOMAIN history : j > i})
        left == Last(history).post - later
    IN  CASE left < 0 -> 0
          [] left > Received(history[i]) -> Received(history[i])
          [] OTHER -> left

NoInput == [kind |-> "none"]

\* Two periods of a wallet that had nothing before.
PeriodInputs ==
    UNION {{[kind |-> "periods", first |-> first, second |-> second] :
               second \in Histories(BalanceAfter(first, 0))} : first \in Histories(0)}

\* The weights of wallets, and those whose rows are wrong.
ShareInputs ==
    [kind : {"shares"}, weights : [1..3 -> 0..MaxSize], errors : SUBSET (1..3)]

\* The transactions of a wallet that uses DePlan, the newest first.
UseInputs ==
    UNION {{[kind |-> "uses", txns |-> txns] :
               txns \in {[i \in 1..n |-> [date |-> n - i, used |-> u[i] # 0, memo |-> u[i]]] :
                            u \in [1..n -> {NaN, 0, 1}]}} : n \in 0..MaxUses}

Inputs == PeriodInputs \cup ShareInputs \cup UseInputs

\* Over two periods, a wallet's weight is the days each lamport it holds has
\* been held, where the lamports it holds are those it received last, and no
\* error is noted: debits use up the oldest credits, and what is left of them
\* is carried from period to period.
HeldIsCounted ==
    input.kind = "periods" =>
        LET one == Calculated(<<>>, Reverse(input.first), PeriodLength - 1)
            second == NextPeriod(input.second)
            two == Calculated(one.rows, Reverse(second), 2 * PeriodLength - 1)
            all == input.first \o second
        IN  /\ ~two.error
            /\ two.finalAmount =
                   SumFunctionOnSet([i \in DOMAIN all |-> StillHeld(all, i) * DaysHeld(all[i])],
                                    DOMAIN all)

\* What three wallets can claim together exceeds the airdrop by no more than
\* half a lamport a wallet, wallets whose rows are wrong included in the total,
\* and who weighs more never claims less.
ClaimsFitAirdrop ==
    input.kind = "shares" /\ Sum(input.weights) > 0 =>
        \A size \in 0..MaxSize :
            LET claims == Claims(size, input.weights, input.errors)
            IN  /\ 2 * Sum(claims) <= 2 * size + 3
                /\ input.errors = {} => 2 * Sum(claims) >= 2 * size - 3
                /\ \A v, w \in (1..3) \ input.errors :
                       input.weights[v] <= input.weights[w] => claims[v] <= claims[w]

\* Reading page by page counts every use since the period began and no other,
\* so that the check passes exactly when they are enough, or when a memo is
\* not a number.
UsageIsCounted ==
    input.kind = "uses" =>
        \A since \in 0..MaxUses, required \in 0..MaxUses :
            LET counted == {i \in DOMAIN input.txns : input.txns[i].date >= since
                                                       /\ input.txns[i].used}
            IN  EnoughUsage(input.txns, since, required) <=>
                    \/ \E i \in counted : input.txns[i].memo = NaN
                    \/ Cardinality(counted) >= required

=============================================================================
