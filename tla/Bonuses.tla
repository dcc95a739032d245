------------------------------- MODULE Bonuses -------------------------------
(***************************************************************************)
(* Onboarding bonuses: UsersService.createUser makes a bonus wallet and,   *)
(* without awaiting it, has the fee payer send the bonus there; the user   *)
(* pays with it (PaymentService.performPayment); a day later what is left  *)
(* is sent back by a job that Agenda runs again and again (JobsService,    *)
(* returnBonusUSDC).  A run goes through all users whose bonus expired,    *)
(* and the first refund that fails ends it.                                *)
(***************************************************************************)
EXTENDS Naturals, Sequences, SequencesExt

CONSTANTS
    NewUser,     \* users that are created
    Round,       \* runs of the job that may be at work at the same time: Agenda
                 \* starts another when one holds its lock for too long
    Bonus,       \* ONBOARDING_BONUS
    MaxRestart   \* bound of the model: restarts

ASSUME BonusAssumption == Bonus \in Nat \ {0} /\ MaxRestart \in Nat

VARIABLES
    creating,    \* the requests to create a user
    users,       \* users with a bonus wallet in the database, the oldest first
    expired,     \* those old enough
    transfer,    \* the chain: the transfer of each bonus
    money,       \* the chain: what each bonus wallet holds
    round,       \* runs of the job: the users left, and what the first one had
    restarts

bonusVars == <<creating, users, expired, transfer, money, round, restarts>>

NoRound == [pc |-> "idle", left |-> <<>>, amount |-> 0]

BonusInit ==
    /\ creating = [u \in NewUser |-> "idle"]
    /\ users = <<>>
    /\ expired = {}
    /\ transfer = [u \in NewUser |-> "none"]
    /\ money = [u \in NewUser |-> 0]
    /\ round = [j \in Round |-> NoRound]
    /\ restarts = 0

\* The user is inserted, in a transaction's callback.
InsertsUser(u) ==
    /\ creating[u] = "idle"
    /\ creating' = [creating EXCEPT ![u] = "wallets"]
    /\ UNCHANGED <<users, expired, transfer, money, round, restarts>>

\* Both wallets are made, and the bonus is on its way.
CreatesWallets(u) ==
    /\ creating[u] = "wallets"
    /\ creating' = [creating EXCEPT ![u] = "save"]
    /\ transfer' = [transfer EXCEPT ![u] = "sending"]
    /\ UNCHANGED <<users, expired, money, round, restarts>>

\* The wallets are saved and the transaction commits.
CommitsUser(u) ==
    /\ creating[u] = "save"
    /\ creating' = [creating EXCEPT ![u] = "done"]
    /\ users' = Append(users, u)
    /\ UNCHANGED <<expired, transfer, money, round, restarts>>

\* The nickname is taken, a wallet cannot be made, or the transaction aborts;
\* when the callback runs again the save of a user that was never inserted throws.
\* Where the bonus is sent, nobody knows any more.
CreateUserFails(u) ==
    /\ creating[u] \in {"wallets", "save"}
    /\ creating' = [creating EXCEPT ![u] = "failed"]
    /\ UNCHANGED <<users, expired, transfer, money, round, restarts>>

\* sendBonusUSDCForNewUser: the transfer lands ...
BonusLands(u) ==
    /\ transfer[u] = "sending"
    /\ transfer' = [transfer EXCEPT ![u] = "landed"]
    /\ money' = [money EXCEPT ![u] = @ + Bonus]
    /\ UNCHANGED <<creating, users, expired, round, restarts>>

\* ... or never does: the fee payer has too little, or sending it fails.
BonusFails(u) ==
    /\ transfer[u] = "sending"
    /\ transfer' = [transfer EXCEPT ![u] = "failed"]
    /\ UNCHANGED <<creating, users, expired, money, round, restarts>>

\* performPayment pays from the bonus wallet if it holds enough.
Spends(u, amount) ==
    /\ u \in Range(users)
    /\ money[u] >= amount
    /\ money' = [money EXCEPT ![u] = @ - amount]
    /\ UNCHANGED <<creating, users, expired, transfer, round, restarts>>

\* BONUS_WALLET_EXPIRATION_INTERVAL_MIN pass.
BonusExpires(u) ==
    /\ u \in Range(users) \ expired
    /\ expired' = expired \cup {u}
    /\ UNCHANGED <<creating, users, transfer, money, round, restarts>>

RoundGoes(j, to) == round' = [round EXCEPT ![j] = to]

\* findUsersWithExpiredBonusWallet.
RoundStarts(j) ==
    LET IsExpired(u) == u \in expired
    IN  /\ round[j].pc = "idle"
        /\ SelectSeq(users, IsExpired) # <<>>
        /\ RoundGoes(j, [pc |-> "read", left |-> SelectSeq(users, IsExpired), amount |-> 0])
        /\ UNCHANGED <<creating, users, expired, transfer, money, restarts>>

\* The round after the refund of its first user.
Onward(j) ==
    IF Len(round[j].left) = 1 THEN NoRound
    ELSE [pc |-> "read", left |-> Tail(round[j].left), amount |-> 0]

\* Mutant: a wallet that holds nothing ends the round.
ReadsOnlyFull(j) ==
    LET u == Head(round[j].left)
    IN  /\ round[j].pc = "read"
        /\ RoundGoes(j, IF money[u] = 0 THEN NoRound
                        ELSE [round[j] EXCEPT !.pc = "send", !.amount = money[u]])
        /\ UNCHANGED <<creating, users, expired, transfer, money, restarts>>

\* sendBonusUsdcBack: a wallet that holds nothing is passed over.
ReadsBonus(j) ==
    LET u == Head(round[j].left)
    IN  /\ round[j].pc = "read"
        /\ RoundGoes(j, IF money[u] = 0 THEN Onward(j)
                        ELSE [round[j] EXCEPT !.pc = "send", !.amount = money[u]])
        /\ UNCHANGED <<creating, users, expired, transfer, money, restarts>>

\* The balance cannot be read, which counts as nothing.
BonusUnread(j) ==
    /\ round[j].pc = "read"
    /\ RoundGoes(j, Onward(j))
    /\ UNCHANGED <<creating, users, expired, transfer, money, restarts>>

\* What was read is sent back, if it is still there.
Refunds(j) ==
    LET u == Head(round[j].left)
    IN  /\ round[j].pc = "send"
        /\ money[u] >= round[j].amount
        /\ money' = [money EXCEPT ![u] = @ - round[j].amount]
        /\ RoundGoes(j, Onward(j))
        /\ UNCHANGED <<creating, users, expired, transfer, restarts>>

\* Sending it back throws, and the users after it are not looked at.
RefundFails(j) ==
    /\ round[j].pc = "send"
    /\ RoundGoes(j, NoRound)
    /\ UNCHANGED <<creating, users, expired, transfer, money, restarts>>

\* The server restarts; a transfer that was sent may land, and Agenda goes on.
BonusRestart ==
    /\ restarts < MaxRestart
    /\ restarts' = restarts + 1
    /\ creating' = [u \in NewUser |->
           IF creating[u] \in {"wallets", "save"} THEN "failed" ELSE creating[u]]
    /\ round' = [j \in Round |-> NoRound]
    /\ UNCHANGED <<users, expired, transfer, money>>

BonusNext ==
    \/ \E u \in NewUser :
           \/ InsertsUser(u) \/ CreatesWallets(u) \/ CommitsUser(u) \/ CreateUserFails(u)
           \/ BonusLands(u) \/ BonusFails(u) \/ BonusExpires(u)
           \/ \E amount \in 1..Bonus : Spends(u, amount)
    \/ \E j \in Round :
           RoundStarts(j) \/ ReadsBonus(j) \/ BonusUnread(j) \/ Refunds(j) \/ RefundFails(j)
    \/ BonusRestart

IsAt(j, u) == round[j].pc # "idle" /\ Head(round[j].left) = u

\* Agenda runs the job again and again and a run goes on; a balance that is
\* asked for again and again is read, and a refund that is sent again and again
\* lands, for each user.
BonusFairness ==
    /\ WF_bonusVars(\E j \in Round : RoundStarts(j))
    /\ \A j \in Round :
        /\ WF_bonusVars(ReadsBonus(j) \/ BonusUnread(j))
        /\ WF_bonusVars(Refunds(j) \/ RefundFails(j))
        /\ \A u \in NewUser :
               /\ SF_bonusVars(IsAt(j, u) /\ ReadsBonus(j))
               /\ SF_bonusVars(IsAt(j, u) /\ Refunds(j))

\* What is left of a bonus that expired is sent back in the end, although every
\* run ends at the first refund that fails, the user goes on paying from the
\* wallet, and two runs may read the same balance.
BonusReturns == \A u \in NewUser : u \in expired /\ money[u] > 0 ~> money[u] = 0

=============================================================================
