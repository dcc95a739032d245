----------------------------- MODULE MCDeposits -----------------------------
(* Two deliveries, of one payment or of two, whose callback runs twice; and  *)
(* the bonuses of two users and two runs of the job that returns them.  The  *)
(* two share no state, so a behaviour is one of a single one of them.        *)
EXTENDS Deposits, Bonuses

MCInit == Init /\ BonusInit

MCNext ==
    \/ Next /\ UNCHANGED bonusVars /\ BonusInit
    \/ BonusNext /\ UNCHANGED vars /\ Init

MCSpec == MCInit /\ [][MCNext]_<<vars, bonusVars>> /\ Fairness /\ BonusFairness

=============================================================================
