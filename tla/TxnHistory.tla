------------------------------ MODULE TxnHistory ------------------------------
(***************************************************************************)
(* The history of an account's credits (AccountService._getTxnAmount and   *)
(* the loop of _buildUsdcHistory around it): every instruction of a        *)
(* transaction that concerns the account's token account becomes an item   *)
(* with a signed amount and a description.  The description is a variable  *)
(* outside the loop, so an instruction that sets none keeps that of the    *)
(* one before it.                                                          *)
(***************************************************************************)
EXTENDS Integers, Sequences, SequencesExt

CONSTANTS
    Mine,        \* the account's token account
    TheRoot,     \* that of the root organisation
    Other,       \* anyone else's
    MaxInstr,    \* instructions of a transaction
    MaxAmount

ASSUME HistoryAssumption == {MaxInstr, MaxAmount} \subseteq Nat

VARIABLES txnIn  \* the transaction whose history is built

\* Transfers have a source and a destination, mints and burns an account.
Instr ==
    [type : {"transfer"}, source : {Mine, TheRoot, Other}, destination : {Mine, TheRoot, Other},
     amount : 0..MaxAmount]
    \cup [type : {"mintTo", "burn"}, source : {Other}, destination : {Other},
          amount : 0..MaxAmount, account : {Mine, Other}]

IsMinted(i) == i.type = "mintTo" /\ i.account = Mine
IsBurnt(i) == i.type = "burn" /\ i.account = Mine
IsSent(i) == i.source = Mine
IsReceived(i) == i.destination = Mine
IsCommission(i) == IsSent(i) /\ i.destination = TheRoot

Concerns(i) == IsSent(i) \/ IsReceived(i) \/ IsMinted(i) \/ IsBurnt(i)

\* Mutant: a burn is not negative.
SignedBurnPositive(i) == IF IsSent(i) THEN -i.amount ELSE i.amount

\* Sent or burnt amounts are negative.
Signed(i) == IF IsSent(i) \/ IsBurnt(i) THEN -i.amount ELSE i.amount

\* A burn beside any transfer is the withdrawal it pays for.
Description(i, before, instrs) ==
    IF IsCommission(i) THEN "Commission"
    ELSE IF IsSent(i) THEN "Sent"
    ELSE IF IsMinted(i) THEN "Deposited"
    ELSE IF ~IsBurnt(i) THEN before
    ELSE IF \E j \in DOMAIN instrs : instrs[j].type = "transfer" THEN "Withdrawn"
    ELSE "Burnt"

\* One turn of the loop: the items so far, the last one first, and the
\* description.
AddItem(instrs, done, i) ==
    IF ~Concerns(i) THEN done
    ELSE LET text == Description(i, done.description, instrs)
         IN  [description |-> text,
              items |-> IF Signed(i) = 0 THEN done.items
                        ELSE <<[amount |-> Signed(i), description |-> text]>> \o done.items]

\* _getTxnAmount.
GetTxnAmount(instrs) ==
    LET Add(done, i) == AddItem(instrs, done, i)
    IN  FoldLeft(Add, [description |-> "Received", items |-> <<>>], instrs).items

\* _buildUsdcHistory: nothing of a transaction that failed; an item that reads
\* Received is left out unless the server knows who it is from.
History(t) ==
    LET Push(history, item) == IF item.description # "Received" \/ t.known
                               THEN Append(history, item) ELSE history
    IN  IF t.err THEN <<>> ELSE FoldLeft(Push, <<>>, GetTxnAmount(t.instrs))

\* The transactions it is tried on; an account does not send to itself.
Txns ==
    [err : BOOLEAN, known : BOOLEAN,
     instrs : {s \in UNION {[1..n -> Instr] : n \in 0..MaxInstr} :
                  \A j \in DOMAIN s : ~(IsSent(s[j]) /\ IsReceived(s[j]))}]

HistoryInit == txnIn \in Txns

(***************************************************************************)
(* What the history should say.                                            *)
(***************************************************************************)

\* What an instruction changes the account's balance by: it comes in by transfers
\* and mints, and goes out by transfers and burns.
ChangeBy(i) == (IF i.destination = Mine \/ IsMinted(i) THEN i.amount ELSE 0)
               - (IF i.source = Mine \/ IsBurnt(i) THEN i.amount ELSE 0)

Change(t) ==
    IF t.err THEN 0
    ELSE SumFunctionOnSet([j \in DOMAIN t.instrs |-> ChangeBy(t.instrs[j])], DOMAIN t.instrs)

Amounts(items) == SumFunctionOnSet([j \in DOMAIN items |-> items[j].amount], DOMAIN items)

\* The amounts shown of a transaction whose sender is known add up to what it
\* changed the account's balance by, whatever its instructions and their order;
\* of any other, the amounts left out are ones that came in.
HistoryAddsUp ==
    LET shown == Amounts(History(txnIn))
    IN  IF txnIn.known THEN shown = Change(txnIn) ELSE shown <= Change(txnIn)

=============================================================================
