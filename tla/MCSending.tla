------------------------------ MODULE MCSending ------------------------------
(* Two requests that send, one of which is a plain one for shares, and the   *)
(* history of every transaction of at most two instructions.  The two share  *)
(* no state, so a behaviour is one of a single one of them.                  *)
EXTENDS Sending, TxnHistory, TLC

CONSTANTS r1, r2

MCKinds == r1 :> {"plain", "lite", "credits", "usdc"} @@ r2 :> {"plain"}

NoTxn == [err |-> TRUE, known |-> FALSE, instrs |-> <<>>]

MCInit ==
    /\ SendingInit
    /\ txnIn \in {NoTxn} \cup Txns
    /\ txnIn # NoTxn => member = {} /\ holds = earned

MCNext == txnIn = NoTxn /\ SendingNext /\ UNCHANGED txnIn

MCSpec == MCInit /\ [][MCNext]_<<sendingVars, txnIn>>

Symmetry == Permutations(Party)

==============================================================================
