-------------------------- MODULE TxnConfirmProofs --------------------------
(***************************************************************************)
(* TxnConfirm's type correctness and safety properties, for any jobs, any  *)
(* choice of strict senders among them and any bound on the broadcasts.    *)
(***************************************************************************)
EXTENDS TxnConfirm, TLAPS

(***************************************************************************)
(* The inductive invariant.  The properties speak of where a job ends, the *)
(* invariant of how it got there: which attempt is polled while another    *)
(* one is sent, and that the slots after the last attempt are untouched,   *)
(* so that a new attempt never overwrites the fate of an older one.        *)
(***************************************************************************)

\* Attempts are numbered in the order they are sent.
SentInOrder ==
    \A j \in Job : \A i \in Attempt : txn[j][i] = "unsent" <=> i > sent[j]

\* The hash names an attempt that was sent, from the first poll on.
HashIsSent ==
    \A j \in Job :
        /\ hash[j] <= sent[j]
        /\ pc[j] \notin {"idle", "send", "await", "threw"} => hash[j] >= 1
        /\ pc[j] = "await" => sent[j] >= 1
        /\ pc[j] = "reawait" => hash[j] < sent[j]

\* Before confirmTxnWithRetry is reached there is one attempt at most.
FirstCallSendsOnce ==
    \A j \in Job : /\ pc[j] \in {"idle", "send"} => sent[j] = 0
                   /\ pc[j] \in {"await", "threw"} => sent[j] <= 1

\* A sender that throws on errors never leaves a hash that did not land.
StrictHashLanded ==
    \A j \in StrictJob : hash[j] >= 1 => txn[j][hash[j]] = "landed"

Inv ==
    /\ TypeOK
    /\ SentInOrder
    /\ HashIsSent
    /\ FirstCallSendsOnce
    /\ StrictHashLanded
    /\ ReturnedIsLanded
    /\ NilThrowHidesDuplicate

LEMMA InitInv == Init => Inv
  BY JobAssumption, MaxSendAssumption
  DEF Init, Inv, TypeOK, SentInOrder, HashIsSent, FirstCallSendsOnce,
      StrictHashLanded, ReturnedIsLanded, NilThrowHidesDuplicate, Running, Ended,
      Attempt

\* Every step of a job, and every step of the chain, keeps the invariant.
LEMMA StepInv ==
  ASSUME Inv, NEW j \in Job, Begin(j) \/ ConfirmStep(j) \/ ChainStep(j)
  PROVE  Inv'
<1> USE JobAssumption, MaxSendAssumption
    DEF JobAssumption, MaxSendAssumption, Inv, TypeOK, Attempt, Running, Ended
<1>1. CASE Begin(j)
  BY <1>1 DEF Begin, SentInOrder, HashIsSent, FirstCallSendsOnce, StrictHashLanded,
              ReturnedIsLanded, NilThrowHidesDuplicate, Landed
<1>2. CASE Broadcast(j)
  <2>1. TypeOK'
    BY <1>2 DEF Broadcast
  <2>2. SentInOrder'
    BY <1>2 DEF Broadcast, SentInOrder
  <2>3. HashIsSent' /\ FirstCallSendsOnce'
    BY <1>2 DEF Broadcast, HashIsSent, FirstCallSendsOnce
  <2>4. \A k \in Job : Landed(k)' = Landed(k)
    BY <1>2 DEF Broadcast, SentInOrder, Landed
  <2>5. StrictHashLanded' /\ ReturnedIsLanded'
    BY <1>2 DEF Broadcast, SentInOrder, HashIsSent, StrictHashLanded, ReturnedIsLanded
  <2>6. NilThrowHidesDuplicate'
    BY <1>2, <2>4 DEF Broadcast, NilThrowHidesDuplicate
  <2> QED BY <2>1, <2>2, <2>3, <2>5, <2>6
<1>3. CASE SendReturns(j) \/ ResendReturns(j)
  <2>1. TypeOK'
    BY <1>3 DEF SendReturns, ResendReturns
  <2>2. SentInOrder' /\ FirstCallSendsOnce'
    BY <1>3 DEF SendReturns, ResendReturns, SentInOrder, FirstCallSendsOnce
  <2>3. ASSUME SendReturns(j) PROVE HashIsSent'
    BY <2>3 DEF SendReturns, HashIsSent
  <2>4. ASSUME ResendReturns(j) PROVE HashIsSent'
    BY <2>4 DEF ResendReturns, HashIsSent
  <2>5. HashIsSent'
    BY <1>3, <2>3, <2>4
  <2>6. StrictHashLanded' /\ ReturnedIsLanded'
    BY <1>3 DEF SendReturns, ResendReturns, SenderReturns, HashIsSent,
                StrictHashLanded, ReturnedIsLanded
  <2>7. NilThrowHidesDuplicate'
    <3> SUFFICES ASSUME NEW k \in StrictJob, pc'[k] = "threwNil"
                 PROVE  \E a, b \in Landed(k)' : a # b
      BY DEF NilThrowHidesDuplicate
    <3>1. Landed(k)' = Landed(k)
      BY <1>3 DEF SendReturns, ResendReturns, Landed
    <3>2. CASE pc[k] = "threwNil"
      BY <3>1, <3>2 DEF NilThrowHidesDuplicate
    <3>3. CASE pc[k] # "threwNil"
      <4>1. k = j /\ pc[j] = "reawait" /\ SenderReturns(j)
        BY <1>3, <3>3 DEF SendReturns, ResendReturns
      <4>2. hash[j] \in 0..MaxSend /\ sent[j] \in 0..MaxSend /\ MaxSend \in Nat
        OBVIOUS
      <4>3. hash[j] < sent[j] /\ hash[j] >= 1
        BY <4>1 DEF HashIsSent
      <4>4. /\ j \in StrictJob
            /\ hash[j] \in 1..MaxSend /\ sent[j] \in 1..MaxSend
            /\ hash[j] # sent[j]
        BY <4>1, <4>2, <4>3
      <4>5. txn[j][hash[j]] = "landed" /\ txn[j][sent[j]] = "landed"
        BY <4>1, <4>4 DEF SenderReturns, StrictHashLanded
      <4> QED BY <3>1, <4>1, <4>4, <4>5 DEF Landed
    <3> QED BY <3>2, <3>3
  <2> QED BY <2>1, <2>2, <2>5, <2>6, <2>7
<1>4. CASE SendThrows(j) \/ PollFindsError(j) \/ PollMisses(j) \/ ResendThrows(j)
  <2> USE <1>4 DEF SendThrows, PollFindsError, PollMisses, ResendThrows
  <2>1. TypeOK'
    OBVIOUS
  <2>2. SentInOrder' /\ FirstCallSendsOnce'
    BY DEF SentInOrder, FirstCallSendsOnce
  <2>3. HashIsSent'
    BY DEF HashIsSent
  <2>4. StrictHashLanded' /\ ReturnedIsLanded'
    BY DEF StrictHashLanded, ReturnedIsLanded
  <2>5. NilThrowHidesDuplicate'
    <3> SUFFICES ASSUME NEW k \in StrictJob, pc'[k] = "threwNil"
                 PROVE  \E a, b \in Landed(k)' : a # b
      BY DEF NilThrowHidesDuplicate
    <3>1. Landed(k)' = Landed(k)
      BY DEF Landed
    <3>2. pc[k] = "threwNil"
      OBVIOUS
    <3> QED BY <3>1, <3>2 DEF NilThrowHidesDuplicate
  <2> QED BY <2>1, <2>2, <2>3, <2>4, <2>5
<1>5. CASE PollFinds(j)
  BY <1>5 DEF PollFinds, SentInOrder, HashIsSent, FirstCallSendsOnce,
              StrictHashLanded, ReturnedIsLanded, NilThrowHidesDuplicate, Landed
<1>6. CASE ChainStep(j)
  <2>1. PICK i \in Attempt : Settle(j, i)
    BY <1>6 DEF ChainStep
  <2>2. TypeOK' /\ SentInOrder'
    BY <2>1 DEF Settle, SentInOrder
  <2>3. HashIsSent' /\ FirstCallSendsOnce'
    BY <2>1 DEF Settle, HashIsSent, FirstCallSendsOnce
  <2>4. \A k \in Job : \A n \in Attempt : txn[k][n] = "landed" => txn'[k][n] = "landed"
    BY <2>1 DEF Settle
  <2>5. StrictHashLanded' /\ ReturnedIsLanded'
    BY <2>1, <2>4 DEF Settle, HashIsSent, StrictHashLanded, ReturnedIsLanded
  <2>6. NilThrowHidesDuplicate'
    BY <2>1, <2>4 DEF Settle, NilThrowHidesDuplicate, Landed
  <2> QED BY <2>2, <2>3, <2>5, <2>6
<1> QED BY <1>1, <1>2, <1>3, <1>4, <1>5, <1>6 DEF ConfirmStep

LEMMA NextInv == Inv /\ [Next]_confirmVars => Inv'
<1> SUFFICES ASSUME Inv, [Next]_confirmVars PROVE Inv'
  OBVIOUS
<1>1. CASE Next
  BY <1>1, StepInv DEF Next
<1>2. CASE UNCHANGED confirmVars
  BY <1>2 DEF confirmVars, Inv, TypeOK, SentInOrder, HashIsSent, FirstCallSendsOnce,
              StrictHashLanded, ReturnedIsLanded, NilThrowHidesDuplicate, Landed
<1> QED BY <1>1, <1>2

LEMMA SpecInv == Spec => []Inv
  BY InitInv, NextInv, PTL DEF Spec

\* The chain forgets nothing: no step of any job takes back what has landed.
LEMMA LandedStays ==
  ASSUME Inv, NEW j \in Job, Begin(j) \/ ConfirmStep(j) \/ ChainStep(j), NEW k \in Job
  PROVE  Landed(k) \subseteq Landed(k)'
<1> USE DEF Inv, TypeOK, Attempt, Landed
<1>1. CASE Broadcast(j)
  BY <1>1 DEF Broadcast, SentInOrder
<1>2. CASE ChainStep(j)
  BY <1>2 DEF ChainStep, Settle
<1>3. CASE Begin(j) \/ (ConfirmStep(j) /\ ~Broadcast(j))
  <2>1. txn' = txn
    BY <1>3 DEF Begin, ConfirmStep, SendReturns, SendThrows, PollFinds, PollFindsError,
                PollMisses, ResendReturns, ResendThrows
  <2> QED BY <2>1
<1> QED BY <1>1, <1>2, <1>3

\* A call chain that has ended stays where it ended.
LEMMA EndedStays ==
  ASSUME TypeOK, NEW j \in Job, Begin(j) \/ ConfirmStep(j) \/ ChainStep(j),
         NEW k \in Job, pc[k] \in Ended
  PROVE  pc'[k] = pc[k]
<1> USE DEF TypeOK, Ended
<1>1. CASE Begin(j)
  BY <1>1 DEF Begin
<1>2. CASE ConfirmStep(j)
  BY <1>2 DEF ConfirmStep, Broadcast, SendReturns, SendThrows, PollFinds, PollFindsError,
              PollMisses, ResendReturns, ResendThrows
<1>3. CASE ChainStep(j)
  BY <1>3 DEF ChainStep, Settle
<1> QED BY <1>1, <1>2, <1>3

\* Every variable of the confirmation keeps its type.
THEOREM TypeCorrect == Spec => []TypeOK
  BY SpecInv, PTL DEF Inv

\* confirmTxnWithRetry never returns the hash of a transaction that is not on
\* chain, for strict and other senders alike.
THEOREM ReturnedLanded == Spec => []ReturnedIsLanded
  BY SpecInv, PTL DEF Inv

\* Whenever confirmTxnWithRetry throws undefined for a strict sender, the
\* transaction's effect is on chain twice at least.
THEOREM NilThrowDuplicates == Spec => []NilThrowHidesDuplicate
  BY SpecInv, PTL DEF Inv

=============================================================================
