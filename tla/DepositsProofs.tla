--------------------------- MODULE DepositsProofs ---------------------------
(***************************************************************************)
(* What holds of deposits for any number of them, of deliveries of a       *)
(* payment's success, of runs of the callback, and of restarts, and of the *)
(* history of an account's credits for any transaction.                    *)
(***************************************************************************)
EXTENDS Deposits, TxnHistory, Sums, TLAPS

(***************************************************************************)
(* The inductive invariant: what a call has in memory, on which of its     *)
(* runs, and what the chain knows of the mint of each run.                 *)
(***************************************************************************)

\* A call that was started has a deposit, and a run once it has read it.
CallsValid ==
    \A h \in Call :
        /\ call[h].pc = "idle" <=> call[h].of = NoDeposit
        /\ call[h].pc = "idle" => call[h].run = 0
        /\ call[h].pc = "read" => call[h].run < MaxRun
        /\ call[h].pc \in {"send", "await", "save", "commit"} \/ call[h].modified
               => call[h].run >= 1

\* Every run mints once, and no later run has minted yet: a mint that was sent is
\* never sent again, so nothing on chain is lost sight of by sending.
RunsMintOnce ==
    \A h \in Call, i \in 1..MaxRun : credit[<<h, i>>] # "unsent" =>
        /\ i <= call[h].run
        /\ call[h].pc = "send" => i < call[h].run

\* A call that is to write Fulfilled, in the transaction or in the catch block, has
\* seen the mint of its current run land.
ClaimedIsLanded ==
    \A h \in Call : call[h].pc \in {"save", "commit"} \/ call[h].modified =>
        credit[CreditOf(h)] = "landed"

\* What a call that has ended leaves in the document stays there.
EndLeavesTrace ==
    \A h \in Call : /\ call[h].pc = "done" => doc[call[h].of].status = "fulfilled"
                    /\ call[h].pc = "failed" => doc[call[h].of].error

Inv ==
    /\ TypeOK
    /\ CallsValid
    /\ RunsMintOnce
    /\ ClaimedIsLanded
    /\ EndLeavesTrace
    /\ FulfilledIsMinted

LEMMA InitInv == Init => Inv
  BY DepositAssumption, RunAssumption, CreditAssumption
  DEF Init, Inv, TypeOK, CallsValid, RunsMintOnce, ClaimedIsLanded, EndLeavesTrace,
      FulfilledIsMinted, Credit, Running, Ended, CreditOf

(***************************************************************************)
(* Documents and calls keep their fields.                                  *)
(***************************************************************************)

DocState == [status : {"none", "pending", "fulfilled"}, txnHash : Credit \cup {NoCredit},
             error : BOOLEAN]
CallState == [pc : {"idle"} \cup Running \cup Ended, of : Deposit \cup {NoDeposit},
              run : 0..MaxRun, modified : BOOLEAN]

LEMMA DocFulfilled ==
  ASSUME NEW x \in DocState, NEW m \in Credit
  PROVE  /\ [x EXCEPT !.status = "fulfilled", !.txnHash = m] \in DocState
         /\ [x EXCEPT !.status = "fulfilled", !.txnHash = m].status = "fulfilled"
         /\ [x EXCEPT !.status = "fulfilled", !.txnHash = m].txnHash = m
         /\ [x EXCEPT !.status = "fulfilled", !.txnHash = m].error = x.error
  BY DEF DocState

LEMMA DocFailed ==
  ASSUME NEW x \in DocState
  PROVE  /\ [x EXCEPT !.error = TRUE] \in DocState
         /\ [x EXCEPT !.error = TRUE].status = x.status
         /\ [x EXCEPT !.error = TRUE].txnHash = x.txnHash
         /\ [x EXCEPT !.error = TRUE].error
  BY DEF DocState

LEMMA CallSaved ==
  ASSUME NEW x \in CallState
  PROVE  [x EXCEPT !.pc = "commit", !.modified = FALSE] \in CallState
  BY DEF CallState, Running

LEMMA CallReads ==
  ASSUME NEW x \in CallState, x.run < MaxRun
  PROVE  [x EXCEPT !.pc = "send", !.run = x.run + 1, !.modified = FALSE] \in CallState
<1>1. x.run + 1 \in 0..MaxRun
  BY RunAssumption DEF CallState
<1> QED BY <1>1 DEF CallState, Running

LEMMA CallEnds ==
  ASSUME NEW x \in CallState, NEW to \in Ended
  PROVE  [x EXCEPT !.pc = to] \in CallState
  BY DEF CallState

LEMMA StatesTyped ==
  TypeOK <=> /\ doc \in [Deposit -> DocState]
             /\ call \in [Call -> CallState]
             /\ credit \in [Credit -> {"unsent", "inflight", "landed", "failed", "expired"}]
             /\ crashes \in 0..MaxCrash
  BY DEF TypeOK, DocState, CallState

\* A call that has its mint, in the transaction or in the catch block, writes
\* Fulfilled to the deposit it is for, with the hash of credits on chain.
LEMMA WritesFulfilled ==
  ASSUME Inv, NEW h \in Call, call[h].pc = "commit" \/ call[h].modified
  PROVE  /\ call[h].of \in Deposit
         /\ CreditOf(h) \in Credit /\ credit[CreditOf(h)] = "landed"
         /\ Fulfilled(h) \in [Deposit -> DocState]
         /\ \A d \in Deposit : d # call[h].of => Fulfilled(h)[d] = doc[d]
         /\ Fulfilled(h)[call[h].of].status = "fulfilled"
         /\ Fulfilled(h)[call[h].of].txnHash = CreditOf(h)
         /\ Fulfilled(h)[call[h].of].error = doc[call[h].of].error
<1>1. call[h].of \in Deposit
  BY DEF Inv, TypeOK, CallsValid
<1>2. CreditOf(h) \in Credit /\ credit[CreditOf(h)] = "landed"
  BY RunAssumption DEF Inv, TypeOK, CallsValid, ClaimedIsLanded, CreditOf, Credit
<1>3. doc \in [Deposit -> DocState]
  BY StatesTyped DEF Inv
<1>4. Fulfilled(h) =
          [doc EXCEPT ![call[h].of] = [doc[call[h].of] EXCEPT !.status = "fulfilled",
                                                              !.txnHash = CreditOf(h)]]
  BY <1>1, <1>3 DEF Fulfilled
<1> DEFINE new == [doc[call[h].of] EXCEPT !.status = "fulfilled", !.txnHash = CreditOf(h)]
<1>5. /\ new \in DocState /\ new.status = "fulfilled"
      /\ new.txnHash = CreditOf(h) /\ new.error = doc[call[h].of].error
  BY <1>1, <1>2, <1>3, DocFulfilled
<1>6. Fulfilled(h) = [doc EXCEPT ![call[h].of] = new]
  BY <1>4
<1> HIDE DEF new
<1> QED BY <1>1, <1>2, <1>3, <1>5, <1>6

\* Buying and delivering.
LEMMA StartInv ==
  ASSUME Inv, \/ \E d \in Deposit : DepositCredits(d)
              \/ \E h \in Call, d \in Deposit : Delivers(h, d)
  PROVE  Inv'
<1> USE DepositAssumption, RunAssumption, CreditAssumption DEF Inv, Credit, Running, Ended
<1>1. ASSUME NEW d \in Deposit, DepositCredits(d) PROVE Inv'
  <2> USE <1>1 DEF DepositCredits
  <2>1. TypeOK'
    BY DEF TypeOK
  <2>2. CallsValid'
    BY DEF TypeOK, CallsValid
  <2>3. RunsMintOnce'
    BY DEF TypeOK, CallsValid, RunsMintOnce
  <2>4. ClaimedIsLanded'
    BY DEF TypeOK, CallsValid, RunsMintOnce, ClaimedIsLanded, CreditOf
  <2>5. EndLeavesTrace'
    BY DEF TypeOK, CallsValid, EndLeavesTrace
  <2>6. FulfilledIsMinted'
    BY DEF TypeOK, CallsValid, RunsMintOnce, ClaimedIsLanded, FulfilledIsMinted, CreditOf
  <2> QED BY <2>1, <2>2, <2>3, <2>4, <2>5, <2>6
<1>2. ASSUME NEW h \in Call, NEW d \in Deposit, Delivers(h, d) PROVE Inv'
  <2> USE <1>2 DEF Delivers
  <2>1. TypeOK'
    BY DEF TypeOK
  <2>2. CallsValid'
    BY DEF TypeOK, CallsValid
  <2>3. RunsMintOnce'
    BY DEF TypeOK, CallsValid, RunsMintOnce
  <2>4. ClaimedIsLanded'
    BY DEF TypeOK, CallsValid, RunsMintOnce, ClaimedIsLanded, CreditOf
  <2>5. EndLeavesTrace'
    BY DEF TypeOK, CallsValid, EndLeavesTrace
  <2>6. FulfilledIsMinted'
    BY DEF TypeOK, CallsValid, RunsMintOnce, ClaimedIsLanded, FulfilledIsMinted, CreditOf
  <2> QED BY <2>1, <2>2, <2>3, <2>4, <2>5, <2>6
<1> QED BY <1>1, <1>2

\* The steps of a run that write no document.
LEMMA RunInv ==
  ASSUME Inv, NEW h \in Call,
         \/ Reads(h) \/ ReadFails(h) \/ Broadcasts(h) \/ MintReturns(h) \/ MintThrows(h)
         \/ Saves(h) \/ AbortsTransiently(h) \/ SaveFails(h) \/ CatchFails(h)
  PROVE  Inv'
<1> USE DepositAssumption, RunAssumption, CreditAssumption DEF Inv, Credit, Running, Ended, Goes
<1>1. CASE Reads(h)
  <2>1. /\ call' = [call EXCEPT ![h] = [call[h] EXCEPT !.pc = "send", !.run = call[h].run + 1,
                                                       !.modified = FALSE]]
        /\ call[h].run < MaxRun
        /\ UNCHANGED <<doc, credit, crashes>>
    BY <1>1 DEF Reads, CallsValid
  <2>2. call \in [Call -> CallState] /\ call' \in [Call -> CallState]
    <3>1. call \in [Call -> CallState]
      BY StatesTyped
    <3> DEFINE next == [call[h] EXCEPT !.pc = "send", !.run = call[h].run + 1,
                                       !.modified = FALSE]
    <3>2. next \in CallState
      BY <2>1, <3>1, CallReads
    <3>3. call' = [call EXCEPT ![h] = next]
      BY <2>1
    <3> HIDE DEF next
    <3> QED BY <3>1, <3>2, <3>3
  <2>3. TypeOK'
    BY <2>1, <2>2 DEF TypeOK, CallState
  <2>4. /\ call'[h].pc = "send" /\ call'[h].run = call[h].run + 1
        /\ ~call'[h].modified /\ call'[h].of = call[h].of
        /\ \A g \in Call : g # h => call'[g] = call[g]
    BY <2>1, <2>2 DEF CallState
  <2>5. CallsValid' /\ RunsMintOnce'
    BY <1>1, <2>1, <2>4 DEF Reads, TypeOK, CallsValid, RunsMintOnce
  <2>6. ClaimedIsLanded' /\ EndLeavesTrace' /\ FulfilledIsMinted'
    BY <2>1, <2>4 DEF ClaimedIsLanded, CreditOf, EndLeavesTrace, FulfilledIsMinted
  <2> QED BY <2>3, <2>5, <2>6
<1>2. CASE ReadFails(h)
  <2> USE <1>2 DEF ReadFails
  <2>1. TypeOK'
    BY DEF TypeOK
  <2>2. CallsValid'
    BY DEF TypeOK, CallsValid
  <2>3. RunsMintOnce'
    BY DEF TypeOK, CallsValid, RunsMintOnce
  <2>4. ClaimedIsLanded'
    BY DEF TypeOK, CallsValid, RunsMintOnce, ClaimedIsLanded, CreditOf
  <2>5. EndLeavesTrace'
    BY DEF TypeOK, CallsValid, EndLeavesTrace
  <2>6. FulfilledIsMinted'
    BY DEF TypeOK, CallsValid, RunsMintOnce, ClaimedIsLanded, FulfilledIsMinted, CreditOf
  <2> QED BY <2>1, <2>2, <2>3, <2>4, <2>5, <2>6
<1>3. CASE Broadcasts(h)
  <2> USE <1>3 DEF Broadcasts
  <2>1. TypeOK'
    BY DEF TypeOK
  <2>2. CallsValid'
    BY DEF TypeOK, CallsValid
  <2>3. RunsMintOnce'
    <3>1. \A g \in Call, i \in 1..MaxRun :
              credit'[<<g, i>>] # credit[<<g, i>>] => g = h /\ i = call[h].run
      BY DEF TypeOK, CreditOf
    <3>2. /\ call'[h].pc = "await"
          /\ \A g \in Call : call'[g].run = call[g].run /\ (g # h => call'[g].pc = call[g].pc)
      BY DEF TypeOK
    <3> QED BY <3>1, <3>2 DEF TypeOK, RunsMintOnce
  <2>4. ClaimedIsLanded'
    BY DEF TypeOK, CallsValid, RunsMintOnce, ClaimedIsLanded, CreditOf
  <2>5. EndLeavesTrace'
    BY DEF TypeOK, CallsValid, EndLeavesTrace
  <2>6. FulfilledIsMinted'
    BY DEF TypeOK, CallsValid, RunsMintOnce, ClaimedIsLanded, FulfilledIsMinted, CreditOf
  <2> QED BY <2>1, <2>2, <2>3, <2>4, <2>5, <2>6
<1>4. CASE MintReturns(h)
  <2> USE <1>4 DEF MintReturns
  <2>1. TypeOK'
    BY DEF TypeOK
  <2>2. CallsValid'
    BY DEF TypeOK, CallsValid
  <2>3. RunsMintOnce'
    BY DEF TypeOK, CallsValid, RunsMintOnce
  <2>4. ClaimedIsLanded'
    BY DEF TypeOK, CallsValid, RunsMintOnce, ClaimedIsLanded, CreditOf
  <2>5. EndLeavesTrace'
    BY DEF TypeOK, CallsValid, EndLeavesTrace
  <2>6. FulfilledIsMinted'
    BY DEF TypeOK, CallsValid, RunsMintOnce, ClaimedIsLanded, FulfilledIsMinted, CreditOf
  <2> QED BY <2>1, <2>2, <2>3, <2>4, <2>5, <2>6
<1>5. CASE MintThrows(h)
  <2> USE <1>5 DEF MintThrows
  <2>1. TypeOK'
    BY DEF TypeOK
  <2>2. CallsValid'
    BY DEF TypeOK, CallsValid
  <2>3. RunsMintOnce'
    BY DEF TypeOK, CallsValid, RunsMintOnce
  <2>4. ClaimedIsLanded'
    BY DEF TypeOK, CallsValid, RunsMintOnce, ClaimedIsLanded, CreditOf
  <2>5. EndLeavesTrace'
    BY DEF TypeOK, CallsValid, EndLeavesTrace
  <2>6. FulfilledIsMinted'
    BY DEF TypeOK, CallsValid, RunsMintOnce, ClaimedIsLanded, FulfilledIsMinted, CreditOf
  <2> QED BY <2>1, <2>2, <2>3, <2>4, <2>5, <2>6
<1>6. CASE Saves(h)
  <2> USE <1>6 DEF Saves
  <2>1. TypeOK'
    <3>1. call \in [Call -> CallState]
      BY StatesTyped
    <3> DEFINE next == [call[h] EXCEPT !.pc = "commit", !.modified = FALSE]
    <3>2. next \in CallState
      BY <3>1, CallSaved
    <3>3. call' = [call EXCEPT ![h] = next]
      OBVIOUS
    <3> HIDE DEF next
    <3>4. call' \in [Call -> CallState]
      BY <3>1, <3>2, <3>3
    <3> QED BY <3>4 DEF TypeOK, CallState
  <2>2. CallsValid'
    BY DEF TypeOK, CallsValid
  <2>3. RunsMintOnce'
    BY DEF TypeOK, CallsValid, RunsMintOnce
  <2>4. ClaimedIsLanded'
    BY DEF TypeOK, CallsValid, RunsMintOnce, ClaimedIsLanded, CreditOf
  <2>5. EndLeavesTrace'
    BY DEF TypeOK, CallsValid, EndLeavesTrace
  <2>6. FulfilledIsMinted'
    BY DEF TypeOK, CallsValid, RunsMintOnce, ClaimedIsLanded, FulfilledIsMinted, CreditOf
  <2> QED BY <2>1, <2>2, <2>3, <2>4, <2>5, <2>6
<1>7. CASE AbortsTransiently(h)
  <2> USE <1>7 DEF AbortsTransiently
  <2>1. TypeOK'
    BY DEF TypeOK
  <2>2. CallsValid'
    BY DEF TypeOK, CallsValid
  <2>3. RunsMintOnce'
    BY DEF TypeOK, CallsValid, RunsMintOnce
  <2>4. ClaimedIsLanded'
    BY DEF TypeOK, CallsValid, RunsMintOnce, ClaimedIsLanded, CreditOf
  <2>5. EndLeavesTrace'
    BY DEF TypeOK, CallsValid, EndLeavesTrace
  <2>6. FulfilledIsMinted'
    BY DEF TypeOK, CallsValid, RunsMintOnce, ClaimedIsLanded, FulfilledIsMinted, CreditOf
  <2> QED BY <2>1, <2>2, <2>3, <2>4, <2>5, <2>6
<1>8. CASE SaveFails(h)
  <2> USE <1>8 DEF SaveFails
  <2>1. TypeOK'
    BY DEF TypeOK
  <2>2. CallsValid'
    BY DEF TypeOK, CallsValid
  <2>3. RunsMintOnce'
    BY DEF TypeOK, CallsValid, RunsMintOnce
  <2>4. ClaimedIsLanded'
    BY DEF TypeOK, CallsValid, RunsMintOnce, ClaimedIsLanded, CreditOf
  <2>5. EndLeavesTrace'
    BY DEF TypeOK, CallsValid, EndLeavesTrace
  <2>6. FulfilledIsMinted'
    BY DEF TypeOK, CallsValid, RunsMintOnce, ClaimedIsLanded, FulfilledIsMinted, CreditOf
  <2> QED BY <2>1, <2>2, <2>3, <2>4, <2>5, <2>6
<1>9. CASE CatchFails(h)
  <2> USE <1>9 DEF CatchFails
  <2>1. TypeOK'
    BY DEF TypeOK
  <2>2. CallsValid'
    BY DEF TypeOK, CallsValid
  <2>3. RunsMintOnce'
    BY DEF TypeOK, CallsValid, RunsMintOnce
  <2>4. ClaimedIsLanded'
    BY DEF TypeOK, CallsValid, RunsMintOnce, ClaimedIsLanded, CreditOf
  <2>5. EndLeavesTrace'
    BY DEF TypeOK, CallsValid, EndLeavesTrace
  <2>6. FulfilledIsMinted'
    BY DEF TypeOK, CallsValid, RunsMintOnce, ClaimedIsLanded, FulfilledIsMinted, CreditOf
  <2> QED BY <2>1, <2>2, <2>3, <2>4, <2>5, <2>6
<1> QED BY <1>1, <1>2, <1>3, <1>4, <1>5, <1>6, <1>7, <1>8, <1>9

\* What a document may turn into: it keeps Fulfilled and the error, and a Fulfilled
\* it gets comes with the hash of credits on chain.
Follows(new) ==
    \A d \in Deposit :
        /\ doc[d].status = "fulfilled" => new[d].status = "fulfilled"
        /\ doc[d].error => new[d].error
        /\ new[d].status = "fulfilled" =>
               \/ doc[d].status = "fulfilled" /\ new[d].txnHash = doc[d].txnHash
               \/ new[d].txnHash \in Credit /\ credit[new[d].txnHash] = "landed"

\* The steps that write the document leave it well formed and follow it.
LEMMA WriteFollows ==
  ASSUME Inv, NEW h \in Call, Commits(h) \/ CommitFails(h) \/ CatchSaves(h)
  PROVE  /\ doc' \in [Deposit -> DocState]
         /\ Follows(doc')
         /\ Commits(h) => doc'[call[h].of].status = "fulfilled"
         /\ CatchSaves(h) => doc'[call[h].of].error
<1>1. doc \in [Deposit -> DocState] /\ Follows(doc)
  BY StatesTyped DEF Inv, Follows
<1>2. ASSUME call[h].pc = "commit" \/ call[h].modified
      PROVE  /\ Fulfilled(h) \in [Deposit -> DocState] /\ Follows(Fulfilled(h))
             /\ Fulfilled(h)[call[h].of].status = "fulfilled"
  <2>1. \A d \in Deposit :
            \/ Fulfilled(h)[d] = doc[d]
            \/ /\ Fulfilled(h)[d].status = "fulfilled"
               /\ Fulfilled(h)[d].txnHash = CreditOf(h)
               /\ Fulfilled(h)[d].error = doc[d].error
    BY <1>2, WritesFulfilled
  <2> QED BY <1>2, <2>1, WritesFulfilled DEF Follows
<1>3. CASE Commits(h)
  BY <1>2, <1>3 DEF Commits, CatchSaves
<1>4. CASE CommitFails(h)
  BY <1>1, <1>2, <1>4 DEF CommitFails, Commits, CatchSaves
<1>5. CASE CatchSaves(h)
  <2>1. call[h].of \in Deposit
    BY <1>5 DEF CatchSaves, Inv, TypeOK, CallsValid
  <2> DEFINE base == IF call[h].modified THEN Fulfilled(h) ELSE doc
  <2>2. base \in [Deposit -> DocState] /\ Follows(base)
    BY <1>1, <1>2
  <2>3. doc' = [base EXCEPT ![call[h].of].error = TRUE]
    BY <1>5 DEF CatchSaves
  <2> HIDE DEF base
  <2> DEFINE new == [base[call[h].of] EXCEPT !.error = TRUE]
  <2>4. /\ new \in DocState /\ new.error
        /\ new.status = base[call[h].of].status
        /\ new.txnHash = base[call[h].of].txnHash
    BY <2>1, <2>2, DocFailed
  <2>5. doc' = [base EXCEPT ![call[h].of] = new]
    BY <2>1, <2>2, <2>3
  <2> HIDE DEF new
  <2>6. doc' \in [Deposit -> DocState] /\ doc'[call[h].of].error
    BY <2>1, <2>2, <2>4, <2>5
  <2>7. \A d \in Deposit : /\ doc'[d].status = base[d].status
                           /\ doc'[d].txnHash = base[d].txnHash
                           /\ doc'[d].error = base[d].error \/ doc'[d].error
    BY <2>1, <2>2, <2>4, <2>5
  <2>8. Follows(doc')
    BY <2>2, <2>7 DEF Follows
  <2> QED BY <1>5, <2>6, <2>8 DEF CatchSaves, Commits
<1> QED BY <1>3, <1>4, <1>5

LEMMA WriteInv ==
  ASSUME Inv, NEW h \in Call, Commits(h) \/ CommitFails(h) \/ CatchSaves(h)
  PROVE  Inv'
<1> USE DepositAssumption, RunAssumption, CreditAssumption DEF Inv, Credit, Running, Ended
<1>1. PICK to \in {"done", "catch", "failed"} :
          /\ call' = [call EXCEPT ![h].pc = to]
          /\ UNCHANGED <<credit, crashes>>
          /\ call[h].pc \in {"commit", "catch"}
          /\ to = "done" => Commits(h)
          /\ to = "failed" => CatchSaves(h)
  BY DEF Commits, CommitFails, CatchSaves, Goes
<1>2. TypeOK'
  <2>1. call' \in [Call -> [pc : {"idle"} \cup Running \cup Ended,
                            of : Deposit \cup {NoDeposit},
                            run : 0..MaxRun, modified : BOOLEAN]]
    BY <1>1 DEF TypeOK
  <2> QED BY <1>1, <2>1, WriteFollows DEF TypeOK, DocState
<1>3. CallsValid'
  BY <1>1 DEF TypeOK, CallsValid
<1>4. RunsMintOnce'
  BY <1>1 DEF TypeOK, RunsMintOnce
<1>5. ClaimedIsLanded'
  BY <1>1 DEF TypeOK, ClaimedIsLanded, CreditOf
<1>6. EndLeavesTrace'
  BY <1>1, WriteFollows DEF TypeOK, CallsValid, EndLeavesTrace, Follows
<1>7. FulfilledIsMinted'
  BY <1>1, WriteFollows DEF FulfilledIsMinted, Follows
<1> QED BY <1>2, <1>3, <1>4, <1>5, <1>6, <1>7

\* The chain, and restarts.
LEMMA OtherInv ==
  ASSUME Inv, \/ \E m \in Credit : ChainSettles(m)
              \/ Crash
              \/ UNCHANGED vars
  PROVE  Inv'
<1> USE DepositAssumption, RunAssumption, CreditAssumption DEF Inv, Credit, Running, Ended
<1>1. ASSUME NEW m \in Credit, ChainSettles(m) PROVE Inv'
  <2> USE <1>1 DEF ChainSettles
  <2>1. TypeOK'
    BY DEF TypeOK
  <2>2. CallsValid'
    BY DEF TypeOK, CallsValid
  <2>3. RunsMintOnce'
    BY DEF TypeOK, CallsValid, RunsMintOnce
  <2>4. ClaimedIsLanded'
    BY DEF TypeOK, CallsValid, RunsMintOnce, ClaimedIsLanded, CreditOf
  <2>5. EndLeavesTrace'
    BY DEF TypeOK, CallsValid, EndLeavesTrace
  <2>6. FulfilledIsMinted'
    BY DEF TypeOK, CallsValid, RunsMintOnce, ClaimedIsLanded, FulfilledIsMinted, CreditOf
  <2> QED BY <2>1, <2>2, <2>3, <2>4, <2>5, <2>6
<1>2. CASE Crash
  <2> USE <1>2 DEF Crash
  <2>1. TypeOK'
    <3>1. call \in [Call -> CallState]
      BY StatesTyped
    <3>2. \A h \in Call : [call[h] EXCEPT !.pc = "dead"] \in CallState
      BY <3>1, CallEnds
    <3>3. call' \in [Call -> CallState]
      BY <3>1, <3>2
    <3>4. UNCHANGED <<doc, credit>> /\ crashes' \in 0..MaxCrash
      BY DEF TypeOK
    <3> QED BY <3>3, <3>4 DEF TypeOK, CallState
  <2>2. CallsValid'
    BY DEF TypeOK, CallsValid
  <2>3. RunsMintOnce'
    BY DEF TypeOK, CallsValid, RunsMintOnce
  <2>4. ClaimedIsLanded'
    BY DEF TypeOK, CallsValid, RunsMintOnce, ClaimedIsLanded, CreditOf
  <2>5. EndLeavesTrace'
    BY DEF TypeOK, CallsValid, EndLeavesTrace
  <2>6. FulfilledIsMinted'
    BY DEF TypeOK, CallsValid, RunsMintOnce, ClaimedIsLanded, FulfilledIsMinted, CreditOf
  <2> QED BY <2>1, <2>2, <2>3, <2>4, <2>5, <2>6
<1>3. CASE UNCHANGED vars
  <2> USE <1>3 DEF vars
  <2>1. TypeOK'
    BY DEF TypeOK
  <2>2. CallsValid'
    BY DEF TypeOK, CallsValid
  <2>3. RunsMintOnce'
    BY DEF TypeOK, CallsValid, RunsMintOnce
  <2>4. ClaimedIsLanded'
    BY DEF TypeOK, CallsValid, RunsMintOnce, ClaimedIsLanded, CreditOf
  <2>5. EndLeavesTrace'
    BY DEF TypeOK, CallsValid, EndLeavesTrace
  <2>6. FulfilledIsMinted'
    BY DEF TypeOK, CallsValid, RunsMintOnce, ClaimedIsLanded, FulfilledIsMinted, CreditOf
  <2> QED BY <2>1, <2>2, <2>3, <2>4, <2>5, <2>6
<1> QED BY <1>1, <1>2, <1>3

LEMMA NextInv == Inv /\ [Next]_vars => Inv'
  BY StartInv, RunInv, WriteInv, OtherInv DEF Next, CallStep

LEMMA SpecInv == Spec => []Inv
  BY InitInv, NextInv, PTL DEF Spec

(***************************************************************************)
(* The theorems.                                                           *)
(***************************************************************************)

\* Documents, calls and the chain keep the shape handleDeposit gives them.
THEOREM StateCorrect == Spec => []TypeOK
  BY SpecInv, PTL DEF Inv

\* The hash of a fulfilled deposit is that of credits on chain, for any number of
\* deliveries and of runs of the transaction's callback.
THEOREM FulfilledMinted == Spec => []FulfilledIsMinted
  BY SpecInv, PTL DEF Inv

\* Credits on chain leave a trace in their deposit: Fulfilled or an error, unless
\* their call is still running, died, or could not save its error.
THEOREM MintLeavesTrace == Spec => []MintedLeavesTrace
<1>1. Inv => MintedLeavesTrace
  <2> SUFFICES ASSUME Inv, NEW m \in Credit, credit[m] = "landed"
               PROVE  \/ doc[call[m[1]].of].status = "fulfilled"
                      \/ doc[call[m[1]].of].error
                      \/ call[m[1]].pc \in Running \cup {"lost", "dead"}
    BY DEF MintedLeavesTrace
  <2>1. PICK h \in Call, i \in 1..MaxRun : m = <<h, i>>
    BY DEF Credit
  <2>2. call[h].run >= 1
    BY <2>1, RunAssumption DEF Inv, RunsMintOnce, TypeOK
  <2>3. call[h].pc # "idle"
    BY <2>2 DEF Inv, CallsValid
  <2>4. call[h].pc \in {"idle"} \cup Running \cup Ended
    BY DEF Inv, TypeOK
  <2> QED BY <2>1, <2>3, <2>4 DEF Inv, EndLeavesTrace, Ended
<1> QED BY <1>1, SpecInv, PTL

\* No other call's late save or error takes Fulfilled back.
THEOREM FulfilledStays == Spec => FulfilledIsFinal
<1>1. Inv /\ [Next]_vars =>
          [\A d \in Deposit :
              doc[d].status = "fulfilled" => doc'[d].status = "fulfilled"]_vars
  <2> SUFFICES ASSUME Inv, Next, NEW d \in Deposit, doc[d].status = "fulfilled"
               PROVE  doc'[d].status = "fulfilled"
    OBVIOUS
  <2>1. ASSUME NEW e \in Deposit, DepositCredits(e) PROVE doc'[d].status = "fulfilled"
    BY <2>1 DEF DepositCredits, Inv, TypeOK
  <2>2. ASSUME NEW h \in Call, Commits(h) \/ CommitFails(h) \/ CatchSaves(h)
        PROVE  doc'[d].status = "fulfilled"
    BY <2>2, WriteFollows DEF Follows
  <2>3. CASE UNCHANGED doc
    BY <2>3
  <2> QED
    BY <2>1, <2>2, <2>3
    DEF Next, CallStep, Delivers, Reads, ReadFails, Broadcasts, MintReturns, MintThrows,
        Saves, AbortsTransiently, SaveFails, CatchFails, ChainSettles, Crash
<1> QED BY <1>1, SpecInv, PTL DEF Spec, FulfilledIsFinal

(***************************************************************************)
(* The history of an account's credits: what its items add up to is what   *)
(* the loops of the code have added up after each turn.                    *)
(***************************************************************************)

Texts == {"Received", "Commission", "Sent", "Deposited", "Withdrawn", "Burnt"}

\* Items that read Received are of amounts that came in.
Item == {x \in [amount : Int, description : Texts] :
            x.description = "Received" => x.amount >= 0}

LEMMA PlacesOf ==
    ASSUME NEW s \in Seq(Item)
    PROVE  /\ Len(s) \in Nat /\ DOMAIN s = 1..Len(s) /\ IsFiniteSet(1..Len(s))
           /\ \A i \in 1..Len(s) : s[i] \in Item /\ s[i].amount \in Int
<1>1. Len(s) \in Nat /\ DOMAIN s = 1..Len(s) /\ \A i \in 1..Len(s) : s[i] \in Item
  OBVIOUS
<1>2. IsFiniteSet(1..Len(s))
  <2>1. 1 \in Int /\ Len(s) \in Int
    BY <1>1
  <2> QED BY <2>1, FS_Interval
<1>3. \A x \in Item : x.amount \in Int
  BY DEF Item
<1> QED BY <1>1, <1>2, <1>3

LEMMA AmountsInt ==
    ASSUME NEW s \in Seq(Item)
    PROVE  Amounts(s) \in Int
<1> DEFINE f == [j \in DOMAIN s |-> s[j].amount]
<1>1. \A i \in DOMAIN s : f[i] \in Int
  BY PlacesOf
<1>2. IsFiniteSet(DOMAIN s)
  BY PlacesOf
<1> HIDE DEF f
<1>3. SumFunctionOnSet(f, DOMAIN s) \in Int
  BY <1>1, <1>2, SumIsInt
<1> QED BY <1>3 DEF f, Amounts

\* An item more at the end.
LEMMA AmountsAppend ==
    ASSUME NEW s \in Seq(Item), NEW x \in Item
    PROVE  Append(s, x) \in Seq(Item) /\ Amounts(Append(s, x)) = Amounts(s) + x.amount
<1> DEFINE n == Len(s)
           t == Append(s, x)
           f == [j \in DOMAIN s |-> s[j].amount]
           g == [j \in DOMAIN t |-> t[j].amount]
<1>1. /\ t \in Seq(Item) /\ n \in Nat /\ DOMAIN s = 1..n /\ DOMAIN t = 1..(n + 1)
      /\ IsFiniteSet(1..n)
      /\ t[n + 1] = x /\ \A i \in 1..n : t[i] = s[i] /\ s[i].amount \in Int
  <2>1. t \in Seq(Item) /\ Len(t) = n + 1 /\ t[n + 1] = x /\ \A i \in 1..n : t[i] = s[i]
    OBVIOUS
  <2>2. DOMAIN t = 1..Len(t)
    BY <2>1, PlacesOf
  <2> HIDE DEF t
  <2> QED BY <2>1, <2>2, PlacesOf
<1>2. x.amount \in Int
  BY DEF Item
<1> HIDE DEF t, n
<1>3. /\ \A i \in 1..n : f[i] = g[i] /\ g[i] \in Int
      /\ g[n + 1] = x.amount
  BY <1>1
<1>4. Amounts(s) = SumFunctionOnSet(f, 1..n) /\ Amounts(t) = SumFunctionOnSet(g, 1..(n + 1))
  BY <1>1 DEF Amounts
<1> HIDE DEF f, g
<1>5. SumFunctionOnSet(f, 1..n) = SumFunctionOnSet(g, 1..n)
  BY <1>1, <1>3, SumSame
<1>6. 1..(n + 1) = (1..n) \cup {n + 1} /\ n + 1 \notin 1..n
  BY <1>1
<1>7. SumFunctionOnSet(g, (1..n) \cup {n + 1}) = g[n + 1] + SumFunctionOnSet(g, 1..n)
  BY <1>1, <1>2, <1>3, <1>6, SumWith
<1>8. Amounts(s) \in Int
  BY AmountsInt
<1>9. Amounts(t) = x.amount + Amounts(s)
  BY <1>3, <1>4, <1>5, <1>6, <1>7
<1>10. Amounts(t) = Amounts(s) + x.amount
  BY <1>2, <1>8, <1>9
<1> QED BY <1>1, <1>10 DEF t

\* An item more at the beginning.
LEMMA AmountsPrepend ==
    ASSUME NEW s \in Seq(Item), NEW x \in Item
    PROVE  <<x>> \o s \in Seq(Item) /\ Amounts(<<x>> \o s) = Amounts(s) + x.amount
<1> DEFINE n == Len(s)
           t == <<x>> \o s
           f == [j \in DOMAIN s |-> s[j].amount]
           g == [j \in DOMAIN t |-> t[j].amount]
<1>1. /\ t \in Seq(Item) /\ n \in Nat /\ DOMAIN s = 1..n /\ DOMAIN t = 1..(n + 1)
      /\ t[1] = x /\ \A i \in 1..n : t[1 + i] = s[i] /\ s[i].amount \in Int
  <2>1. t \in Seq(Item) /\ Len(t) = n + 1 /\ t[1] = x /\ \A i \in 1..n : t[1 + i] = s[i]
    OBVIOUS
  <2>2. DOMAIN t = 1..Len(t)
    BY <2>1, PlacesOf
  <2> HIDE DEF t
  <2> QED BY <2>1, <2>2, PlacesOf
<1>2. x.amount \in Int
  BY DEF Item
<1> HIDE DEF t, n
<1>3. \A i \in 1..n : f[i] \in Int /\ f[i] = g[1 + i]
  <2>1. \A i \in 1..n : 1 + i \in 1..(n + 1)
    BY <1>1
  <2> QED BY <1>1, <2>1
<1>4. g[1] = x.amount
  <2>1. 1 \in 1..(n + 1)
    BY <1>1
  <2> QED BY <1>1, <2>1
<1>5. Amounts(s) = SumFunctionOnSet(f, 1..n) /\ Amounts(t) = SumFunctionOnSet(g, 1..(n + 1))
  BY <1>1 DEF Amounts
<1> HIDE DEF f, g
<1>6. SumFunctionOnSet(f, 1..n) = SumFunctionOnSet(g, (1 + 1)..(1 + n))
  <2>1. Shifted(f, g, 1, n)
    BY <1>3 DEF Shifted
  <2> QED BY <1>1, <2>1, SumShifted
<1>7. /\ 1..(n + 1) = ((1 + 1)..(1 + n)) \cup {1} /\ 1 \notin (1 + 1)..(1 + n)
      /\ IsFiniteSet((1 + 1)..(1 + n))
  <2>1. 1 + 1 \in Int /\ 1 + n \in Int
    BY <1>1
  <2>2. IsFiniteSet((1 + 1)..(1 + n))
    BY <2>1, FS_Interval
  <2> QED BY <1>1, <2>2
<1>8. \A j \in (1 + 1)..(1 + n) : g[j] \in Int
  <2> SUFFICES ASSUME NEW j \in (1 + 1)..(1 + n) PROVE g[j] \in Int
    OBVIOUS
  <2>1. j - 1 \in 1..n /\ 1 + (j - 1) = j
    BY <1>1
  <2> QED BY <1>3, <2>1
<1>9. SumFunctionOnSet(g, ((1 + 1)..(1 + n)) \cup {1})
          = g[1] + SumFunctionOnSet(g, (1 + 1)..(1 + n))
  BY <1>2, <1>4, <1>7, <1>8, SumWith
<1>10. Amounts(s) \in Int
  BY AmountsInt
<1>11. Amounts(t) = x.amount + Amounts(s)
  BY <1>4, <1>5, <1>6, <1>7, <1>9
<1>12. Amounts(t) = Amounts(s) + x.amount
  BY <1>2, <1>10, <1>11
<1> QED BY <1>1, <1>12 DEF t

(***************************************************************************)
(* The loop that leaves items out.                                         *)
(***************************************************************************)

Pushed(known, history, item) ==
    IF item.description # "Received" \/ known THEN Append(history, item) ELSE history

ShownAmount(known, item) ==
    IF item.description # "Received" \/ known THEN item.amount ELSE 0

\* What is shown adds up to the amounts of the items that are not left out.
LEMMA ShownAddsUp ==
    ASSUME NEW known \in BOOLEAN, NEW s \in Seq(Item)
    PROVE  LET Push(history, item) == IF item.description # "Received" \/ known
                                      THEN Append(history, item) ELSE history
           IN  Amounts(FoldLeft(Push, <<>>, s))
                   = SumFunctionOnSet([j \in DOMAIN s |-> ShownAmount(known, s[j])], DOMAIN s)
<1> DEFINE n == Len(s)
           V == Seq(Item)
           G == [p \in (1..n) \X V |-> Pushed(known, p[2], s[p[1]])]
           Push(history, item) == IF item.description # "Received" \/ known
                                  THEN Append(history, item) ELSE history
           Is(h) == h = [S \in SUBSET DOMAIN s |->
                            IF S = {} THEN <<>> ELSE Pushed(known, h[S \ {Top(S)}], s[Top(S)])]
           it == CHOOSE h : Is(h)
           f == [j \in DOMAIN s |-> ShownAmount(known, s[j])]
<1>1. /\ n \in Nat /\ DOMAIN s = 1..n
      /\ \A i \in 1..n : s[i] \in Item /\ s[i].amount \in Int
  BY PlacesOf
<1>2. FoldLeft(Push, <<>>, s) = it[DOMAIN s]
  BY DEF FoldLeft, MapThenFoldSet, Max, Top, Pushed
<1> HIDE DEF n
<1>3. G \in [(1..n) \X V -> V] /\ <<>> \in V
  <2>1. ASSUME NEW h \in V, NEW i \in 1..n PROVE Pushed(known, h, s[i]) \in V
    BY <1>1 DEF Pushed
  <2> HIDE DEF V
  <2>2. G \in [(1..n) \X V -> V]
    BY <2>1
  <2> QED BY <2>2 DEF V
<1> HIDE DEF V
<1>4. PICK g \in [SUBSET (1..n) -> V] : IsFold(G, <<>>, g, n)
  <2> HIDE DEF G
  <2> QED BY <1>1, <1>3, FoldExists
<1>5. ASSUME NEW h, NEW S \in SUBSET (1..n), S # {}, h[S \ {Top(S)}] \in V
      PROVE  /\ Top(S) \in 1..n
             /\ G[<<Top(S), h[S \ {Top(S)}]>>] = Pushed(known, h[S \ {Top(S)}], s[Top(S)])
  <2>1. Top(S) \in 1..n
    BY <1>1, <1>5, LastPlace
  <2>2. <<Top(S), h[S \ {Top(S)}]>> \in (1..n) \X V
    BY <1>5, <2>1
  <2> QED BY <2>1, <2>2
<1>6. Is(g)
  <2>1. ASSUME NEW S \in SUBSET (1..n), S # {}
        PROVE  G[<<Top(S), g[S \ {Top(S)}]>>] = Pushed(known, g[S \ {Top(S)}], s[Top(S)])
    <3>1. g[S \ {Top(S)}] \in V
      OBVIOUS
    <3> QED BY <1>5, <2>1, <3>1
  <2> HIDE DEF G
  <2> QED BY <1>1, <1>4, <2>1 DEF IsFold, Turn
<1>7. Is(it)
  <2> HIDE DEF Is
  <2> QED BY <1>6
<1>8. TakesTurns(V, G, <<>>, it, n)
  <2>1. it[{}] = <<>>
    BY <1>7
  <2>2. ASSUME NEW S \in SUBSET (1..n), S # {}, it[S \ {Top(S)}] \in V
        PROVE  it[S] = G[<<Top(S), it[S \ {Top(S)}]>>]
    <3>1. it[S] = Pushed(known, it[S \ {Top(S)}], s[Top(S)])
      <4> HIDE DEF it
      <4> QED BY <1>1, <1>7, <2>2
    <3> HIDE DEF it, G
    <3> QED BY <1>5, <2>2, <3>1
  <2> HIDE DEF it, G
  <2>3. FoldsIn(V, G, <<>>, it, n)
    BY <2>1, <2>2 DEF FoldsIn
  <2> QED BY <1>1, <1>3, <2>3, FoldTurns
<1>9. \A i \in 1..n : f[i] \in Int /\ f[i] = ShownAmount(known, s[i])
  BY <1>1 DEF ShownAmount
<1> HIDE DEF it, f, Is
<1> DEFINE N == {k \in Nat : k <= n => Amounts(it[1..k]) = SumFunctionOnSet(f, 1..k)}
<1>10. 0 \in N
  <2>1. 1..0 = {} /\ it[1..0] = <<>>
    BY <1>8 DEF TakesTurns
  <2>2. Amounts(<<>>) = 0
    <3>1. DOMAIN <<>> = {}
      OBVIOUS
    <3> QED BY <3>1, SumOfNone DEF Amounts
  <2> QED BY <2>1, <2>2, SumOfNone
<1>11. ASSUME NEW k \in N PROVE k + 1 \in N
  <2> SUFFICES ASSUME k + 1 <= n
               PROVE  Amounts(it[1..(k + 1)]) = SumFunctionOnSet(f, 1..(k + 1))
    OBVIOUS
  <2>1. k \in Nat /\ k \in 0..(n - 1) /\ k \in 0..n /\ k + 1 \in 1..n /\ k <= n
    BY <1>1
  <2>2. it[1..k] \in V /\ Amounts(it[1..k]) = SumFunctionOnSet(f, 1..k)
    BY <1>8, <2>1 DEF TakesTurns
  <2>3. it[1..(k + 1)] = Pushed(known, it[1..k], s[k + 1])
    <3>1. G[<<k + 1, it[1..k]>>] = Pushed(known, it[1..k], s[k + 1])
      <4>1. <<k + 1, it[1..k]>> \in (1..n) \X V
        BY <2>1, <2>2
      <4> QED BY <4>1
    <3> HIDE DEF G
    <3> QED BY <1>8, <2>1, <3>1 DEF TakesTurns
  <2>4. Amounts(it[1..(k + 1)]) = f[k + 1] + SumFunctionOnSet(f, 1..k)
    <3>1. s[k + 1] \in Item /\ s[k + 1].amount \in Int /\ it[1..k] \in Seq(Item)
      BY <1>1, <2>1, <2>2 DEF V
    <3>2. f[k + 1] = ShownAmount(known, s[k + 1])
      BY <1>9, <2>1
    <3>3. Amounts(it[1..k]) \in Int
      BY <3>1, AmountsInt
    <3>4. CASE s[k + 1].description # "Received" \/ known
      <4>1. Amounts(Append(it[1..k], s[k + 1])) = Amounts(it[1..k]) + s[k + 1].amount
        BY <3>1, AmountsAppend
      <4>2. it[1..(k + 1)] = Append(it[1..k], s[k + 1]) /\ f[k + 1] = s[k + 1].amount
        BY <2>3, <3>2, <3>4 DEF Pushed, ShownAmount
      <4>3. Amounts(it[1..(k + 1)]) = Amounts(it[1..k]) + f[k + 1]
        BY <4>1, <4>2
      <4>4. Amounts(it[1..k]) + f[k + 1] = f[k + 1] + Amounts(it[1..k])
        BY <3>1, <3>3, <4>2
      <4> QED BY <2>2, <4>3, <4>4
    <3>5. CASE ~(s[k + 1].description # "Received" \/ known)
      <4>1. it[1..(k + 1)] = it[1..k] /\ f[k + 1] = 0
        BY <2>3, <3>2, <3>5 DEF Pushed, ShownAmount
      <4>2. Amounts(it[1..k]) = 0 + Amounts(it[1..k])
        BY <3>3
      <4> QED BY <2>2, <4>1, <4>2
    <3> QED BY <3>4, <3>5
  <2>5. SumFunctionOnSet(f, 1..(k + 1)) = f[k + 1] + SumFunctionOnSet(f, 1..k)
    <3>1. 1..(k + 1) = (1..k) \cup {k + 1} /\ k + 1 \notin 1..k
      BY <2>1
    <3>2. IsFiniteSet(1..k)
      <4>1. 1 \in Int /\ k \in Int
        BY <2>1
      <4> QED BY <4>1, FS_Interval
    <3>3. f[k + 1] \in Int /\ \A i \in 1..k : f[i] \in Int
      <4>1. \A i \in 1..k : i \in 1..n
        BY <1>1, <2>1
      <4> QED BY <1>9, <2>1, <4>1
    <3>4. SumFunctionOnSet(f, (1..k) \cup {k + 1}) = f[k + 1] + SumFunctionOnSet(f, 1..k)
      BY <3>1, <3>2, <3>3, SumWith
    <3> QED BY <3>1, <3>4
  <2> QED BY <2>4, <2>5
<1>12. Amounts(it[1..n]) = SumFunctionOnSet(f, 1..n)
  <2>1. n \in N /\ n <= n
    <3>1. N = Nat
      <4> HIDE DEF N
      <4>1. N \in SUBSET Nat
        BY DEF N
      <4> QED BY <1>10, <1>11, <4>1, NumbersInduction
    <3> QED BY <1>1, <3>1
  <2> QED BY <2>1
<1> QED BY <1>1, <1>2, <1>12 DEF f

(***************************************************************************)
(* The loop that makes items of instructions.                              *)
(***************************************************************************)

Built == [description : Texts, items : Seq(Item)]

OneWay == {i \in Instr : ~(IsSent(i) /\ IsReceived(i))}

\* A turn adds an item of what the instruction changes the balance by, if anything.
LEMMA ItemAdds ==
    ASSUME NEW instrs, NEW done \in Built, NEW i \in OneWay
    PROVE  /\ ChangeBy(i) \in Int
           /\ AddItem(instrs, done, i) \in Built
           /\ Amounts(AddItem(instrs, done, i).items) = Amounts(done.items) + ChangeBy(i)
<1> DEFINE text == Description(i, done.description, instrs)
           item == [amount |-> Signed(i), description |-> text]
<1>1. i.amount \in Nat
  BY HistoryAssumption DEF OneWay, Instr
<1>2. done.description \in Texts /\ done.items \in Seq(Item)
  BY DEF Built
<1>3. Amounts(done.items) \in Int
  BY <1>2, AmountsInt
<1>4. IsSent(i) \/ IsReceived(i) => ~IsMinted(i) /\ ~IsBurnt(i)
  <2>1. i.type \in {"transfer", "mintTo", "burn"}
    BY DEF OneWay, Instr
  <2>2. i.type # "transfer" => i.source = Other /\ i.destination = Other
    BY DEF OneWay, Instr
  <2>3. ~(IsSent(i) /\ IsReceived(i))
    BY DEF OneWay
  <2> QED BY <2>1, <2>2, <2>3 DEF IsSent, IsReceived, IsMinted, IsBurnt
<1>5. ~(IsMinted(i) /\ IsBurnt(i)) /\ ~(IsSent(i) /\ IsReceived(i))
  BY DEF OneWay, IsMinted, IsBurnt
<1>6. /\ ChangeBy(i) \in Int
      /\ ChangeBy(i) = IF Concerns(i) THEN Signed(i) ELSE 0
  BY <1>1, <1>4, <1>5 DEF ChangeBy, Concerns, Signed, IsSent, IsReceived
<1>7. CASE ~Concerns(i)
  <2>1. AddItem(instrs, done, i) = done
    BY <1>7 DEF AddItem
  <2> QED BY <1>3, <1>6, <1>7, <2>1
<1>8. CASE Concerns(i)
  <2>1. AddItem(instrs, done, i) =
            [description |-> text,
             items |-> IF Signed(i) = 0 THEN done.items ELSE <<item>> \o done.items]
    BY <1>8 DEF AddItem
  <2>2. text \in Texts
    BY <1>2 DEF Description, Texts
  <2>3. Signed(i) \in Int /\ ChangeBy(i) = Signed(i)
    BY <1>6, <1>8
  <2>4. text = "Received" => Signed(i) >= 0
    BY <1>1 DEF Description, Signed, IsCommission
  <2>5. item \in Item
    BY <2>2, <2>3, <2>4 DEF Item
  <2> HIDE DEF text
  <2>6. CASE Signed(i) = 0
    <3>1. AddItem(instrs, done, i) = [description |-> text, items |-> done.items]
      BY <2>1, <2>6
    <3>2. AddItem(instrs, done, i).items = done.items
      BY <3>1
    <3>3. AddItem(instrs, done, i) \in Built
      BY <1>2, <2>2, <3>1 DEF Built
    <3>4. Amounts(done.items) = Amounts(done.items) + ChangeBy(i)
      BY <1>3, <2>3, <2>6
    <3> QED BY <1>6, <3>2, <3>3, <3>4
  <2>7. CASE Signed(i) # 0
    <3>1. AddItem(instrs, done, i) = [description |-> text, items |-> <<item>> \o done.items]
      BY <2>1, <2>7
    <3>2. item.amount = Signed(i)
      OBVIOUS
    <3> HIDE DEF item
    <3>3. /\ <<item>> \o done.items \in Seq(Item)
          /\ Amounts(<<item>> \o done.items) = Amounts(done.items) + item.amount
      BY <1>2, <2>5, AmountsPrepend
    <3>4. AddItem(instrs, done, i).items = <<item>> \o done.items
      BY <3>1
    <3>5. AddItem(instrs, done, i) \in Built
      BY <2>2, <3>1, <3>3 DEF Built
    <3> QED BY <1>6, <2>3, <3>2, <3>3, <3>4, <3>5
  <2> QED BY <2>6, <2>7
<1> QED BY <1>7, <1>8

\* The items add up to what the instructions change the balance by.
LEMMA ItemsAddUp ==
    ASSUME NEW n \in Nat, NEW s \in [1..n -> OneWay]
    PROVE  /\ GetTxnAmount(s) \in Seq(Item)
           /\ Amounts(GetTxnAmount(s))
                  = SumFunctionOnSet([j \in DOMAIN s |-> ChangeBy(s[j])], DOMAIN s)
<1> DEFINE base == [description |-> "Received", items |-> <<>>]
           G == [p \in (1..n) \X Built |-> AddItem(s, p[2], s[p[1]])]
           Is(h) == h = [S \in SUBSET DOMAIN s |->
                            IF S = {} THEN base ELSE AddItem(s, h[S \ {Top(S)}], s[Top(S)])]
           it == CHOOSE h : Is(h)
           f == [j \in DOMAIN s |-> ChangeBy(s[j])]
<1>1. DOMAIN s = 1..n /\ \A i \in 1..n : s[i] \in OneWay
  OBVIOUS
<1>2. GetTxnAmount(s) = it[DOMAIN s].items
  BY DEF GetTxnAmount, FoldLeft, MapThenFoldSet, Max, Top
<1>3. base \in Built /\ G \in [(1..n) \X Built -> Built]
  <2>1. base \in Built
    BY DEF Built, Texts
  <2>2. ASSUME NEW h \in Built, NEW i \in 1..n PROVE AddItem(s, h, s[i]) \in Built
    BY <1>1, ItemAdds
  <2> QED BY <2>1, <2>2
<1>4. PICK g \in [SUBSET (1..n) -> Built] : IsFold(G, base, g, n)
  <2> HIDE DEF G, base
  <2> QED BY <1>3, FoldExists
<1>5. ASSUME NEW h, NEW S \in SUBSET (1..n), S # {}, h[S \ {Top(S)}] \in Built
      PROVE  /\ Top(S) \in 1..n
             /\ G[<<Top(S), h[S \ {Top(S)}]>>] = AddItem(s, h[S \ {Top(S)}], s[Top(S)])
  <2>1. Top(S) \in 1..n
    BY <1>5, LastPlace
  <2>2. <<Top(S), h[S \ {Top(S)}]>> \in (1..n) \X Built
    BY <1>5, <2>1
  <2> QED BY <2>1, <2>2
<1>6. Is(g)
  <2>1. ASSUME NEW S \in SUBSET (1..n), S # {}
        PROVE  G[<<Top(S), g[S \ {Top(S)}]>>] = AddItem(s, g[S \ {Top(S)}], s[Top(S)])
    <3>1. g[S \ {Top(S)}] \in Built
      OBVIOUS
    <3> QED BY <1>5, <2>1, <3>1
  <2> HIDE DEF G, base
  <2> QED BY <1>1, <1>4, <2>1 DEF IsFold, Turn
<1>7. Is(it)
  <2> HIDE DEF Is
  <2> QED BY <1>6
<1>8. TakesTurns(Built, G, base, it, n)
  <2>1. it[{}] = base
    BY <1>7
  <2>2. ASSUME NEW S \in SUBSET (1..n), S # {}, it[S \ {Top(S)}] \in Built
        PROVE  it[S] = G[<<Top(S), it[S \ {Top(S)}]>>]
    <3>1. it[S] = AddItem(s, it[S \ {Top(S)}], s[Top(S)])
      <4> HIDE DEF it
      <4> QED BY <1>1, <1>7, <2>2
    <3> HIDE DEF it, G
    <3> QED BY <1>5, <2>2, <3>1
  <2> HIDE DEF it, G, base
  <2>3. FoldsIn(Built, G, base, it, n)
    BY <2>1, <2>2 DEF FoldsIn
  <2> QED BY <1>3, <2>3, FoldTurns
<1>9. \A i \in 1..n : f[i] \in Int /\ f[i] = ChangeBy(s[i])
  BY <1>1, <1>3, ItemAdds
<1> HIDE DEF it, f, Is
<1> DEFINE N == {k \in Nat : k <= n => Amounts(it[1..k].items) = SumFunctionOnSet(f, 1..k)}
<1>10. 0 \in N
  <2>1. 1..0 = {} /\ it[1..0].items = <<>>
    BY <1>8 DEF TakesTurns
  <2>2. Amounts(<<>>) = 0
    <3>1. DOMAIN <<>> = {}
      OBVIOUS
    <3> QED BY <3>1, SumOfNone DEF Amounts
  <2> QED BY <2>1, <2>2, SumOfNone
<1>11. ASSUME NEW k \in N PROVE k + 1 \in N
  <2> SUFFICES ASSUME k + 1 <= n
               PROVE  Amounts(it[1..(k + 1)].items) = SumFunctionOnSet(f, 1..(k + 1))
    OBVIOUS
  <2>1. k \in Nat /\ k \in 0..(n - 1) /\ k \in 0..n /\ k + 1 \in 1..n /\ k <= n
    OBVIOUS
  <2>2. it[1..k] \in Built /\ Amounts(it[1..k].items) = SumFunctionOnSet(f, 1..k)
    BY <1>8, <2>1 DEF TakesTurns
  <2>3. it[1..(k + 1)] = AddItem(s, it[1..k], s[k + 1])
    <3>1. G[<<k + 1, it[1..k]>>] = AddItem(s, it[1..k], s[k + 1])
      <4>1. <<k + 1, it[1..k]>> \in (1..n) \X Built
        BY <2>1, <2>2
      <4> QED BY <4>1
    <3> HIDE DEF G, base
    <3> QED BY <1>8, <2>1, <3>1 DEF TakesTurns
  <2>4. Amounts(it[1..(k + 1)].items) = f[k + 1] + SumFunctionOnSet(f, 1..k)
    <3>1. Amounts(it[1..(k + 1)].items) = Amounts(it[1..k].items) + f[k + 1]
      BY <1>1, <1>9, <2>1, <2>2, <2>3, ItemAdds
    <3>2. f[k + 1] \in Int /\ Amounts(it[1..k].items) \in Int
      BY <1>9, <2>1, <2>2, AmountsInt DEF Built
    <3>3. Amounts(it[1..k].items) + f[k + 1] = f[k + 1] + Amounts(it[1..k].items)
      BY <3>2
    <3> QED BY <2>2, <3>1, <3>3
  <2>5. SumFunctionOnSet(f, 1..(k + 1)) = f[k + 1] + SumFunctionOnSet(f, 1..k)
    <3>1. 1..(k + 1) = (1..k) \cup {k + 1} /\ k + 1 \notin 1..k
      BY <2>1
    <3>2. IsFiniteSet(1..k)
      <4>1. 1 \in Int /\ k \in Int
        BY <2>1
      <4> QED BY <4>1, FS_Interval
    <3>3. f[k + 1] \in Int /\ \A i \in 1..k : f[i] \in Int
      <4>1. \A i \in 1..k : i \in 1..n
        BY <2>1
      <4> QED BY <1>9, <2>1, <4>1
    <3>4. SumFunctionOnSet(f, (1..k) \cup {k + 1}) = f[k + 1] + SumFunctionOnSet(f, 1..k)
      BY <3>1, <3>2, <3>3, SumWith
    <3> QED BY <3>1, <3>4
  <2> QED BY <2>4, <2>5
<1>12. it[1..n] \in Built /\ Amounts(it[1..n].items) = SumFunctionOnSet(f, 1..n)
  <2>1. n \in N /\ n <= n
    <3>1. N = Nat
      <4> HIDE DEF N
      <4>1. N \in SUBSET Nat
        BY DEF N
      <4> QED BY <1>10, <1>11, <4>1, NumbersInduction
    <3> QED BY <3>1
  <2>2. n \in 0..n
    OBVIOUS
  <2> QED BY <1>8, <2>1, <2>2 DEF TakesTurns
<1> QED BY <1>1, <1>2, <1>12 DEF f, Built

\* [AccountService] The history of any transaction adds up to what it changed the
\* account's balance by.
THEOREM HistoryTotals ==
    HistoryInit /\ [][FALSE]_txnIn => []HistoryAddsUp
<1>1. HistoryInit => HistoryAddsUp
  <2> SUFFICES ASSUME txnIn \in Txns PROVE HistoryAddsUp
    BY DEF HistoryInit
  <2> DEFINE s == txnIn.instrs
             known == txnIn.known
             items == GetTxnAmount(s)
             f == [j \in DOMAIN s |-> ChangeBy(s[j])]
             a == [j \in DOMAIN items |-> items[j].amount]
             v == [j \in DOMAIN items |-> ShownAmount(known, items[j])]
             d == [j \in DOMAIN items |-> a[j] - v[j]]
  <2>1. known \in BOOLEAN /\ \E n \in Nat : s \in [1..n -> OneWay]
    <3>1. /\ known \in BOOLEAN
          /\ s \in UNION {[1..n -> Instr] : n \in 0..MaxInstr}
          /\ \A j \in DOMAIN s : ~(IsSent(s[j]) /\ IsReceived(s[j]))
      BY DEF Txns
    <3>2. PICK n \in 0..MaxInstr : s \in [1..n -> Instr]
      <4> HIDE DEF s
      <4> QED BY <3>1
    <3>3. n \in Nat
      BY HistoryAssumption
    <3>4. s \in [1..n -> OneWay]
      <4> HIDE DEF s
      <4> QED BY <3>1, <3>2 DEF OneWay
    <3> QED BY <3>1, <3>3, <3>4
  <2>2. items \in Seq(Item) /\ Amounts(items) = SumFunctionOnSet(f, DOMAIN s)
    <3>1. PICK n \in Nat : s \in [1..n -> OneWay]
      BY <2>1
    <3> HIDE DEF s
    <3> QED BY <3>1, ItemsAddUp
  <2>3. CASE txnIn.err
    <3>1. Amounts(<<>>) = 0
      <4>1. DOMAIN <<>> = {}
        OBVIOUS
      <4> QED BY <4>1, SumOfNone DEF Amounts
    <3>2. History(txnIn) = <<>> /\ Change(txnIn) = 0
      BY <2>3 DEF History, Change
    <3>3. 0 <= 0
      OBVIOUS
    <3> QED BY <3>1, <3>2, <3>3 DEF HistoryAddsUp
  <2>4. CASE ~txnIn.err
    <3>1. Amounts(History(txnIn)) = SumFunctionOnSet(v, DOMAIN items)
      <4> HIDE DEF items
      <4> QED BY <2>1, <2>2, <2>4, ShownAddsUp DEF History, items
    <3>2. Change(txnIn) = Amounts(items)
      <4> HIDE DEF items
      <4> QED BY <2>2, <2>4 DEF Change
    <3>3. Amounts(items) = SumFunctionOnSet(a, DOMAIN items)
      BY DEF Amounts
    <3>4. IsFiniteSet(DOMAIN items)
      <4> HIDE DEF items
      <4> QED BY <2>2, PlacesOf
    <3>5. /\ \A j \in DOMAIN items : /\ a[j] \in Int /\ v[j] \in Int /\ d[j] \in Nat
                                     /\ a[j] = v[j] + d[j]
          /\ known => \A j \in DOMAIN items : v[j] = a[j]
      <4> HIDE DEF items, known
      <4>1. ASSUME NEW j \in DOMAIN items
            PROVE  /\ items[j].amount \in Int
                   /\ items[j].description = "Received" => items[j].amount >= 0
        BY <2>2, PlacesOf DEF Item
      <4> QED BY <4>1 DEF ShownAmount
    <3> HIDE DEF a, v, d, items, known
    <3>6. CASE known
      <4>1. SumFunctionOnSet(v, DOMAIN items) = SumFunctionOnSet(a, DOMAIN items)
        BY <3>4, <3>5, <3>6, SumSame
      <4> QED BY <3>1, <3>2, <3>3, <3>6, <4>1 DEF HistoryAddsUp, known
    <3>7. CASE ~known
      <4>1. \A j \in DOMAIN items : d[j] \in Int
        BY <3>5
      <4>2. SumFunctionOnSet(a, DOMAIN items)
                = SumFunctionOnSet(v, DOMAIN items) + SumFunctionOnSet(d, DOMAIN items)
        BY <3>4, <3>5, <4>1, SumPlus
      <4>3. SumFunctionOnSet(d, DOMAIN items) \in Nat
        BY <3>4, <3>5, SumIsNat
      <4>4. SumFunctionOnSet(v, DOMAIN items) \in Int
        BY <3>4, <3>5, SumIsInt
      <4>5. SumFunctionOnSet(v, DOMAIN items) <= SumFunctionOnSet(a, DOMAIN items)
        BY <4>2, <4>3, <4>4
      <4> QED BY <3>1, <3>2, <3>3, <3>7, <4>5 DEF HistoryAddsUp, known
    <3> QED BY <3>6, <3>7
  <2> QED BY <2>3, <2>4
<1>2. HistoryAddsUp /\ [FALSE]_txnIn => HistoryAddsUp'
  BY DEF HistoryAddsUp
<1> QED BY <1>1, <1>2, PTL

=============================================================================
