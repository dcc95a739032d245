----------------------------- MODULE TokenProofs -----------------------------
(***************************************************************************)
(* What holds of an organisation's token for any number of requests that   *)
(* need it, resends, polls and restarts (OrgMint); and of sending its      *)
(* shares, or credits, for any number of accounts, of requests, of runs of *)
(* the callback and of restarts (Sending).  The two share no state.        *)
(***************************************************************************)
EXTENDS OrgMint, Sending, TLAPS


AnyJob == Call \cup {InitialJob}

CP == INSTANCE TxnConfirmProofs WITH Job <- AnyJob, StrictJob <- {InitialJob}

(***************************************************************************)
(* The inductive invariant of the token.  What the properties say of the   *)
(* document must hold of the copy updateOrg has in memory too, since it    *)
(* becomes the document; and how far createToken is tells what has landed  *)
(* before.                                                                 *)
(***************************************************************************)

\* Some call created the token a document reads.
WasCreated(mint) == \E k \in Call : mint = MintOf(k) /\ C!Landed(k) # {}

\* A successful status, read or written, is that of a token that was created.
SuccessIsCreated ==
    /\ mintStatus = "success" => WasCreated(orgMint)
    /\ update.status = "success" => WasCreated(update.mint)

\* createToken goes on only after its own transactions returned, and nothing is
\* counted before the initial mint did.
BootInOrder ==
    /\ call[Boot].pc \in {"initial", "record"} => pc[Boot] = "returned"
    /\ lamportsMinted # 0 \/ update.minted # 0 =>
           /\ call[Boot].pc \notin {"idle", "wait", "create", "initial"}
           /\ C!Landed(InitialJob) # {}

\* Before createToken nobody needs a token, and there is none.
NothingBeforeBoot ==
    call[Boot].pc = "idle" => /\ orgMint = NoMint /\ update.mint = NoMint
                              /\ \A k \in Call : call[k].pc = "idle"

\* As long as nothing overlapped, the call that creates a token is the only one,
\* there is no token yet, and nobody is to write back an older document.
CreatesAlone ==
    ~overlap => \A k \in Call : Creating(k) =>
        /\ orgMint = NoMint
        /\ update.pc # "write"
        /\ \A other \in Call : Creating(other) => other = k

\* As long as nothing overlapped, what updateOrg writes back is what is there.
UpdateIsCurrent ==
    ~overlap /\ update.pc = "write" => update.mint = orgMint

Inv ==
    /\ TypeOK
    /\ CP!Inv
    /\ SuccessIsCreated
    /\ BootInOrder
    /\ NothingBeforeBoot
    /\ CreatesAlone
    /\ UpdateIsCurrent

(***************************************************************************)
(* The steps of sending and confirming are those of TxnConfirm.            *)
(***************************************************************************)

LEMMA ConfirmTyped == CP!Inv => C!TypeOK
  BY DEF CP!Inv, CP!TypeOK, C!TypeOK, CP!Attempt, C!Attempt, CP!Running, C!Running,
         CP!Ended, C!Ended, AnyJob

LEMMA ConfirmSteps ==
  ASSUME NEW j \in AnyJob, C!Begin(j) \/ C!ConfirmStep(j) \/ C!ChainStep(j)
  PROVE  CP!Begin(j) \/ CP!ConfirmStep(j) \/ CP!ChainStep(j)
  BY DEF C!Begin, CP!Begin, C!ConfirmStep, CP!ConfirmStep, C!ChainStep, CP!ChainStep,
         C!Broadcast, CP!Broadcast, C!SendReturns, CP!SendReturns,
         C!SendThrows, CP!SendThrows, C!PollFinds, CP!PollFinds,
         C!PollFindsError, CP!PollFindsError, C!PollMisses, CP!PollMisses,
         C!ResendReturns, CP!ResendReturns, C!ResendThrows, CP!ResendThrows,
         C!SenderReturns, CP!SenderReturns, C!Settle, CP!Settle,
         C!Attempt, CP!Attempt

\* What a step of a call chain or of the chain keeps, for every job.
LEMMA ConfirmKeeps ==
  ASSUME CP!Inv, NEW j \in AnyJob, C!Begin(j) \/ C!ConfirmStep(j) \/ C!ChainStep(j)
  PROVE  /\ CP!Inv' /\ C!TypeOK'
         /\ \A k \in AnyJob : /\ C!Landed(k) # {} => C!Landed(k)' # {}
                              /\ pc[k] = "returned" => pc'[k] = "returned"
<1>1. CP!Begin(j) \/ CP!ConfirmStep(j) \/ CP!ChainStep(j)
  BY ConfirmSteps
<1>2. CP!Inv'
  BY <1>1, CP!StepInv, NumberAssumption DEF AnyJob
<1>3. C!TypeOK'
  BY <1>2 DEF CP!Inv, CP!TypeOK, C!TypeOK, CP!Attempt, C!Attempt, CP!Running,
              C!Running, CP!Ended, C!Ended, AnyJob
<1>4. ASSUME NEW k \in AnyJob
      PROVE  /\ C!Landed(k) # {} => C!Landed(k)' # {}
             /\ pc[k] = "returned" => pc'[k] = "returned"
  <2>1. CP!Landed(k) \subseteq CP!Landed(k)'
    BY <1>1, CP!LandedStays, NumberAssumption DEF AnyJob
  <2>2. pc[k] = "returned" => pc'[k] = "returned"
    BY <1>1, CP!EndedStays, NumberAssumption DEF AnyJob, CP!Inv, CP!Ended
  <2> QED BY <2>1, <2>2 DEF CP!Landed, C!Landed, CP!Attempt, C!Attempt
<1> QED BY <1>2, <1>3, <1>4

LEMMA ConfirmUnchanged ==
  ASSUME CP!Inv, UNCHANGED confirmVars
  PROVE  /\ CP!Inv' /\ C!TypeOK'
         /\ \A k \in AnyJob : C!Landed(k)' = C!Landed(k) /\ pc'[k] = pc[k]
<1>1. UNCHANGED CP!confirmVars
  BY DEF confirmVars, CP!confirmVars
<1>2. CP!Inv'
  BY <1>1, CP!NextInv, NumberAssumption DEF AnyJob
<1>3. C!TypeOK'
  BY <1>2 DEF CP!Inv, CP!TypeOK, C!TypeOK, CP!Attempt, C!Attempt, CP!Running,
              C!Running, CP!Ended, C!Ended, AnyJob
<1> QED BY <1>2, <1>3 DEF confirmVars, C!Landed

\* A returned job has landed.
LEMMA ReturnedLanded ==
  ASSUME CP!Inv, NEW k \in AnyJob, pc[k] = "returned"
  PROVE  C!Landed(k) # {}
<1>1. txn[k][hash[k]] = "landed" /\ hash[k] >= 1
  BY DEF CP!Inv, CP!ReturnedIsLanded, CP!HashIsSent
<1>2. hash[k] \in 1..MaxSend
  BY <1>1, NumberAssumption DEF CP!Inv, CP!TypeOK
<1> QED BY <1>1, <1>2 DEF C!Landed, C!Attempt

LEMMA InitInv == Init => Inv
<1> SUFFICES ASSUME Init PROVE Inv
  OBVIOUS
<1>1. CP!Inv
  <2>1. CP!Init
    BY DEF Init, C!Init, CP!Init, C!Attempt, CP!Attempt, AnyJob
  <2> QED BY <2>1, CP!InitInv, NumberAssumption DEF AnyJob
<1>2. TypeOK
  <2>1. withInitial \in BOOLEAN /\ overlap \in BOOLEAN
    BY Zenon DEF Init
  <2>2. orgMint \in Mint /\ lamportsMinted \in {0, InitialAmount} /\ crashes \in 0..MaxCrash
    BY NumberAssumption DEF Init, Mint
  <2>3. call \in [Call -> [pc : {"idle", "wait", "create", "initial", "record",
                                "done", "failed", "dead"},
                          retries : 0..MintStatusRetries]]
    BY NumberAssumption DEF Init
  <2>4. update \in [pc : {"idle", "write", "done"}, mint : Mint,
                    status : {"none", "inProgress", "success", "error"},
                    minted : {0, InitialAmount}]
    BY DEF Init, NoUpdate, Mint
  <2> QED BY <1>1, <2>1, <2>2, <2>3, <2>4, ConfirmTyped DEF Init, TypeOK
<1>3. SuccessIsCreated /\ BootInOrder /\ NothingBeforeBoot /\ CreatesAlone /\ UpdateIsCurrent
  BY DEF Init, NoUpdate, SuccessIsCreated, BootInOrder, NothingBeforeBoot, CreatesAlone,
         UpdateIsCurrent, Creating, Call
<1> QED BY <1>1, <1>2, <1>3 DEF Inv

\* Whatever the organisation's handlers do, the call chains keep what they promise,
\* what has landed stays landed and what has returned stays returned.
ConfirmKept ==
    /\ CP!Inv' /\ C!TypeOK'
    /\ \A k \in AnyJob : /\ C!Landed(k) # {} => C!Landed(k)' # {}
                         /\ pc[k] = "returned" => pc'[k] = "returned"

LEMMA ConfirmFrame == Inv /\ [Next]_vars => ConfirmKept
<1> SUFFICES ASSUME Inv, [Next]_vars PROVE ConfirmKept
  OBVIOUS
<1> USE DEF Inv
<1>1. CASE UNCHANGED confirmVars
  BY <1>1, ConfirmUnchanged DEF ConfirmKept
<1>2. ASSUME NEW j \in AnyJob, C!Begin(j) \/ C!ConfirmStep(j) \/ C!ChainStep(j)
      PROVE  ConfirmKept
  BY <1>2, ConfirmKeeps DEF ConfirmKept
<1>3. CASE BootStarts
  BY <1>2, <1>3 DEF BootStarts, StartsCreating, AnyJob, Call
<1>4. CASE BootStep
  BY <1>1, <1>2, <1>4 DEF BootStep, BootRecordsToken, BootStartsInitial, BootFails,
       BootCounts, BootRecords, BootInitialFails, AnyJob
<1>5. ASSUME NEW k \in Ensure, EnsureStarts(k) \/ EnsureStep(k)
      PROVE  ConfirmKept
  BY <1>1, <1>2, <1>5 DEF EnsureStarts, EnsureStep, EnsureWaits, EnsureReads, EnsureRecords,
       EnsureFails, StartsCreating, AnyJob, Call
<1>6. CASE UpdateReads \/ UpdateWrites \/ UpdateThrows \/ Crash
  BY <1>1, <1>6 DEF UpdateReads, UpdateWrites, UpdateThrows, Crash
<1>7. ASSUME NEW j \in AnyJob, Sends(j) \/ ChainSettles(j)
      PROVE  ConfirmKept
  BY <1>2, <1>7 DEF Sends, ChainSettles
<1>8. CASE UNCHANGED vars
  BY <1>1, <1>8 DEF vars, confirmVars
<1> QED BY <1>3, <1>4, <1>5, <1>6, <1>7, <1>8 DEF Next, AnyJob

\* createToken.
LEMMA BootInv == Inv /\ (BootStarts \/ BootStep) /\ ConfirmKept => Inv'
<1> SUFFICES ASSUME Inv, BootStarts \/ BootStep, ConfirmKept PROVE Inv'
  OBVIOUS
<1> USE NumberAssumption, CallAssumption
    DEF Inv, ConfirmKept, Goes, Writes, orgVars, AnyJob, Call
<1>1. CASE BootStarts
  <2> USE <1>1 DEF BootStarts, StartsCreating
  <2>1. TypeOK'
    BY DEF TypeOK, Mint
  <2>2. SuccessIsCreated'
    BY DEF SuccessIsCreated, WasCreated, BootInOrder, NothingBeforeBoot
  <2>3. BootInOrder'
    BY DEF TypeOK, BootInOrder
  <2>4. NothingBeforeBoot'
    BY DEF TypeOK, NothingBeforeBoot
  <2>5. CreatesAlone' /\ UpdateIsCurrent'
    BY DEF TypeOK, CreatesAlone, UpdateIsCurrent, NothingBeforeBoot, Creating
  <2> QED BY <2>1, <2>2, <2>3, <2>4, <2>5
<1>2. CASE BootRecordsToken
  <2> USE <1>2 DEF BootRecordsToken
  <2>1. TypeOK' /\ Boot \in Call /\ C!Landed(Boot)' # {}
    BY ReturnedLanded DEF TypeOK, Mint, MintOf
  <2>2. SuccessIsCreated'
    BY <2>1 DEF SuccessIsCreated, WasCreated
  <2>3. BootInOrder' /\ NothingBeforeBoot'
    BY DEF TypeOK, BootInOrder, NothingBeforeBoot
  <2>4. CreatesAlone' /\ UpdateIsCurrent'
    BY DEF TypeOK, CreatesAlone, UpdateIsCurrent, Creating
  <2> QED BY <2>1, <2>2, <2>3, <2>4
<1>3. CASE BootStartsInitial
  <2> USE <1>3 DEF BootStartsInitial
  <2>1. TypeOK' /\ SuccessIsCreated'
    BY DEF TypeOK, SuccessIsCreated, WasCreated
  <2>2. BootInOrder' /\ NothingBeforeBoot'
    BY DEF TypeOK, BootInOrder, NothingBeforeBoot
  <2>3. CreatesAlone' /\ UpdateIsCurrent'
    BY DEF TypeOK, CreatesAlone, UpdateIsCurrent, Creating
  <2> QED BY <2>1, <2>2, <2>3
<1>4. CASE BootFails
  <2> USE <1>4 DEF BootFails, ProcessDies
  <2>1. TypeOK' /\ SuccessIsCreated'
    BY DEF TypeOK, Mint, SuccessIsCreated, WasCreated
  <2>2. BootInOrder' /\ NothingBeforeBoot'
    BY DEF TypeOK, BootInOrder, NothingBeforeBoot
  <2>3. CreatesAlone' /\ UpdateIsCurrent'
    BY DEF TypeOK, CreatesAlone, UpdateIsCurrent, Creating
  <2> QED BY <2>1, <2>2, <2>3
<1>5. CASE BootCounts
  <2> USE <1>5 DEF BootCounts
  <2>1. lamportsMinted = 0 /\ update.minted = 0 /\ C!Landed(InitialJob)' # {}
    BY ReturnedLanded DEF BootInOrder
  <2>2. TypeOK' /\ SuccessIsCreated'
    BY <2>1 DEF TypeOK, SuccessIsCreated, WasCreated
  <2>3. BootInOrder' /\ NothingBeforeBoot'
    BY <2>1 DEF TypeOK, BootInOrder, NothingBeforeBoot
  <2>4. CreatesAlone' /\ UpdateIsCurrent'
    BY DEF TypeOK, CreatesAlone, UpdateIsCurrent, Creating
  <2> QED BY <2>2, <2>3, <2>4
<1>6. CASE BootRecords
  <2> USE <1>6 DEF BootRecords
  <2>1. TypeOK' /\ Boot \in Call /\ C!Landed(Boot)' # {}
    BY ReturnedLanded DEF TypeOK, Mint, MintOf, BootInOrder
  <2>2. SuccessIsCreated'
    BY <2>1 DEF SuccessIsCreated, WasCreated
  <2>3. BootInOrder' /\ NothingBeforeBoot'
    BY DEF TypeOK, BootInOrder, NothingBeforeBoot
  <2>4. CreatesAlone' /\ UpdateIsCurrent'
    BY DEF TypeOK, CreatesAlone, UpdateIsCurrent, Creating
  <2> QED BY <2>1, <2>2, <2>3, <2>4
<1>7. CASE BootInitialFails
  <2> USE <1>7 DEF BootInitialFails
  <2>1. TypeOK' /\ SuccessIsCreated'
    BY DEF TypeOK, SuccessIsCreated, WasCreated
  <2>2. BootInOrder' /\ NothingBeforeBoot'
    BY DEF TypeOK, BootInOrder, NothingBeforeBoot
  <2>3. CreatesAlone' /\ UpdateIsCurrent'
    BY DEF TypeOK, CreatesAlone, UpdateIsCurrent, Creating
  <2> QED BY <2>1, <2>2, <2>3
<1> QED BY <1>1, <1>2, <1>3, <1>4, <1>5, <1>6, <1>7 DEF BootStep

\* ensureMint.
LEMMA EnsureInv ==
  ASSUME Inv, ConfirmKept, NEW k \in Ensure, EnsureStarts(k) \/ EnsureStep(k)
  PROVE  Inv'
<1> USE NumberAssumption, CallAssumption
    DEF Inv, ConfirmKept, Goes, Writes, orgVars, AnyJob, Call
<1>1. CASE EnsureStarts(k) \/ EnsureWaits(k) \/ EnsureFails(k)
  <2> USE <1>1 DEF EnsureStarts, EnsureWaits, EnsureFails
  <2>1. TypeOK' /\ SuccessIsCreated'
    BY DEF TypeOK, SuccessIsCreated, WasCreated
  <2>2. BootInOrder' /\ NothingBeforeBoot'
    BY DEF TypeOK, BootInOrder, NothingBeforeBoot
  <2>3. CreatesAlone' /\ UpdateIsCurrent'
    BY DEF TypeOK, CreatesAlone, UpdateIsCurrent, Creating
  <2> QED BY <2>1, <2>2, <2>3
<1>2. CASE EnsureReads(k)
  <2>1. overlap' \in BOOLEAN
    BY <1>2, Zenon DEF EnsureReads, StartsCreating, TypeOK
  <2>2. UNCHANGED <<orgVars, withInitial, update, crashes>>
    BY <1>2, Zenon DEF EnsureReads
  <2>3. \/ /\ call' = [call EXCEPT ![k].pc = "create"]
           /\ orgMint = NoMint
           /\ ~overlap' => /\ ~overlap /\ update.pc # "write"
                           /\ \A other \in Call \ {k} : ~Creating(other)
        \/ call' = [call EXCEPT ![k].pc = "done"] /\ overlap' = overlap
    BY <1>2, Zenon DEF EnsureReads, StartsCreating
  <2>4. TypeOK'
    BY <2>1, <2>2, <2>3 DEF TypeOK
  <2>5. SuccessIsCreated'
    BY <2>2 DEF SuccessIsCreated, WasCreated
  <2>6. BootInOrder' /\ NothingBeforeBoot'
    BY <1>2, <2>2, <2>3 DEF EnsureReads, TypeOK, BootInOrder, NothingBeforeBoot
  <2>7. CreatesAlone' /\ UpdateIsCurrent'
    BY <2>2, <2>3 DEF TypeOK, CreatesAlone, UpdateIsCurrent, Creating
  <2> QED BY <2>4, <2>5, <2>6, <2>7
<1>3. CASE EnsureRecords(k)
  <2> USE <1>3 DEF EnsureRecords
  <2>1. TypeOK' /\ k \in Call /\ C!Landed(k)' # {}
    BY ReturnedLanded DEF TypeOK, Mint, MintOf
  <2>2. SuccessIsCreated'
    BY <2>1 DEF SuccessIsCreated, WasCreated
  <2>3. BootInOrder' /\ NothingBeforeBoot'
    BY DEF TypeOK, BootInOrder, NothingBeforeBoot
  <2>4. CreatesAlone' /\ UpdateIsCurrent'
    BY DEF TypeOK, CreatesAlone, UpdateIsCurrent, Creating
  <2> QED BY <2>1, <2>2, <2>3, <2>4
<1> QED BY <1>1, <1>2, <1>3 DEF EnsureStep

\* updateOrg, restarts, and what only the call chains and the chain do.
LEMMA OtherInv ==
  ASSUME Inv, ConfirmKept,
         \/ UpdateReads \/ UpdateWrites \/ UpdateThrows \/ Crash \/ UNCHANGED vars
         \/ \E j \in AnyJob : Sends(j) \/ ChainSettles(j)
  PROVE  Inv'
<1> USE NumberAssumption, CallAssumption
    DEF Inv, ConfirmKept, Goes, Writes, orgVars, AnyJob, Call, NoUpdate
<1>1. CASE UpdateReads
  <2>1. /\ overlap' \in BOOLEAN
        /\ ~overlap' => ~overlap /\ \A k \in Call : ~Creating(k)
    BY <1>1, Zenon DEF UpdateReads
  <2>2. /\ update' = [pc |-> "write", mint |-> orgMint, status |-> mintStatus,
                      minted |-> lamportsMinted]
        /\ UNCHANGED <<orgVars, withInitial, call, crashes>>
    BY <1>1, Zenon DEF UpdateReads
  <2>3. TypeOK'
    BY <2>1, <2>2 DEF TypeOK
  <2>4. SuccessIsCreated'
    BY <2>2 DEF SuccessIsCreated, WasCreated
  <2>5. BootInOrder' /\ NothingBeforeBoot'
    BY <2>2 DEF TypeOK, BootInOrder, NothingBeforeBoot
  <2>6. CreatesAlone' /\ UpdateIsCurrent'
    BY <2>1, <2>2 DEF CreatesAlone, UpdateIsCurrent, Creating
  <2> QED BY <2>3, <2>4, <2>5, <2>6
<1>2. CASE UpdateWrites \/ UpdateThrows
  <2> USE <1>2 DEF UpdateWrites, UpdateThrows
  <2>1. TypeOK'
    BY DEF TypeOK, Mint
  <2>2. SuccessIsCreated'
    BY DEF SuccessIsCreated, WasCreated
  <2>3. BootInOrder' /\ NothingBeforeBoot'
    BY DEF TypeOK, BootInOrder, NothingBeforeBoot
  <2>4. CreatesAlone' /\ UpdateIsCurrent'
    BY DEF TypeOK, CreatesAlone, UpdateIsCurrent, Creating
  <2> QED BY <2>1, <2>2, <2>3, <2>4
<1>3. CASE Crash
  <2> USE <1>3 DEF Crash
  <2>0. call' = [k \in Call |->
            IF call[k].pc \in {"wait", "create", "initial", "record"}
            THEN [call[k] EXCEPT !.pc = "dead"] ELSE call[k]]
    <3>1. DOMAIN <<>> = {}
      OBVIOUS
    <3> QED BY <3>1, Zenon DEF ProcessDies
  <2>1. TypeOK'
    BY <2>0 DEF TypeOK, Mint
  <2>2. SuccessIsCreated'
    BY DEF SuccessIsCreated, WasCreated
  <2>3. BootInOrder' /\ NothingBeforeBoot'
    BY <2>0 DEF TypeOK, BootInOrder, NothingBeforeBoot
  <2>4. CreatesAlone' /\ UpdateIsCurrent'
    BY <2>0 DEF TypeOK, CreatesAlone, UpdateIsCurrent, Creating
  <2> QED BY <2>1, <2>2, <2>3, <2>4
<1>4. CASE UNCHANGED vars \/ \E j \in AnyJob : Sends(j) \/ ChainSettles(j)
  <2>1. UNCHANGED <<orgVars, withInitial, update, call, overlap, crashes>>
    BY <1>4 DEF Sends, ChainSettles, vars
  <2>2. TypeOK' /\ SuccessIsCreated'
    BY <2>1 DEF TypeOK, SuccessIsCreated, WasCreated
  <2>3. BootInOrder' /\ NothingBeforeBoot'
    BY <2>1 DEF TypeOK, BootInOrder, NothingBeforeBoot
  <2>4. CreatesAlone' /\ UpdateIsCurrent'
    BY <2>1 DEF CreatesAlone, UpdateIsCurrent, Creating
  <2> QED BY <2>2, <2>3, <2>4
<1> QED BY <1>1, <1>2, <1>3, <1>4

LEMMA NextInv == Inv /\ [Next]_vars => Inv'
  BY ConfirmFrame, BootInv, EnsureInv, OtherInv DEF Next, AnyJob

LEMMA SpecInv == Spec => []Inv
  BY InitInv, NextInv, PTL DEF Spec

(***************************************************************************)
(* The theorems.                                                           *)
(***************************************************************************)

\* The organisation's document, every call of createToken, ensureMint and updateOrg,
\* and every call chain keeps its type.
THEOREM StateCorrect == Spec => []TypeOK
  BY SpecInv, PTL DEF Inv

\* A successful status is that of a token some call created, although the
\* recorded address is that of the first attempt, ensureMint writes without a
\* lock, and updateOrg writes back what it read long ago.
THEOREM RecordedWasCreated == Spec => []RecordedTokenWasCreated
<1>1. Inv => RecordedTokenWasCreated
  BY DEF Inv, SuccessIsCreated, WasCreated, RecordedTokenWasCreated
<1> QED BY <1>1, SpecInv, PTL

\* The organisation never counts an initial mint that is not on chain, and never
\* counts it twice.
THEOREM CountedMinted == Spec => []CountedIsMinted
<1>1. Inv => CountedIsMinted
  BY DEF Inv, TypeOK, BootInOrder, CountedIsMinted
<1> QED BY <1>1, SpecInv, PTL

\* Only calls that overlap replace a token that was recorded, or take it back:
\* the wait and the second read of ensureMint are enough otherwise.
THEOREM TokenStable == Spec => RecordedTokenIsStable
<1>1. Inv /\ [Next]_vars => [~overlap' /\ orgMint # NoMint => orgMint' = orgMint]_vars
  <2> SUFFICES ASSUME Inv, Next, ~overlap', orgMint # NoMint PROVE orgMint' = orgMint
    OBVIOUS
  <2> USE CallAssumption DEF Inv, Writes, orgVars, Call, Creating
  <2>1. ~overlap
    BY DEF Next, BootStarts, BootStep, BootRecordsToken, BootStartsInitial, BootFails,
           BootCounts, BootRecords, BootInitialFails, EnsureStarts, EnsureStep, EnsureWaits,
           EnsureReads, EnsureRecords, EnsureFails, StartsCreating, UpdateReads, UpdateWrites,
           UpdateThrows, Sends, ChainSettles, Crash
  <2>2. CASE BootStarts \/ BootStep
    BY <2>1, <2>2 DEF BootStarts, BootStep, BootRecordsToken, BootStartsInitial, BootFails,
           BootCounts, BootRecords, BootInitialFails, NothingBeforeBoot, CreatesAlone
  <2>3. ASSUME NEW k \in Ensure, EnsureStarts(k) \/ EnsureStep(k)
        PROVE  orgMint' = orgMint
    BY <2>1, <2>3 DEF EnsureStarts, EnsureStep, EnsureWaits, EnsureReads, EnsureRecords,
           EnsureFails, CreatesAlone
  <2>4. CASE UpdateReads \/ UpdateWrites \/ UpdateThrows \/ Crash
    BY <2>1, <2>4 DEF UpdateReads, UpdateWrites, UpdateThrows, Crash, UpdateIsCurrent
  <2>5. ASSUME NEW j \in AnyJob, Sends(j) \/ ChainSettles(j)
        PROVE  orgMint' = orgMint
    BY <2>5 DEF Sends, ChainSettles
  <2> QED BY <2>2, <2>3, <2>4, <2>5 DEF Next, AnyJob
<1> QED BY <1>1, SpecInv, PTL DEF Spec, RecordedTokenIsStable


(***************************************************************************)
(* Sending: types.                                                         *)
(***************************************************************************)

SendState == [pc : {"idle", "done", "failed"} \cup Serving,
              kind : {"plain", "lite", "credits", "usdc"},
              from : Party \cup {NoParty}, to : Party \cup {NoParty},
              address : {"none", "own", "other"},
              txn : {"none", "inflight", "landed", "failed"},
              run : 1..MaxRun, stale : BOOLEAN]

SendingTypeOK ==
    /\ member \subseteq Party
    /\ earned \in [Party -> Int]
    /\ holds \in [Party -> Int]
    /\ send \in [Send -> SendState]
    /\ moved \in [Send -> Nat]
    /\ booked \subseteq Send
    /\ stops \in 0..MaxStop

(***************************************************************************)
(* Its inductive invariant.  What a request with record x, which moved its *)
(* transfer m times and is among the booked ones if isBooked, has behind   *)
(* it; and what the documents have left for those that are still to book.  *)
(***************************************************************************)

\* Every run sends one transaction, which lands once at most.
Sound(x, m, isBooked) ==
    /\ x.pc # "idle" => x.from \in Party
    /\ x.pc = "idle" => x.run = 1
    /\ x.pc \in {"idle", "read", "transfer"} => x.txn = "none"
    /\ x.pc \in {"book", "commit"} => x.kind = "plain" /\ x.txn = "landed"
    /\ x.pc = "done" /\ x.kind # "usdc" => m > 0
    /\ x.pc = "done" /\ x.kind = "plain" => isBooked
    /\ x.txn = "landed" => m > 0 /\ m <= x.run
    /\ x.txn # "landed" => m < x.run

RequestsSound == \A r \in Send : Sound(send[r], moved[r], r \in booked)

\* What the sender earned is still there for every transaction that has read it,
\* as long as nothing it writes was changed.
Covered(x) == x.kind = "plain" /\ x.pc \in Open /\ ~x.stale => earned[x.from] >= 1

EarnedIsThere == \A r \in Send : Covered(send[r])

\* Transactions that have written share no document, and none is outdated.
Touches(x) == {x.from, x.to} \cap Party

WritersApart ==
    \A r \in Send : send[r].pc = "commit" =>
        /\ ~send[r].stale
        /\ \A s \in Send : s # r /\ send[s].pc = "commit" =>
               Touches(send[r]) \cap Touches(send[s]) = {}

SendingInv ==
    /\ SendingTypeOK
    /\ RequestsSound
    /\ EarnedIsThere
    /\ WritersApart
    /\ EarnedStaysPositive

LEMMA SendingInitInv == SendingInit => SendingInv
<1> USE SendingAssumption
<1> SUFFICES ASSUME SendingInit PROVE SendingInv
  OBVIOUS
<1>1. NoSend \in SendState
  BY DEF NoSend, SendState
<1>2. SendingTypeOK
  BY <1>1 DEF SendingInit, SendingTypeOK
<1>3. /\ send = [r \in Send |-> NoSend] /\ moved = [r \in Send |-> 0]
      /\ earned = [a \in Party |-> IF a \in member THEN 1 ELSE 0]
  BY DEF SendingInit
<1>4. \A r \in Send : /\ send[r].pc = "idle" /\ send[r].txn = "none" /\ send[r].run = 1
                      /\ moved[r] = 0
  BY <1>3 DEF NoSend
<1>5. RequestsSound /\ EarnedIsThere /\ WritersApart
  BY <1>4 DEF RequestsSound, Sound, EarnedIsThere, Covered, WritersApart, Open
<1>6. EarnedStaysPositive
  <2>1. earned \in [Party -> {0, 1}]
    BY <1>3
  <2> HIDE SendingAssumption
  <2> QED BY <2>1 DEF EarnedStaysPositive
<1> QED BY <1>2, <1>5, <1>6 DEF SendingInv

(***************************************************************************)
(* The steps of one request, which books nothing.                          *)
(***************************************************************************)

\* It is enough to look at the record the step gives the request.
LEMMA RequestStep ==
  ASSUME SendingInv, NEW r \in Send, NEW x \in SendState,
         send' = [send EXCEPT ![r] = x],
         moved' \in [Send -> Nat],
         \A s \in Send : s # r => moved'[s] = moved[s],
         holds' \in [Party -> Int],
         UNCHANGED <<member, earned, booked, stops>>,
         Sound(x, moved'[r], r \in booked),
         Covered(x),
         x.pc = "commit" =>
             /\ ~x.stale
             /\ \A s \in Send : s # r /\ send[s].pc = "commit" =>
                    Touches(x) \cap Touches(send[s]) = {}
  PROVE  SendingInv'
<1>1. send \in [Send -> SendState]
  BY DEF SendingInv, SendingTypeOK
<1>2. send'[r] = x /\ \A s \in Send : s # r => send'[s] = send[s]
  BY <1>1
<1>3. SendingTypeOK'
  BY <1>1 DEF SendingInv, SendingTypeOK
<1>4. RequestsSound'
  BY <1>2 DEF SendingInv, RequestsSound
<1>5. EarnedIsThere'
  BY <1>2 DEF SendingInv, EarnedIsThere, Covered
<1>6. WritersApart'
  BY <1>2 DEF SendingInv, WritersApart
<1>7. EarnedStaysPositive'
  BY DEF SendingInv, EarnedStaysPositive
<1> QED BY <1>3, <1>4, <1>5, <1>6, <1>7 DEF SendingInv

\* A request ends, having failed, or having sent credits or through the lite API.
LEMMA EndsInv ==
  ASSUME SendingInv, NEW r \in Send, NEW to \in {"done", "failed"}, send[r].pc # "idle",
         to = "done" => /\ send[r].kind # "plain"
                        /\ send[r].kind # "usdc" => moved[r] > 0,
         SendGoes(r, to),
         UNCHANGED <<member, earned, holds, moved, booked, stops>>
  PROVE  SendingInv'
<1> DEFINE x == [send[r] EXCEPT !.pc = to]
<1>1. send[r] \in SendState /\ moved \in [Send -> Nat] /\ holds \in [Party -> Int]
  BY DEF SendingInv, SendingTypeOK
<1>2. /\ x \in SendState /\ x.pc = to
      /\ x.kind = send[r].kind /\ x.from = send[r].from /\ x.txn = send[r].txn
      /\ x.run = send[r].run
  BY <1>1 DEF SendState
<1>3. send' = [send EXCEPT ![r] = x]
  BY DEF SendGoes
<1> HIDE DEF x
<1>4. Sound(x, moved[r], r \in booked)
  BY <1>2 DEF SendingInv, RequestsSound, Sound
<1>5. Covered(x) /\ x.pc # "commit"
  BY <1>2 DEF Covered, Open
<1> QED BY <1>1, <1>2, <1>3, <1>4, <1>5, RequestStep

LEMMA StartsInv ==
  ASSUME SendingInv, NEW r \in Send, NEW kind \in Kinds[r], NEW from \in Party,
         NEW to \in Party \cup {NoParty}, NEW address \in {"none", "own", "other"},
         Starts(r, kind, from, to, address)
  PROVE  SendingInv'
<1> DEFINE x == [NoSend EXCEPT !.pc = "read", !.kind = kind, !.from = from,
                               !.to = to, !.address = address]
<1>1. kind \in {"plain", "lite", "credits", "usdc"}
  BY SendingAssumption
<1>2. /\ x \in SendState
      /\ x.pc = "read" /\ x.from = from /\ x.txn = "none" /\ x.run = 1
  <2>1. NoSend \in SendState /\ NoSend.txn = "none" /\ NoSend.run = 1
    BY SendingAssumption DEF NoSend, SendState
  <2>2. \A y \in SendState : LET z == [y EXCEPT !.pc = "read", !.kind = kind, !.from = from,
                                               !.to = to, !.address = address]
                             IN  /\ z \in SendState /\ z.pc = "read" /\ z.from = from
                                 /\ z.txn = y.txn /\ z.run = y.run
    BY <1>1 DEF SendState, Serving
  <2> QED BY <2>1, <2>2
<1>3. send' = [send EXCEPT ![r] = x] /\ send[r].pc = "idle"
  BY DEF Starts
<1> HIDE DEF x
<1>4. moved[r] < 1 /\ moved \in [Send -> Nat] /\ holds \in [Party -> Int]
  BY <1>3 DEF SendingInv, SendingTypeOK, RequestsSound, Sound
<1>5. Sound(x, moved[r], r \in booked) /\ Covered(x)
  BY <1>2, <1>4 DEF Sound, Covered, Open
<1> QED BY <1>2, <1>3, <1>4, <1>5, RequestStep DEF Starts

\* The sender's member is read, with what was earned, or nothing for credits.
LEMMA ReadsInv ==
  ASSUME SendingInv, NEW r \in Send, ReadsEarned(r) \/ ReadsCredits(r)
  PROVE  SendingInv'
<1>1. send[r] \in SendState /\ moved \in [Send -> Nat] /\ holds \in [Party -> Int]
  BY DEF SendingInv, SendingTypeOK
<1>2. Sound(send[r], moved[r], r \in booked) /\ send[r].pc = "read"
  BY DEF SendingInv, RequestsSound, ReadsEarned, ReadsCredits
<1>3. CASE ReadsEarned(r)
  <2> DEFINE to == IF send[r].from \in member /\ earned[send[r].from] >= 1
                   THEN "transfer" ELSE "failed"
             x == [send[r] EXCEPT !.pc = to, !.stale = FALSE]
  <2>1. to \in {"transfer", "failed"} /\ (to = "transfer" => earned[send[r].from] >= 1)
    OBVIOUS
  <2>2. send' = [send EXCEPT ![r] = x]
    BY <1>3 DEF ReadsEarned
  <2> HIDE DEF to
  <2>3. /\ x \in SendState /\ x.pc = to
        /\ x.kind = send[r].kind /\ x.from = send[r].from /\ x.txn = send[r].txn
        /\ x.run = send[r].run
    BY <1>1, <2>1 DEF SendState, Serving, Open
  <2> HIDE DEF x
  <2>4. Sound(x, moved[r], r \in booked) /\ Covered(x) /\ x.pc # "commit"
    BY <1>2, <2>1, <2>3 DEF Sound, Covered, Open
  <2> QED BY <1>1, <1>3, <2>2, <2>3, <2>4, RequestStep DEF ReadsEarned
<1>4. CASE ReadsCredits(r)
  <2> DEFINE x == [send[r] EXCEPT !.pc = "transfer"]
  <2>1. /\ x \in SendState /\ x.pc = "transfer"
        /\ x.kind = send[r].kind /\ x.from = send[r].from /\ x.txn = send[r].txn
        /\ x.run = send[r].run
    BY <1>1 DEF SendState, Serving, Open
  <2>2. send' = [send EXCEPT ![r] = x] /\ send[r].kind # "plain"
    BY <1>4 DEF ReadsCredits, SendGoes, OfShares
  <2> HIDE DEF x
  <2>3. Sound(x, moved[r], r \in booked) /\ Covered(x)
    BY <1>2, <2>1, <2>2 DEF Sound, Covered
  <2> QED BY <1>1, <1>4, <2>1, <2>2, <2>3, RequestStep DEF ReadsCredits
<1> QED BY <1>3, <1>4

\* Sending, and what the chain makes of it, also long after it was sent.
LEMMA ChainInv ==
  ASSUME SendingInv, NEW r \in Send, Transfers(r) \/ Lands(r) \/ TransferFails(r)
  PROVE  SendingInv'
<1>1. /\ send[r] \in SendState /\ moved \in [Send -> Nat] /\ holds \in [Party -> Int]
      /\ Sound(send[r], moved[r], r \in booked) /\ Covered(send[r])
  BY DEF SendingInv, SendingTypeOK, RequestsSound, EarnedIsThere
<1>2. CASE Transfers(r)
  <2> DEFINE x == [send[r] EXCEPT !.pc = "await", !.txn = "inflight"]
  <2>1. /\ x \in SendState /\ x.pc = "await" /\ x.txn = "inflight"
        /\ x.kind = send[r].kind /\ x.from = send[r].from /\ x.run = send[r].run
        /\ x.stale = send[r].stale
    BY <1>1 DEF SendState, Serving, Open
  <2>2. send' = [send EXCEPT ![r] = x] /\ send[r].pc = "transfer"
    BY <1>2 DEF Transfers
  <2> HIDE DEF x
  <2>3. Sound(x, moved[r], r \in booked) /\ Covered(x)
    BY <1>1, <2>1, <2>2 DEF Sound, Covered, Open
  <2> QED BY <1>1, <1>2, <2>1, <2>2, <2>3, RequestStep DEF Transfers
<1>3. CASE Lands(r)
  <2> DEFINE x == [send[r] EXCEPT !.txn = "landed"]
  <2>1. /\ x \in SendState /\ x.txn = "landed" /\ x.pc = send[r].pc
        /\ x.kind = send[r].kind /\ x.from = send[r].from /\ x.to = send[r].to
        /\ x.run = send[r].run /\ x.stale = send[r].stale
    BY <1>1 DEF SendState
  <2>2. send' = [send EXCEPT ![r] = x] /\ send[r].txn = "inflight"
    BY <1>3 DEF Lands
  <2>3. /\ moved' = [moved EXCEPT ![r] = moved[r] + 1] /\ moved[r] \in Nat
        /\ UNCHANGED <<member, earned, booked, stops>>
    BY <1>1, <1>3 DEF Lands
  <2>4. holds' \in [Party -> Int]
    BY <1>1, <1>3 DEF Lands
  <2> HIDE DEF x
  <2>5. Sound(x, moved[r] + 1, r \in booked) /\ Covered(x) /\ x.pc # "commit"
    BY <1>1, <2>1, <2>2, <2>3 DEF Sound, Covered, SendState
  <2>6. /\ moved' \in [Send -> Nat] /\ moved'[r] = moved[r] + 1
        /\ \A s \in Send : s # r => moved'[s] = moved[s]
    BY <1>1, <2>3
  <2> QED BY <2>1, <2>2, <2>3, <2>4, <2>5, <2>6, RequestStep
<1>4. CASE TransferFails(r)
  <2> DEFINE x == [send[r] EXCEPT !.txn = "failed"]
  <2>1. /\ x \in SendState /\ x.txn = "failed" /\ x.pc = send[r].pc
        /\ x.kind = send[r].kind /\ x.from = send[r].from /\ x.to = send[r].to
        /\ x.run = send[r].run /\ x.stale = send[r].stale
    BY <1>1 DEF SendState
  <2>2. send' = [send EXCEPT ![r] = x] /\ send[r].txn = "inflight"
    BY <1>4 DEF TransferFails
  <2> HIDE DEF x
  <2>3. Sound(x, moved[r], r \in booked) /\ Covered(x) /\ x.pc # "commit"
    BY <1>1, <2>1, <2>2 DEF Sound, Covered
  <2> QED BY <1>1, <1>4, <2>1, <2>2, <2>3, RequestStep DEF TransferFails
<1> QED BY <1>2, <1>3, <1>4

\* A transfer that landed is booked, or ends the request.
LEMMA ReturnsInv ==
  ASSUME SendingInv, NEW r \in Send, TransferReturns(r) \/ SwapReturns(r) \/ SendThrows(r)
  PROVE  SendingInv'
<1>1. /\ send[r] \in SendState /\ moved \in [Send -> Nat] /\ holds \in [Party -> Int]
      /\ Sound(send[r], moved[r], r \in booked) /\ Covered(send[r])
  BY DEF SendingInv, SendingTypeOK, RequestsSound, EarnedIsThere
<1>2. CASE TransferReturns(r) /\ send[r].kind # "plain"
  BY <1>1, <1>2, EndsInv DEF TransferReturns, Sound
<1>3. CASE TransferReturns(r) /\ send[r].kind = "plain"
  <2> DEFINE x == [send[r] EXCEPT !.pc = "book"]
  <2>1. /\ x \in SendState /\ x.pc = "book" /\ x.txn = send[r].txn
        /\ x.kind = send[r].kind /\ x.from = send[r].from /\ x.run = send[r].run
        /\ x.stale = send[r].stale
    BY <1>1 DEF SendState, Serving, Open
  <2>2. send' = [send EXCEPT ![r] = x] /\ send[r].pc = "await" /\ send[r].txn = "landed"
    BY <1>3 DEF TransferReturns, SendGoes
  <2> HIDE DEF x
  <2>3. Sound(x, moved[r], r \in booked) /\ Covered(x)
    BY <1>1, <1>3, <2>1, <2>2 DEF Sound, Covered, Open
  <2> QED BY <1>1, <1>3, <2>1, <2>2, <2>3, RequestStep DEF TransferReturns
<1>4. CASE SwapReturns(r)
  BY <1>1, <1>4, EndsInv DEF SwapReturns
<1>5. CASE SendThrows(r)
  BY <1>1, <1>5, EndsInv DEF SendThrows
<1> QED BY <1>2, <1>3, <1>4, <1>5

\* A request books what nobody else has written or writes, or runs again.
LEMMA BooksInv ==
  ASSUME SendingInv, NEW r \in Send, Books(r) \/ Reruns(r)
  PROVE  SendingInv'
<1>1. /\ send[r] \in SendState /\ moved \in [Send -> Nat] /\ holds \in [Party -> Int]
      /\ Sound(send[r], moved[r], r \in booked) /\ Covered(send[r])
  BY DEF SendingInv, SendingTypeOK, RequestsSound, EarnedIsThere
<1>2. CASE Books(r)
  <2> DEFINE x == [send[r] EXCEPT !.pc = "commit"]
  <2>1. /\ x \in SendState /\ x.pc = "commit" /\ x.txn = send[r].txn
        /\ x.kind = send[r].kind /\ x.from = send[r].from /\ x.to = send[r].to
        /\ x.run = send[r].run /\ x.stale = send[r].stale
    BY <1>1 DEF SendState, Serving, Open
  <2>2. send' = [send EXCEPT ![r] = x] /\ send[r].pc = "book"
    BY <1>2 DEF Books, SendGoes
  <2> HIDE DEF x
  <2>3. /\ ~x.stale
        /\ \A s \in Send : s # r /\ send[s].pc = "commit" =>
               Touches(x) \cap Touches(send[s]) = {}
    BY <1>2, <2>1 DEF Books, Conflicts, Written, Touches
  <2>4. Sound(x, moved[r], r \in booked) /\ Covered(x)
    BY <1>1, <2>1, <2>2 DEF Sound, Covered, Open
  <2> QED BY <1>1, <1>2, <2>1, <2>2, <2>3, <2>4, RequestStep DEF Books
<1>3. CASE Reruns(r) /\ send[r].run < MaxRun
  <2> DEFINE x == [send[r] EXCEPT !.pc = "read", !.run = send[r].run + 1, !.txn = "none",
                                  !.stale = FALSE]
  <2>1. send[r].run + 1 \in 1..MaxRun
    BY <1>1, <1>3, SendingAssumption DEF SendState
  <2>2. /\ x \in SendState /\ x.pc = "read" /\ x.txn = "none"
        /\ x.from = send[r].from /\ x.run = send[r].run + 1
    BY <1>1, <2>1 DEF SendState, Serving
  <2>3. send' = [send EXCEPT ![r] = x] /\ send[r].pc \in {"book", "commit"}
    BY <1>1, <1>3 DEF Reruns
  <2> HIDE DEF x
  <2>4. Sound(x, moved[r], r \in booked) /\ Covered(x)
    BY <1>1, <2>1, <2>2, <2>3 DEF Sound, Covered, Open, SendState
  <2> QED BY <1>1, <1>3, <2>2, <2>3, <2>4, RequestStep DEF Reruns
<1>4. CASE Reruns(r) /\ ~(send[r].run < MaxRun)
  <2>1. SendGoes(r, "failed") /\ send[r].pc # "idle"
    BY <1>1, <1>4 DEF Reruns, SendGoes
  <2> QED BY <1>4, <2>1, EndsInv DEF Reruns
<1> QED BY <1>2, <1>3, <1>4

(***************************************************************************)
(* The steps that reach other requests.                                    *)
(***************************************************************************)

\* Somebody else's change of a document may outdate a transaction, and nothing
\* else of another request changes.
Outdated(s) == send'[s] = send[s] \/ send'[s] = [send[s] EXCEPT !.stale = TRUE]

LEMMA OutdatedFields ==
  ASSUME SendingTypeOK, NEW s \in Send, Outdated(s)
  PROVE  /\ send'[s] \in SendState
         /\ send'[s].pc = send[s].pc /\ send'[s].kind = send[s].kind
         /\ send'[s].from = send[s].from /\ send'[s].to = send[s].to
         /\ send'[s].txn = send[s].txn /\ send'[s].run = send[s].run
         /\ send[s].stale => send'[s].stale
  BY DEF SendingTypeOK, SendState, Outdated

\* A recipient becomes a member at once.
LEMMA MakesMemberInv ==
  ASSUME SendingInv, NEW r \in Send, MakesMember(r)
  PROVE  SendingInv'
<1>1. /\ send \in [Send -> SendState] /\ send[r].pc = "read" /\ send[r].kind = "lite"
      /\ Sound(send[r], moved[r], r \in booked)
  BY DEF SendingInv, SendingTypeOK, RequestsSound, MakesMember
<1>2. CASE send[r].from \notin member
  BY <1>1, <1>2, EndsInv DEF MakesMember
<1>3. CASE send[r].from \in member
  <2>1. /\ send' = [s \in Send |->
               IF s = r THEN [send[s] EXCEPT !.pc = "transfer"]
               ELSE IF Inserted(r) \cap Written(s) # {} THEN [send[s] EXCEPT !.stale = TRUE]
               ELSE send[s]]
        /\ \A s \in Send : send[s].pc = "commit" => Inserted(r) \cap Written(s) = {}
        /\ member' = member \cup Inserted(r)
        /\ UNCHANGED <<earned, holds, moved, booked, stops>>
    BY <1>3 DEF MakesMember
  <2>2. /\ send'[r] \in SendState /\ send'[r].pc = "transfer" /\ send'[r].kind = "lite"
        /\ send'[r].from = send[r].from /\ send'[r].txn = send[r].txn
        /\ send'[r].run = send[r].run
    BY <1>1, <2>1 DEF SendState, Serving, Open
  <2>3. /\ \A s \in Send : s # r => Outdated(s)
        /\ \A s \in Send : send[s].pc = "commit" => send'[s] = send[s]
    BY <1>1, <2>1 DEF Outdated
  <2>4. SendingTypeOK'
    BY <2>1, <2>2, <2>3, OutdatedFields DEF SendingInv, SendingTypeOK, Inserted
  <2>5. RequestsSound'
    <3>1. Sound(send'[r], moved[r], r \in booked)
      BY <1>1, <2>2 DEF Sound
    <3>2. ASSUME NEW s \in Send, s # r PROVE Sound(send'[s], moved[s], s \in booked)
      BY <2>3, <3>2, OutdatedFields DEF SendingInv, RequestsSound, Sound
    <3> QED BY <2>1, <3>1, <3>2 DEF RequestsSound
  <2>6. EarnedIsThere'
    BY <2>1, <2>2, <2>3, OutdatedFields DEF SendingInv, EarnedIsThere, Covered, SendState
  <2>7. WritersApart'
    <3>1. \A s \in Send : send'[s].pc = "commit" => s # r /\ send[s].pc = "commit"
      BY <2>2, <2>3, OutdatedFields DEF SendingInv
    <3> QED BY <2>3, <3>1 DEF SendingInv, WritersApart
  <2>8. EarnedStaysPositive'
    BY <2>1 DEF SendingInv, EarnedStaysPositive
  <2> QED BY <2>4, <2>5, <2>6, <2>7, <2>8 DEF SendingInv
<1> QED BY <1>2, <1>3

\* What the sender earned is there when it is subtracted, and those who had read
\* it are outdated.
LEMMA CommitsInv ==
  ASSUME SendingInv, NEW r \in Send, Commits(r)
  PROVE  SendingInv'
<1>1. /\ send \in [Send -> SendState] /\ earned \in [Party -> Int]
      /\ send[r].pc = "commit" /\ ~send[r].stale
      /\ Sound(send[r], moved[r], r \in booked) /\ Covered(send[r])
  BY DEF SendingInv, SendingTypeOK, RequestsSound, EarnedIsThere, WritersApart, Commits
<1>2. send[r].from \in Party /\ earned[send[r].from] >= 1 /\ moved[r] > 0
  BY <1>1 DEF Sound, Covered, Open
<1>3. /\ member' = member \cup Inserted(r)
      /\ earned' = [a \in Party |-> earned[a] - (IF a = send[r].from THEN 1 ELSE 0)
                                            + (IF a = send[r].to THEN 1 ELSE 0)]
      /\ send' = [s \in Send |->
             IF s = r THEN [send[s] EXCEPT !.pc = "done"]
             ELSE IF send[s].pc \in Open /\ Written(s) \cap Written(r) # {}
             THEN [send[s] EXCEPT !.stale = TRUE]
             ELSE send[s]]
      /\ booked' = booked \cup {r}
      /\ UNCHANGED <<holds, moved, stops>>
  BY DEF Commits
<1>4. /\ send'[r] \in SendState /\ send'[r].pc = "done" /\ send'[r].kind = send[r].kind
      /\ send'[r].from = send[r].from /\ send'[r].txn = send[r].txn
      /\ send'[r].run = send[r].run
  BY <1>1, <1>3 DEF SendState
<1>5. \A s \in Send : s # r => Outdated(s)
  BY <1>1, <1>3 DEF Outdated
<1>6. \A a \in Party : /\ earned'[a] \in Int /\ earned'[a] >= 0
                       /\ a \notin Touches(send[r]) => earned'[a] = earned[a]
  BY <1>1, <1>2, <1>3 DEF SendingInv, EarnedStaysPositive, Touches
<1>7. SendingTypeOK'
  <2>1. send' \in [Send -> SendState]
    BY <1>3, <1>4, <1>5, OutdatedFields DEF SendingInv
  <2>2. earned' \in [Party -> Int]
    BY <1>3, <1>6
  <2> QED BY <1>3, <2>1, <2>2 DEF SendingInv, SendingTypeOK, Inserted
<1>8. RequestsSound'
  <2>1. Sound(send'[r], moved[r], r \in booked')
    BY <1>1, <1>2, <1>3, <1>4 DEF Sound
  <2>2. ASSUME NEW s \in Send, s # r PROVE Sound(send'[s], moved[s], s \in booked')
    BY <1>3, <1>5, <2>2, OutdatedFields DEF SendingInv, RequestsSound, Sound
  <2> QED BY <1>3, <2>1, <2>2 DEF RequestsSound
<1>9. EarnedIsThere'
  <2> SUFFICES ASSUME NEW s \in Send, send'[s].kind = "plain", send'[s].pc \in Open,
                      ~send'[s].stale
               PROVE  earned'[send'[s].from] >= 1
    BY DEF EarnedIsThere, Covered
  <2>1. s # r /\ send[s].pc \in Open /\ send[s].kind = "plain" /\ ~send[s].stale
        /\ send'[s].from = send[s].from /\ send[s].from \in Party
    BY <1>4, <1>5, OutdatedFields DEF SendingInv, Open, RequestsSound, Sound, SendingTypeOK, SendState
  <2>2. Written(s) \cap Written(r) = {}
    <3> SUFFICES ASSUME Written(s) \cap Written(r) # {} PROVE FALSE
      OBVIOUS
    <3>1. send'[s] = [send[s] EXCEPT !.stale = TRUE] /\ send[s] \in SendState
      BY <1>1, <1>3, <2>1
    <3> QED BY <3>1 DEF SendState
  <2>3. send[s].from \notin Touches(send[r])
    BY <2>1, <2>2 DEF Written, Touches
  <2> QED BY <1>6, <2>1, <2>3 DEF SendingInv, EarnedIsThere, Covered
<1>10. WritersApart'
  <2>1. ASSUME NEW s \in Send, send'[s].pc = "commit"
        PROVE  s # r /\ send[s].pc = "commit" /\ send'[s] = send[s]
    <3>1. s # r /\ send[s].pc = "commit"
      BY <1>4, <1>5, <2>1, OutdatedFields DEF SendingInv
    <3>2. Written(s) \cap Written(r) = {}
      BY <1>1, <3>1 DEF SendingInv, WritersApart, Written, Touches
    <3> QED BY <1>3, <3>1, <3>2
  <2> QED BY <2>1 DEF SendingInv, WritersApart
<1>11. EarnedStaysPositive'
  BY <1>6 DEF EarnedStaysPositive
<1> QED BY <1>7, <1>8, <1>9, <1>10, <1>11 DEF SendingInv

LEMMA StopsInv == ASSUME SendingInv, Stops PROVE SendingInv'
<1>1. /\ send \in [Send -> SendState]
      /\ send' = [r \in Send |-> IF send[r].pc \in Serving
                                 THEN [send[r] EXCEPT !.pc = "failed"] ELSE send[r]]
      /\ UNCHANGED <<member, earned, holds, moved, booked>>
      /\ stops < MaxStop /\ stops' = stops + 1
  BY DEF SendingInv, SendingTypeOK, Stops
<1>2. \A r \in Send :
          /\ send'[r] \in SendState /\ send'[r].pc \notin Serving
          /\ send'[r].pc # send[r].pc => send'[r].pc = "failed" /\ send[r].pc \in Serving
          /\ send'[r].kind = send[r].kind /\ send'[r].from = send[r].from
          /\ send'[r].txn = send[r].txn /\ send'[r].run = send[r].run
  BY <1>1 DEF SendState, Serving, Open
<1>3. SendingTypeOK'
  BY <1>1, <1>2, SendingAssumption DEF SendingInv, SendingTypeOK
<1>4. RequestsSound'
  BY <1>1, <1>2 DEF SendingInv, RequestsSound, Sound, Serving, Open
<1>5. EarnedIsThere' /\ WritersApart'
  BY <1>2 DEF EarnedIsThere, Covered, WritersApart, Serving, Open
<1>6. EarnedStaysPositive'
  BY <1>1 DEF SendingInv, EarnedStaysPositive
<1> QED BY <1>3, <1>4, <1>5, <1>6 DEF SendingInv

LEMMA SendingNextInv == ASSUME SendingInv, [SendingNext]_sendingVars PROVE SendingInv'
<1>1. CASE UNCHANGED sendingVars
  BY <1>1 DEF sendingVars, SendingInv, SendingTypeOK, RequestsSound, EarnedIsThere, Covered,
              WritersApart, EarnedStaysPositive
<1>2. ASSUME NEW r \in Send, NEW kind \in Kinds[r], NEW from \in Party,
             NEW to \in Party \cup {NoParty}, NEW address \in {"none", "own", "other"},
             Starts(r, kind, from, to, address)
      PROVE  SendingInv'
  BY <1>2, StartsInv
<1>3. ASSUME NEW r \in Send,
             \/ ReadsEarned(r) \/ MakesMember(r) \/ ReadsCredits(r)
             \/ Transfers(r) \/ Lands(r) \/ TransferFails(r) \/ TransferReturns(r)
             \/ SwapReturns(r) \/ SendThrows(r) \/ Books(r) \/ Reruns(r) \/ Commits(r)
      PROVE  SendingInv'
  BY <1>3, ReadsInv, MakesMemberInv, ChainInv, ReturnsInv, BooksInv, CommitsInv
<1>4. CASE Stops
  BY <1>4, StopsInv
<1> QED BY <1>1, <1>2, <1>3, <1>4 DEF SendingNext

LEMMA SendingAlwaysInv == SendingSpec => []SendingInv
  BY SendingInitInv, SendingNextInv, PTL DEF SendingSpec

(***************************************************************************)
(* Theorems.                                                               *)
(***************************************************************************)

\* Members, requests and what moved keep their types.
THEOREM SendingCorrect == SendingSpec => []SendingTypeOK
<1>1. SendingInv => SendingTypeOK
  BY DEF SendingInv
<1> QED BY <1>1, SendingAlwaysInv, PTL

\* No member's lamportsEarned becomes negative, for any number of requests that
\* read it, transfer, and subtract from it only then.
THEOREM EarnedPositive == SendingSpec => []EarnedStaysPositive
<1>1. SendingInv => EarnedStaysPositive
  BY DEF SendingInv
<1> QED BY <1>1, SendingAlwaysInv, PTL

\* A request that succeeded was transferred, the swap excepted, and its transfer
\* landed again only where the callback ran again.
THEOREM SentMoved == SendingSpec => []SentIsMoved
<1>1. SendingInv => SentIsMoved
  BY DEF SendingInv, SendingTypeOK, SendState, RequestsSound, Sound, SentIsMoved
<1> QED BY <1>1, SendingAlwaysInv, PTL

=============================================================================
