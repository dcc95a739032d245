------------------------- MODULE ContributionsProofs -------------------------
(***************************************************************************)
(* What holds of ContributionsService for any number of members,           *)
(* contributions, requests, resends and restarts.  The steps of the chain  *)
(* and of confirmTxnWithRetry are those of TxnConfirm, so its invariant is *)
(* carried over instead of being proved again.                             *)
(***************************************************************************)
EXTENDS Contributions, Sums, FiniteSetTheorems, TLAPS

CP == INSTANCE TxnConfirmProofs WITH Job <- Contribution, StrictJob <- Contribution

(***************************************************************************)
(* The inductive invariant: how far the document, the background task and  *)
(* the call chain of one contribution may be apart.                        *)
(***************************************************************************)

\* A request that has something in flight works on a document that exists.
RequestsValid ==
    /\ \A q \in StartReq : start[q].pc = "save" => start[q].member \in Member
    /\ \A r \in StopReq :
           stop[r].pc \notin {"idle", "ended"} =>
               /\ stop[r].of \in Contribution
               /\ doc[stop[r].of].owner # NoMember

\* Before the stop commits there is no task and nothing was sent.
UnstoppedIsFresh ==
    \A c \in Contribution :
        /\ doc[c].owner = NoMember => ~doc[c].stopped
        /\ ~doc[c].stopped => /\ doc[c].status = "none"
                              /\ task[c].pc = "none"
                              /\ task[c].status = "none"
                              /\ pc[c] = "idle"

\* From then on the task says what the document will read.
TaskLeadsDoc ==
    \A c \in Contribution : doc[c].stopped =>
        /\ task[c].pc # "none"
        /\ task[c].pc = "mint" => task[c].status = "processing"
        /\ task[c].pc = "reverse" => task[c].status = "failed"
        /\ task[c].pc \in {"save", "done"} =>
               task[c].status \in {"confirmed", "failed", "reverted"}
        /\ task[c].status \in {"processing", "confirmed", "failed", "reverted"}
        /\ doc[c].status = IF task[c].pc = "done" THEN task[c].status
                           ELSE "processing"

\* The task's verdict and where the call chain ended.
VerdictFits ==
    \A c \in Contribution :
        /\ task[c].status = "confirmed" => \E i \in C!Attempt : txn[c][i] = "landed"
        /\ task[c].status \in {"failed", "reverted"} =>
               pc[c] = "threw" \/ doc[c].owner \in OrgMember

Inv ==
    /\ StateOK
    /\ CP!Inv
    /\ RequestsValid
    /\ UnstoppedIsFresh
    /\ TaskLeadsDoc
    /\ VerdictFits

\* Every step of a call chain or of the chain keeps what TxnConfirm keeps.
LEMMA ConfirmKeeps ==
  ASSUME CP!Inv, NEW c \in Contribution,
         C!Begin(c) \/ C!ConfirmStep(c) \/ C!ChainStep(c)
  PROVE  CP!Inv' /\ C!TypeOK'
<1>1. CP!Begin(c) \/ CP!ConfirmStep(c) \/ CP!ChainStep(c)
  BY DEF C!Begin, CP!Begin, C!ConfirmStep, CP!ConfirmStep, C!ChainStep, CP!ChainStep,
         C!Broadcast, CP!Broadcast, C!SendReturns, CP!SendReturns,
         C!SendThrows, CP!SendThrows, C!PollFinds, CP!PollFinds,
         C!PollFindsError, CP!PollFindsError, C!PollMisses, CP!PollMisses,
         C!ResendReturns, CP!ResendReturns, C!ResendThrows, CP!ResendThrows,
         C!SenderReturns, CP!SenderReturns, C!Settle, CP!Settle,
         C!Attempt, CP!Attempt
<1>2. CP!Inv'
  BY <1>1, CP!StepInv, BoundAssumption
<1>3. C!TypeOK'
  BY <1>2 DEF CP!Inv, CP!TypeOK, C!TypeOK, CP!Attempt, C!Attempt, CP!Running,
              C!Running, CP!Ended, C!Ended
<1> QED BY <1>2, <1>3

\* What a step of the service that leaves the call chains alone keeps.
LEMMA ConfirmUnchanged ==
  ASSUME CP!Inv, UNCHANGED confirmVars
  PROVE  CP!Inv' /\ (C!TypeOK => C!TypeOK')
<1>1. UNCHANGED CP!confirmVars
  BY DEF confirmVars, CP!confirmVars
<1>2. CP!Inv'
  BY <1>1, CP!NextInv, BoundAssumption
<1>3. C!TypeOK => C!TypeOK'
  BY DEF confirmVars, C!TypeOK
<1> QED BY <1>2, <1>3

\* A step of one job leaves the others alone, and the chain forgets nothing.
LEMMA ConfirmStepFrame ==
  ASSUME C!TypeOK, NEW c \in Contribution, C!ConfirmStep(c),
         NEW d \in Contribution, d # c
  PROVE  pc'[d] = pc[d] /\ txn'[d] = txn[d]
  BY DEF C!TypeOK, C!ConfirmStep, C!Broadcast, C!SendReturns, C!SendThrows,
         C!PollFinds, C!PollFindsError, C!PollMisses, C!ResendReturns,
         C!ResendThrows

LEMMA ChainStepFrame ==
  ASSUME C!TypeOK, NEW c \in Contribution, C!ChainStep(c),
         NEW d \in Contribution, NEW i \in C!Attempt, txn[d][i] = "landed"
  PROVE  txn'[d][i] = "landed" /\ pc' = pc
  BY DEF C!TypeOK, C!ChainStep, C!Settle

LEMMA InitInv == Init => Inv
<1> SUFFICES ASSUME Init PROVE Inv
  OBVIOUS
<1>1. CP!Inv
  <2>1. CP!Init
    BY DEF Init, C!Init, CP!Init, C!Attempt, CP!Attempt
  <2> QED BY <2>1, CP!InitInv, BoundAssumption
<1>2. C!TypeOK
  BY <1>1 DEF CP!Inv, CP!TypeOK, C!TypeOK, CP!Attempt, C!Attempt, CP!Running,
              C!Running, CP!Ended, C!Ended
<1>3. doc \in Docs /\ start \in Starts
  BY DEF Init, Docs, Starts, Status
<1>4. stop \in Stops /\ task \in Tasks
  BY DEF Init, Stops, Tasks, Status, Mint
<1>5. /\ orgMint \in Mint
      /\ creating \in BOOLEAN
      /\ crashes \in 0..MaxCrash
  <2>1. orgMint \in Mint
    BY DEF Init, Mint
  <2>2. creating \in BOOLEAN
    BY Zenon DEF Init
  <2>3. crashes \in 0..MaxCrash
    BY BoundAssumption DEF Init
  <2> QED BY <2>1, <2>2, <2>3
<1>6. StateOK
  BY <1>2, <1>3, <1>4, <1>5 DEF Init, StateOK
<1>7. RequestsValid /\ UnstoppedIsFresh /\ TaskLeadsDoc /\ VerdictFits
  BY DEF Init, C!Init, RequestsValid, UnstoppedIsFresh, TaskLeadsDoc, VerdictFits
<1> QED BY <1>1, <1>6, <1>7 DEF Inv

\* Starting work.
LEMMA StartInv ==
  ASSUME Inv,
         \/ \E q \in StartReq, account, m \in Member : StartChecks(q, account, m)
         \/ \E q \in StartReq, c \in Contribution : StartSaves(q, c)
  PROVE  Inv'
<1> USE DEF Inv
<1>1. CP!Inv' /\ C!TypeOK'
  BY ConfirmUnchanged DEF StartChecks, StartSaves, StateOK
<1>2. CASE \E q \in StartReq, account, m \in Member : StartChecks(q, account, m)
  <2>1. StateOK'
    BY <1>1, <1>2 DEF StartChecks, StateOK, Starts, dbVars, EndedStart
  <2>2. RequestsValid'
    BY <1>2 DEF StartChecks, StateOK, Starts, RequestsValid, dbVars, EndedStart
  <2>3. UnstoppedIsFresh' /\ TaskLeadsDoc' /\ VerdictFits'
    BY <1>2 DEF StartChecks, dbVars, confirmVars, UnstoppedIsFresh, TaskLeadsDoc,
                VerdictFits
  <2> QED BY <1>1, <2>1, <2>2, <2>3
<1>3. CASE \E q \in StartReq, c \in Contribution : StartSaves(q, c)
  <2>1. PICK q \in StartReq, c \in Contribution : StartSaves(q, c)
    BY <1>3
  <2>2. StateOK'
    <3>1. doc \in Docs /\ start[q].member \in Member
      BY <2>1 DEF StartSaves, RequestsValid, StateOK
    <3>2. doc' \in Docs
      BY <2>1, <3>1 DEF StartSaves, Docs
    <3>3. start' \in Starts
      BY <2>1 DEF StartSaves, StateOK, EndedStart, Starts
    <3> QED BY <1>1, <2>1, <3>2, <3>3 DEF StartSaves, StateOK
  <2>3. \A d \in Contribution :
            /\ doc'[d].stopped = doc[d].stopped
            /\ doc'[d].status = doc[d].status
            /\ doc[d].owner # NoMember => doc'[d].owner = doc[d].owner
            /\ doc'[d].owner = NoMember => doc[d].owner = NoMember
    BY <2>1 DEF StartSaves, StateOK, Docs, Starts, RequestsValid
  <2>4. RequestsValid'
    BY <2>1, <2>3, MemberAssumption DEF StartSaves, StateOK, Docs, Starts, RequestsValid, EndedStart
  <2>5. UnstoppedIsFresh' /\ TaskLeadsDoc'
    BY <2>1, <2>3 DEF StartSaves, confirmVars, UnstoppedIsFresh, TaskLeadsDoc
  <2>6. VerdictFits'
    BY <2>1, <2>3 DEF StartSaves, confirmVars, UnstoppedIsFresh, VerdictFits
  <2> QED BY <1>1, <2>2, <2>4, <2>5, <2>6
<1> QED BY <1>2, <1>3

\* What a stop request does before it commits, and the creation of the
\* organisation's token, never touch a contribution.
LEMMA StopInv ==
  ASSUME Inv,
         \/ \E r \in StopReq, account \in Member, c \in Contribution :
                StopFetchesOrg(r, account, c)
         \/ \E r \in StopReq :
                \/ EnsureMintReads(r)
                \/ EnsureMintCreates(r)
                \/ EnsureMintFails(r)
                \/ StopReads(r)
                \/ StopConflicts(r)
                \/ \E equity \in Investments : StopThrows(r, equity)
         \/ OrgTokenSettles
  PROVE  Inv'
<1> USE DEF Inv, dbVars
<1>1. /\ UNCHANGED <<doc, earned, lamportsMinted, start, task, crashes>>
      /\ UNCHANGED confirmVars
  BY DEF StopFetchesOrg, EnsureMintReads, EnsureMintCreates, EnsureMintFails,
         StopReads, StopConflicts, StopThrows, OrgTokenSettles
<1>2. CP!Inv' /\ C!TypeOK'
  BY <1>1, ConfirmUnchanged DEF StateOK
<1>3. UnstoppedIsFresh' /\ TaskLeadsDoc' /\ VerdictFits'
  BY <1>1 DEF confirmVars, UnstoppedIsFresh, TaskLeadsDoc, VerdictFits
<1>4. orgMint' \in Mint /\ creating' \in BOOLEAN /\ stop' \in Stops /\ RequestsValid'
  <2>1. CASE \E r \in StopReq, account \in Member, c \in Contribution :
                 StopFetchesOrg(r, account, c)
    BY <1>1, <2>1 DEF StopFetchesOrg, StateOK, Stops, RequestsValid
  <2>2. CASE \E r \in StopReq : EnsureMintReads(r) \/ EnsureMintFails(r)
    BY <1>1, <2>2 DEF EnsureMintReads, EnsureMintFails, EndedStop, StateOK, Stops,
                      RequestsValid, Mint
  <2>3. CASE \E r \in StopReq : EnsureMintCreates(r)
    BY <1>1, <2>3 DEF EnsureMintCreates, StateOK, Stops, RequestsValid, Mint
  <2>4. CASE \E r \in StopReq : StopReads(r)
    BY <1>1, <2>4 DEF StopReads, EndedStop, StateOK, Stops, RequestsValid, Mint
  <2>5. CASE \E r \in StopReq :
                 StopConflicts(r) \/ \E equity \in Investments : StopThrows(r, equity)
    BY <1>1, <2>5 DEF StopConflicts, StopThrows, EndedStop, StateOK, Stops,
                      RequestsValid, Mint
  <2>6. CASE OrgTokenSettles
    BY <1>1, <2>6 DEF OrgTokenSettles, StateOK, Stops, RequestsValid, Mint
  <2> QED BY <2>1, <2>2, <2>3, <2>4, <2>5, <2>6
<1> QED BY <1>1, <1>2, <1>3, <1>4 DEF StateOK

\* The stop commits: the document is booked, the task and its first call begin.
LEMMA CommitInv ==
  ASSUME Inv, NEW r \in StopReq, NEW lamports \in Lamports, NEW equity \in Investments,
         StopCommits(r, lamports, equity)
  PROVE  Inv'
<1> DEFINE c == stop[r].of
           split == S!SplitAmong(Member, doc[c].owner, lamports, equity)
<1> USE DEF Inv
<1>1. c \in Contribution /\ doc[c].owner \in Member /\ ~doc[c].stopped
  BY DEF StopCommits, Books, RequestsValid, Unwritten, StateOK, Docs
<1>2. /\ C!Begin(c)
      /\ doc' = [doc EXCEPT ![c].stopped = TRUE,
                            ![c].status = "processing",
                            ![c].lamports = lamports,
                            ![c].split = split]
      /\ task' = [task EXCEPT ![c] = [pc |-> "mint", status |-> "processing",
                                      mint |-> stop[r].mint]]
      /\ stop' = [stop EXCEPT ![r] = EndedStop]
      /\ lamportsMinted' = lamportsMinted + lamports
      /\ DOMAIN earned' = Member
      /\ UNCHANGED <<orgMint, creating, start, crashes>>
  BY DEF StopCommits, Books
<1>3. CP!Inv' /\ C!TypeOK'
  BY <1>1, <1>2, ConfirmKeeps
<1>4. split \in Splits
  BY <1>1 DEF Splits
<1> HIDE DEF c, split
<1>5. doc' \in Docs
  <2>1. doc \in Docs /\ lamports \in Nat /\ "processing" \in Status
    BY AmountAssumption DEF StateOK, Status
  <2> DEFINE booked == [doc[c] EXCEPT !.stopped = TRUE, !.status = "processing",
                                      !.lamports = lamports, !.split = split]
  <2>2. booked \in [owner : Member \cup {NoMember}, stopped : BOOLEAN, status : Status,
                    lamports : Nat, split : Splits \cup {NoSplit}]
    BY <1>1, <1>4, <2>1 DEF Docs
  <2>3. doc' = [doc EXCEPT ![c] = booked]
    BY <1>1, <1>2, <2>1 DEF Docs
  <2> HIDE DEF booked
  <2> QED BY <1>1, <2>1, <2>2, <2>3 DEF Docs
<1>6. stop' \in Stops /\ task' \in Tasks
  <2>1. EndedStop \in [pc : {"idle", "ensure", "create", "read", "commit", "ended"},
                       of : Contribution \cup {NoContribution},
                       by : Member \cup {NoMember},
                       mint : Mint]
    BY DEF EndedStop, Mint
  <2> QED BY <1>1, <1>2, <2>1 DEF StateOK, Stops, Tasks, Status
<1>7. StateOK'
  BY <1>2, <1>3, <1>5, <1>6, AmountAssumption DEF StateOK
<1>8. RequestsValid'
  BY <1>1, <1>2 DEF StateOK, Docs, Stops, RequestsValid, EndedStop
<1>9. /\ pc' = [pc EXCEPT ![c] = "send"] /\ txn' = txn
      /\ pc \in [Contribution -> {"idle"} \cup C!Running \cup C!Ended]
  BY <1>2 DEF C!Begin, StateOK, C!TypeOK
<1>10. UnstoppedIsFresh' /\ TaskLeadsDoc'
  BY <1>1, <1>2, <1>9 DEF StateOK, Docs, Tasks, UnstoppedIsFresh, TaskLeadsDoc
<1>11. VerdictFits'
  BY <1>1, <1>2, <1>9 DEF StateOK, Docs, Tasks, VerdictFits, UnstoppedIsFresh
<1> QED BY <1>3, <1>7, <1>8, <1>10, <1>11

\* A task whose contribution is being minted belongs to a stop that committed.
LEMMA TaskIsOfStopped ==
  ASSUME Inv, NEW c \in Contribution, task[c].pc # "none"
  PROVE  doc[c].stopped /\ doc[c].owner \in Member
  BY DEF Inv, UnstoppedIsFresh, StateOK, Docs

\* The steps that only move the task's program counter and verdict.
LEMMA TaskMovesInv ==
  ASSUME Inv, NEW c \in Contribution,
         TaskConfirms(c) \/ TaskFails(c) \/ TaskReverses(c) \/ TaskCannotReverse(c)
  PROVE  Inv'
<1> USE DEF Inv, dbVars
<1>1. /\ task[c].pc \in {"mint", "reverse"}
      /\ UNCHANGED <<doc, orgMint, creating, start, stop, crashes>>
      /\ UNCHANGED confirmVars
      /\ \A d \in Contribution : d # c => task'[d] = task[d]
      /\ DOMAIN earned' = Member
      /\ lamportsMinted' \in Int
  BY DEF TaskConfirms, TaskFails, TaskReverses, TaskCannotReverse, StateOK, Docs, Tasks
<1>2. CP!Inv' /\ C!TypeOK'
  BY <1>1, ConfirmUnchanged DEF StateOK
<1>3. doc[c].stopped /\ doc[c].owner \in Member /\ doc[c].status = "processing"
  BY <1>1, TaskIsOfStopped DEF TaskLeadsDoc
<1>4. task' \in Tasks
  BY DEF TaskConfirms, TaskFails, TaskReverses, TaskCannotReverse, StateOK, Tasks, Status
<1>5. \/ /\ task'[c].pc = "save" /\ task'[c].status = "confirmed"
         /\ pc[c] = "returned"
      \/ /\ task'[c].pc = "reverse" /\ task'[c].status = "failed"
         /\ pc[c] = "threw" \/ doc[c].owner \in OrgMember
      \/ /\ task[c].pc = "reverse" /\ task'[c].pc = "save"
         /\ task'[c].status \in {"failed", "reverted"}
  <2> USE DEF StateOK, Tasks
  <2>1. CASE TaskConfirms(c)
    BY <2>1 DEF TaskConfirms, NicknamesThrow
  <2>2. CASE TaskFails(c)
    BY <2>2 DEF TaskFails
  <2>3. CASE TaskReverses(c)
    BY <2>3 DEF TaskReverses
  <2>4. CASE TaskCannotReverse(c)
    BY <1>3, <2>4 DEF TaskCannotReverse, TaskLeadsDoc
  <2> QED BY <2>1, <2>2, <2>3, <2>4
<1>6. StateOK'
  BY <1>1, <1>2, <1>4 DEF StateOK
<1>7. RequestsValid'
  BY <1>1 DEF RequestsValid
<1>8. UnstoppedIsFresh' /\ TaskLeadsDoc'
  BY <1>1, <1>3, <1>5 DEF confirmVars, UnstoppedIsFresh, TaskLeadsDoc
<1>9. pc[c] = "returned" => \E i \in C!Attempt : txn[c][i] = "landed"
  <2> SUFFICES ASSUME pc[c] = "returned" PROVE \E i \in C!Attempt : txn[c][i] = "landed"
    OBVIOUS
  <2>1. hash[c] >= 1 /\ hash[c] \in 0..MaxSend
    BY DEF CP!Inv, CP!TypeOK, CP!HashIsSent
  <2>2. hash[c] \in C!Attempt
    BY <2>1, BoundAssumption DEF C!Attempt
  <2>3. txn[c][hash[c]] = "landed"
    BY DEF CP!Inv, CP!ReturnedIsLanded
  <2> QED BY <2>2, <2>3
<1>10. VerdictFits'
  BY <1>1, <1>3, <1>5, <1>9 DEF confirmVars, TaskLeadsDoc, VerdictFits
<1> QED BY <1>2, <1>6, <1>7, <1>8, <1>10

\* The task's save.
LEMMA TaskSavesInv ==
  ASSUME Inv, NEW c \in Contribution, TaskSaves(c)
  PROVE  Inv'
<1> USE DEF Inv
<1>1. CP!Inv' /\ C!TypeOK'
  BY ConfirmUnchanged DEF TaskSaves, StateOK
<1>2. doc[c].stopped /\ task[c].status \in {"confirmed", "failed", "reverted"}
  BY TaskIsOfStopped DEF TaskSaves, TaskLeadsDoc
<1>3. doc' \in Docs /\ task' \in Tasks
  <2>1. doc \in Docs /\ task \in Tasks
    BY DEF StateOK
  <2>2. task[c].status \in Status
    BY <2>1 DEF Tasks
  <2> HIDE DEF Inv
  <2>3. doc' \in Docs
    BY <2>1, <2>2 DEF TaskSaves, Docs
  <2>4. task' \in Tasks
    BY <2>1 DEF TaskSaves, Tasks
  <2> QED BY <2>3, <2>4
<1>4. StateOK'
  BY <1>1, <1>3 DEF TaskSaves, StateOK
<1>5. \A d \in Contribution :
          /\ doc'[d].owner = doc[d].owner /\ doc'[d].stopped = doc[d].stopped
          /\ task'[d].status = task[d].status
          /\ d # c => doc'[d] = doc[d] /\ task'[d] = task[d]
          /\ d = c => /\ doc'[d].status = task[d].status /\ task'[d].pc = "done"
  BY DEF TaskSaves, StateOK, Docs, Tasks
<1>6. RequestsValid'
  BY <1>5 DEF TaskSaves, RequestsValid
<1>7. UnstoppedIsFresh' /\ TaskLeadsDoc'
  BY <1>2, <1>5 DEF TaskSaves, confirmVars, UnstoppedIsFresh, TaskLeadsDoc
<1>8. VerdictFits'
  BY <1>5 DEF TaskSaves, confirmVars, VerdictFits
<1> QED BY <1>1, <1>4, <1>6, <1>7, <1>8

\* Minting, confirming and the chain.
LEMMA MintingInv ==
  ASSUME Inv, NEW c \in Contribution, TaskMints(c) \/ ChainSettles(c)
  PROVE  Inv'
<1> USE DEF Inv, dbVars
<1>1. /\ UNCHANGED <<doc, earned, lamportsMinted, orgMint, creating>>
      /\ UNCHANGED <<start, stop, task, crashes>>
      /\ C!ConfirmStep(c) \/ C!ChainStep(c)
  BY DEF TaskMints, ChainSettles
<1>2. CP!Inv' /\ C!TypeOK'
  BY <1>1, ConfirmKeeps
<1>3. StateOK' /\ RequestsValid' /\ TaskLeadsDoc'
  BY <1>1, <1>2 DEF StateOK, RequestsValid, TaskLeadsDoc
<1>4. CASE TaskMints(c)
  <2>1. C!ConfirmStep(c) /\ doc[c].stopped /\ task[c].status = "processing"
    BY <1>4, TaskIsOfStopped DEF TaskMints, TaskLeadsDoc
  <2>2. \A d \in Contribution : d # c => pc'[d] = pc[d] /\ txn'[d] = txn[d]
    BY <2>1, ConfirmStepFrame DEF StateOK
  <2>3. UnstoppedIsFresh' /\ VerdictFits'
    BY <1>1, <2>1, <2>2 DEF UnstoppedIsFresh, VerdictFits
  <2> QED BY <1>2, <1>3, <2>3
<1>5. CASE ChainSettles(c)
  <2>1. /\ pc' = pc
        /\ \A d \in Contribution : \A i \in C!Attempt :
               txn[d][i] = "landed" => txn'[d][i] = "landed"
    <3>1. C!ChainStep(c) /\ C!TypeOK
      BY <1>5 DEF ChainSettles, StateOK
    <3>2. pc' = pc
      BY <3>1 DEF C!ChainStep, C!Settle
    <3> QED BY <3>1, <3>2, ChainStepFrame
  <2>2. UnstoppedIsFresh' /\ VerdictFits'
    BY <1>1, <2>1 DEF UnstoppedIsFresh, VerdictFits
  <2> QED BY <1>2, <1>3, <2>2
<1> QED BY <1>4, <1>5

\* The process dies, on its own or because of an unhandled rejection.
LEMMA CrashInv ==
  ASSUME Inv, Crash \/ \E c \in Contribution : TaskThrowsNil(c)
  PROVE  Inv'
<1> USE DEF Inv
<1>1. /\ ProcessDies
      /\ creating' = FALSE
      /\ crashes' \in 0..MaxCrash
  BY BoundAssumption DEF Crash, TaskThrowsNil, StateOK
<1>2. UNCHANGED <<doc, earned, lamportsMinted, orgMint>> /\ UNCHANGED confirmVars
  BY <1>1 DEF ProcessDies
<1>3. CP!Inv' /\ C!TypeOK'
  BY <1>2, ConfirmUnchanged DEF StateOK
<1>4. start' \in Starts
  BY <1>1 DEF ProcessDies, StateOK, Starts, EndedStart
<1>5. stop' \in Stops
  <2>1. EndedStop \in [pc : {"idle", "ensure", "create", "read", "commit", "ended"},
                       of : Contribution \cup {NoContribution},
                       by : Member \cup {NoMember},
                       mint : Mint]
    BY DEF EndedStop, Mint
  <2> QED BY <1>1, <2>1 DEF ProcessDies, StateOK, Stops
<1>6. task' \in Tasks
  BY <1>1 DEF ProcessDies, StateOK, Tasks
<1>7. StateOK'
  <2>1. creating' \in BOOLEAN
    BY <1>1, Zenon
  <2> QED BY <1>1, <1>2, <1>3, <1>4, <1>5, <1>6, <2>1 DEF StateOK
<1>8. RequestsValid'
  BY <1>1, <1>2 DEF ProcessDies, EndedStart, EndedStop, RequestsValid
<1>9. \A c \in Contribution :
          /\ task'[c].status = task[c].status
          /\ \/ task'[c].pc = task[c].pc /\ task[c].pc \notin {"mint", "reverse", "save"}
             \/ task'[c].pc = "dead" /\ task[c].pc \in {"mint", "reverse", "save"}
  BY <1>1 DEF ProcessDies, StateOK, Tasks
<1>10. UnstoppedIsFresh' /\ TaskLeadsDoc'
  BY <1>2, <1>9 DEF confirmVars, UnstoppedIsFresh, TaskLeadsDoc
<1>11. VerdictFits'
  BY <1>2, <1>9 DEF confirmVars, VerdictFits
<1> QED BY <1>3, <1>7, <1>8, <1>10, <1>11

LEMMA NextInv == Inv /\ [Next]_vars => Inv'
<1> SUFFICES ASSUME Inv, [Next]_vars PROVE Inv'
  OBVIOUS
<1>1. CASE UNCHANGED vars
  <2>1. /\ UNCHANGED <<doc, earned, lamportsMinted, orgMint, creating>>
        /\ UNCHANGED <<start, stop, task, crashes>>
        /\ UNCHANGED confirmVars
    BY <1>1 DEF vars, confirmVars
  <2>2. CP!Inv' /\ C!TypeOK'
    BY <2>1, ConfirmUnchanged DEF Inv, StateOK
  <2>3. StateOK'
    BY <2>1, <2>2 DEF Inv, StateOK
  <2>4. RequestsValid' /\ UnstoppedIsFresh' /\ TaskLeadsDoc' /\ VerdictFits'
    BY <2>1 DEF Inv, confirmVars, RequestsValid, UnstoppedIsFresh, TaskLeadsDoc,
                VerdictFits
  <2> QED BY <2>2, <2>3, <2>4 DEF Inv
<1>2. CASE \E r \in StopReq : StopStep(r)
  BY <1>2, StopInv, CommitInv DEF StopStep
<1>3. CASE \E c \in Contribution : TaskStep(c)
  BY <1>3, MintingInv, TaskMovesInv, TaskSavesInv, CrashInv DEF TaskStep
<1>4. CASE Next /\ ~(\E r \in StopReq : StopStep(r)) /\ ~(\E c \in Contribution : TaskStep(c))
  BY <1>4, StartInv, StopInv, MintingInv, CrashInv DEF Next
<1> QED BY <1>1, <1>2, <1>3, <1>4

LEMMA SpecInv == Spec => []Inv
  BY InitInv, NextInv, PTL DEF Spec

(***************************************************************************)
(* The theorems.                                                           *)
(***************************************************************************)

\* A contribution that reads confirmed has its tokens on chain, however many
\* requests, resends and restarts came in between.
THEOREM ConfirmedOnChain == Spec => []ConfirmedIsOnChain
<1>1. Inv => ConfirmedIsOnChain
  <2> SUFFICES ASSUME Inv, NEW c \in Contribution, doc[c].status = "confirmed"
               PROVE  C!Landed(c) # {}
    BY DEF ConfirmedIsOnChain
  <2>1. task[c].status = "confirmed"
    BY DEF Inv, UnstoppedIsFresh, TaskLeadsDoc
  <2> QED BY <2>1 DEF Inv, VerdictFits, C!Landed
<1> QED BY <1>1, SpecInv, PTL

\* A reverted contribution of a user was minted at most once: the task never
\* reverses after confirmTxnWithRetry sent again.
THEOREM RevertedMintedOnce == Spec => []RevertedMintedOnceAtMost
<1>1. Inv => RevertedMintedOnceAtMost
  <2> SUFFICES ASSUME Inv, NEW c \in Contribution, doc[c].status = "reverted",
                      doc[c].owner \notin OrgMember
               PROVE  Cardinality(C!Landed(c)) <= 1
    BY DEF RevertedMintedOnceAtMost
  <2>1. pc[c] = "threw"
    BY DEF Inv, UnstoppedIsFresh, TaskLeadsDoc, VerdictFits
  <2>2. sent[c] <= 1 /\ sent[c] \in Nat
    BY <2>1 DEF Inv, CP!Inv, CP!FirstCallSendsOnce, CP!TypeOK
  <2>3. C!Landed(c) \subseteq {1}
    BY <2>2, BoundAssumption
    DEF Inv, CP!Inv, CP!SentInOrder, C!Landed, C!Attempt, CP!Attempt
  <2>4. IsFiniteSet({1}) /\ Cardinality({1}) = 1
    BY FS_Singleton
  <2> QED BY <2>3, <2>4, FS_Subset
<1> QED BY <1>1, SpecInv, PTL

\* Once stopped, a contribution only ever changes its status, from processing
\* and once.
THEOREM StopFinal == Spec => StopIsFinal
<1>1. ASSUME Inv, Next, NEW c \in Contribution, doc[c].stopped
      PROVE  /\ doc'[c] = [doc[c] EXCEPT !.status = doc'[c].status]
             /\ doc[c].status # "processing" => doc'[c] = doc[c]
  <2> USE DEF Inv
  <2>0. doc \in Docs /\ doc[c].owner # NoMember
    BY <1>1 DEF StateOK, UnstoppedIsFresh
  <2>1. CASE doc' = doc
    BY <1>1, <2>0, <2>1 DEF Docs
  <2>2. CASE \E q \in StartReq, d \in Contribution : StartSaves(q, d)
    <3>1. doc'[c] = doc[c]
      BY <1>1, <2>0, <2>2 DEF StartSaves, Docs
    <3> QED BY <1>1, <2>0, <3>1 DEF Docs
  <2>3. CASE \E r \in StopReq, lamports \in Lamports, equity \in Investments :
                 StopCommits(r, lamports, equity)
    <3>1. doc'[c] = doc[c]
      BY <1>1, <2>0, <2>3 DEF StopCommits, Books, Unwritten, Docs
    <3> QED BY <1>1, <2>0, <3>1 DEF Docs
  <2>4. CASE \E d \in Contribution : TaskSaves(d)
    <3>1. PICK d \in Contribution : TaskSaves(d)
      BY <2>4
    <3>2. doc' = [doc EXCEPT ![d].status = task[d].status] /\ task[d].pc = "save"
      BY <3>1 DEF TaskSaves
    <3>3. CASE d = c
      <4>1. doc[c].status = "processing"
        BY <1>1, <3>2, <3>3 DEF TaskLeadsDoc
      <4>2. doc'[c] = [doc[c] EXCEPT !.status = doc'[c].status]
        BY <1>1, <2>0, <3>2, <3>3 DEF Docs
      <4> QED BY <4>1, <4>2
    <3>4. CASE d # c
      <4>1. doc'[c] = doc[c]
        BY <1>1, <2>0, <3>2, <3>4 DEF Docs
      <4> QED BY <1>1, <2>0, <4>1 DEF Docs
    <3> QED BY <3>3, <3>4
  <2> QED
    BY <1>1, <2>1, <2>2, <2>3, <2>4
    DEF Next, StopStep, TaskStep, StartChecks, StopFetchesOrg, EnsureMintReads,
        EnsureMintCreates, EnsureMintFails, StopReads, StopConflicts, StopThrows,
        OrgTokenSettles, TaskMints, TaskConfirms, TaskFails, TaskReverses,
        TaskCannotReverse, TaskThrowsNil, Crash, ProcessDies, ChainSettles, dbVars
<1>2. Inv /\ [Next]_vars =>
          [\A c \in Contribution :
              doc[c].stopped =>
                  /\ doc'[c] = [doc[c] EXCEPT !.status = doc'[c].status]
                  /\ doc[c].status # "processing" => doc'[c] = doc[c]]_vars
  BY <1>1
<1> QED BY <1>2, SpecInv, PTL DEF Spec, StopIsFinal

(***************************************************************************)
(* The service implements ContributionLedger: starting work opens, a stop  *)
(* that commits books, a save of confirmed keeps, a reversal undoes, a     *)
(* first landing mints, and every other step is invisible.                 *)
(***************************************************************************)

\* Phase, case by case.
PhaseTable ==
    \A c \in Contribution :
        /\ doc[c].owner = NoMember => Phase(c) = "none" /\ ~doc[c].stopped
        /\ doc[c].owner # NoMember /\ ~doc[c].stopped => Phase(c) = "open"
        /\ doc[c].stopped /\ task[c].status = "reverted" => Phase(c) = "undone"
        /\ doc[c].stopped /\ doc[c].status = "confirmed" => Phase(c) = "kept"
        /\ doc[c].stopped /\ task[c].status # "reverted" /\ doc[c].status # "confirmed"
               => Phase(c) = "booked"

LEMMA PhaseIsTable == Inv => PhaseTable
<1> SUFFICES ASSUME Inv, NEW c \in Contribution
             PROVE  /\ doc[c].owner = NoMember => Phase(c) = "none" /\ ~doc[c].stopped
                    /\ doc[c].owner # NoMember /\ ~doc[c].stopped => Phase(c) = "open"
                    /\ doc[c].stopped /\ task[c].status = "reverted" => Phase(c) = "undone"
                    /\ doc[c].stopped /\ doc[c].status = "confirmed" => Phase(c) = "kept"
                    /\ doc[c].stopped /\ task[c].status # "reverted"
                           /\ doc[c].status # "confirmed" => Phase(c) = "booked"
  BY DEF PhaseTable
<1>1. /\ doc[c].owner = NoMember => ~doc[c].stopped
      /\ doc[c].stopped /\ doc[c].status = "confirmed" => task[c].status # "reverted"
  BY DEF Inv, UnstoppedIsFresh, TaskLeadsDoc
<1> QED BY <1>1 DEF Phase

\* What a step does to the chain as the ledger sees it.
LEMMA LandedSteps ==
  ASSUME Inv, NEW c \in Contribution
  PROVE  /\ TaskMints(c) => \A d \in Contribution : C!Landed(d)' = C!Landed(d)
         /\ ChainSettles(c) =>
                /\ C!Landed(c) \subseteq C!Landed(c)'
                /\ \A d \in Contribution : d # c => C!Landed(d)' = C!Landed(d)
                /\ doc[c].stopped
<1> USE DEF C!Landed
<1>1. C!TypeOK
  BY DEF Inv, StateOK
<1>2. ASSUME TaskMints(c), NEW d \in Contribution PROVE C!Landed(d)' = C!Landed(d)
  <2>1. C!ConfirmStep(c)
    BY <1>2 DEF TaskMints
  <2>2. CASE C!Broadcast(c)
    <3>1. /\ sent[c] \in Nat /\ sent[c] + 1 \in C!Attempt
          /\ txn' = [txn EXCEPT ![c][sent[c] + 1] = "inflight"]
      BY <1>1, <2>2, BoundAssumption DEF C!Broadcast, C!TypeOK, C!Attempt
    <3>2. txn[c][sent[c] + 1] = "unsent"
      BY <3>1 DEF Inv, CP!Inv, CP!SentInOrder, C!Attempt, CP!Attempt
    <3> QED BY <1>1, <3>1, <3>2 DEF C!TypeOK
  <2>3. CASE txn' = txn
    BY <2>3
  <2> QED
    BY <2>1, <2>2, <2>3
    DEF C!ConfirmStep, C!SendReturns, C!SendThrows, C!PollFinds, C!PollFindsError,
        C!PollMisses, C!ResendReturns, C!ResendThrows
<1>3. ASSUME ChainSettles(c)
      PROVE  /\ C!Landed(c) \subseteq C!Landed(c)'
             /\ \A d \in Contribution : d # c => C!Landed(d)' = C!Landed(d)
             /\ doc[c].stopped
  <2>1. PICK i \in C!Attempt : C!Settle(c, i)
    BY <1>3 DEF ChainSettles, C!ChainStep
  <2>2. txn[c][i] = "inflight"
    BY <2>1 DEF C!Settle
  <2>3. doc[c].stopped
    <3> SUFFICES ASSUME ~doc[c].stopped PROVE FALSE
      OBVIOUS
    <3>1. pc[c] = "idle"
      BY DEF Inv, UnstoppedIsFresh
    <3>2. sent[c] = 0 /\ i > 0
      BY <3>1 DEF Inv, CP!Inv, CP!FirstCallSendsOnce, C!Attempt
    <3>3. txn[c][i] = "unsent"
      BY <3>2 DEF Inv, CP!Inv, CP!SentInOrder, C!Attempt, CP!Attempt
    <3> QED BY <2>2, <3>3
  <2>4. C!Landed(c) \subseteq C!Landed(c)'
    BY <1>1, <2>1, <2>2 DEF C!Settle, C!TypeOK
  <2>5. \A d \in Contribution : d # c => C!Landed(d)' = C!Landed(d)
    BY <1>1, <2>1 DEF C!Settle, C!TypeOK
  <2> QED BY <2>3, <2>4, <2>5
<1> QED BY <1>2, <1>3

LEMMA LedgerInit == Init => Ledger!Init
  BY DEF Init, C!Init, Ledger!Init, Phase, C!Landed

LEMMA LedgerStep == Inv /\ Inv' /\ [Next]_vars => [Ledger!Next]_(Ledger!ledgerVars)
<1> SUFFICES ASSUME Inv, Inv', [Next]_vars
             PROVE  Ledger!Next \/ UNCHANGED Ledger!ledgerVars
  OBVIOUS
<1> DEFINE phase == [c \in Contribution |-> Phase(c)]
           onChain == {c \in Contribution : C!Landed(c) # {}}
           LandedKept == \A c \in Contribution : C!Landed(c)' = C!Landed(c)
           PhaseKept == \A c \in Contribution : Phase(c)' = Phase(c)
           Goes(c, from, to) ==
               /\ Phase(c) = from /\ Phase(c)' = to
               /\ \A d \in Contribution : d # c => Phase(d)' = Phase(d)
<1>1. PhaseTable /\ PhaseTable'
  BY PhaseIsTable, PTL
<1>2. doc \in Docs /\ task \in Tasks
  BY DEF Inv, StateOK
<1>3. ASSUME PhaseKept, LandedKept PROVE UNCHANGED Ledger!ledgerVars
  BY <1>3 DEF Ledger!ledgerVars
<1>4. ASSUME NEW c \in Contribution, NEW from, NEW to, Goes(c, from, to), LandedKept
      PROVE  Ledger!Move(c, from, to)
  <2>1. onChain' = onChain
    BY <1>4
  <2>2. phase' = [phase EXCEPT ![c] = to]
    BY <1>4
  <2>3. phase[c] = from
    BY <1>4
  <2> QED BY <2>1, <2>2, <2>3 DEF Ledger!Move
<1>5. ASSUME UNCHANGED confirmVars PROVE LandedKept
  BY <1>5 DEF confirmVars, C!Landed
<1>6. CASE \E q \in StartReq, c \in Contribution : StartSaves(q, c)
  <2>1. PICK q \in StartReq, c \in Contribution : StartSaves(q, c)
    BY <1>6
  <2>2. start[q].member # NoMember
    BY <2>1, MemberAssumption DEF StartSaves, Inv, RequestsValid
  <2>3. /\ doc[c].owner = NoMember /\ doc'[c].owner # NoMember
        /\ doc'[c].stopped = doc[c].stopped
        /\ \A d \in Contribution : d # c => doc'[d] = doc[d]
        /\ task' = task
    BY <1>2, <2>1, <2>2 DEF StartSaves, Docs
  <2>4. Goes(c, "none", "open")
    BY <1>1, <2>3 DEF PhaseTable, Phase
  <2>5. LandedKept
    BY <1>5, <2>1 DEF StartSaves
  <2> QED BY <1>4, <2>4, <2>5 DEF Ledger!Next, Ledger!Open
<1>7. CASE \E r \in StopReq, lamports \in Lamports, equity \in Investments :
               StopCommits(r, lamports, equity)
  <2>1. PICK r \in StopReq, lamports \in Lamports, equity \in Investments :
                 StopCommits(r, lamports, equity)
    BY <1>7
  <2>2. PICK c \in Contribution : /\ c = stop[r].of
                                 /\ doc[c].owner # NoMember /\ ~doc[c].stopped
    BY <2>1 DEF StopCommits, Books, Inv, RequestsValid, Unwritten
  <2>3. /\ doc'[c].owner = doc[c].owner /\ doc'[c].stopped
        /\ doc'[c].status = "processing" /\ task'[c].status = "processing"
        /\ \A d \in Contribution : d # c => doc'[d] = doc[d] /\ task'[d] = task[d]
    BY <1>2, <2>1, <2>2 DEF StopCommits, Books, Docs, Tasks
  <2>4. C!Begin(c)
    BY <2>1, <2>2 DEF StopCommits, Books
  <2>5. Goes(c, "open", "booked")
    BY <1>1, <2>2, <2>3 DEF PhaseTable, Phase
  <2>6. LandedKept
    BY <2>4 DEF C!Begin, C!Landed
  <2> QED BY <1>4, <2>2, <2>5, <2>6 DEF Ledger!Next, Ledger!Book
<1>8. CASE \E c \in Contribution : TaskMints(c)
  <2>1. LandedKept
    BY <1>8, LandedSteps
  <2>2. doc' = doc /\ task' = task
    BY <1>8 DEF TaskMints, dbVars
  <2>3. PhaseKept
    BY <2>2 DEF Phase
  <2> QED BY <1>3, <2>1, <2>3
<1>9. CASE \E c \in Contribution : ChainSettles(c)
  <2>1. PICK c \in Contribution : ChainSettles(c)
    BY <1>9
  <2>2. /\ C!Landed(c) \subseteq C!Landed(c)'
        /\ \A d \in Contribution : d # c => C!Landed(d)' = C!Landed(d)
        /\ doc[c].stopped
    BY <2>1, LandedSteps
  <2>3. PhaseKept
    BY <2>1 DEF ChainSettles, dbVars, Phase
  <2>4. onChain' \in {onChain, onChain \cup {c}}
    BY <2>2
  <2>5. phase' = phase /\ phase[c] \in {"booked", "kept", "undone"}
    BY <1>1, <2>2, <2>3 DEF PhaseTable
  <2>6. CASE onChain' = onChain
    BY <2>5, <2>6 DEF Ledger!ledgerVars
  <2>7. CASE onChain' = onChain \cup {c}
    BY <2>5, <2>7 DEF Ledger!Mint, Ledger!Next
  <2> QED BY <2>4, <2>6, <2>7
<1>10. CASE \E c \in Contribution : TaskReverses(c)
  <2>1. PICK c \in Contribution : TaskReverses(c)
    BY <1>10
  <2>2. /\ doc[c].stopped /\ doc[c].status = "processing"
        /\ task[c].status = "failed"
    BY <2>1, TaskIsOfStopped DEF TaskReverses, Inv, TaskLeadsDoc
  <2>3. /\ doc' = doc /\ task'[c].status = "reverted"
        /\ \A d \in Contribution : d # c => task'[d] = task[d]
    BY <1>2, <2>1 DEF TaskReverses, Tasks
  <2>4. Goes(c, "booked", "undone")
    BY <1>1, <2>2, <2>3 DEF PhaseTable, Phase
  <2>5. LandedKept
    BY <1>5, <2>1 DEF TaskReverses
  <2> QED BY <1>4, <2>4, <2>5 DEF Ledger!Next, Ledger!Undo
<1>11. CASE \E c \in Contribution : TaskSaves(c)
  <2>1. PICK c \in Contribution : TaskSaves(c)
    BY <1>11
  <2>2. /\ doc[c].stopped /\ doc[c].status = "processing"
        /\ task[c].status \in {"confirmed", "failed", "reverted"}
    BY <2>1, TaskIsOfStopped DEF TaskSaves, Inv, TaskLeadsDoc
  <2>3. /\ doc'[c].stopped /\ doc'[c].status = task[c].status
        /\ \A d \in Contribution : /\ task'[d].status = task[d].status
                                   /\ d # c => doc'[d] = doc[d]
    BY <1>2, <2>1, <2>2 DEF TaskSaves, Docs, Tasks
  <2>4. LandedKept
    BY <1>5, <2>1 DEF TaskSaves
  <2>5. CASE task[c].status = "confirmed"
    <3>1. Goes(c, "booked", "kept")
      BY <1>1, <2>2, <2>3, <2>5 DEF PhaseTable, Phase
    <3>2. c \in onChain
      BY <2>5 DEF Inv, VerdictFits, C!Landed
    <3> QED BY <1>4, <2>4, <3>1, <3>2 DEF Ledger!Next, Ledger!Keep
  <2>6. CASE task[c].status # "confirmed"
    <3>1. PhaseKept
      BY <1>1, <2>2, <2>3, <2>6 DEF PhaseTable, Phase
    <3> QED BY <1>3, <2>4, <3>1
  <2> QED BY <2>5, <2>6
<1>12. CASE \E c \in Contribution : TaskConfirms(c) \/ TaskFails(c) \/ TaskCannotReverse(c)
  <2>1. PICK c \in Contribution : TaskConfirms(c) \/ TaskFails(c) \/ TaskCannotReverse(c)
    BY <1>12
  <2>2. doc[c].stopped /\ doc[c].status = "processing" /\ task[c].status # "reverted"
    BY <2>1, TaskIsOfStopped
    DEF TaskConfirms, TaskFails, TaskCannotReverse, Inv, TaskLeadsDoc
  <2>3. /\ doc' = doc /\ UNCHANGED confirmVars
        /\ task'[c].status # "reverted"
        /\ \A d \in Contribution : d # c => task'[d] = task[d]
    BY <1>2, <2>1, <2>2 DEF TaskConfirms, TaskFails, TaskCannotReverse, dbVars, Tasks
  <2>4. PhaseKept
    BY <1>1, <2>2, <2>3 DEF PhaseTable, Phase
  <2> QED BY <1>3, <1>5, <2>3, <2>4
<1>13. CASE /\ UNCHANGED doc /\ UNCHANGED confirmVars
            /\ \A c \in Contribution : task'[c].status = task[c].status
  <2>1. PhaseKept
    BY <1>13 DEF Phase
  <2> QED BY <1>3, <1>5, <1>13, <2>1
<1>14. ASSUME \/ \E q \in StartReq, account, m \in Member : StartChecks(q, account, m)
              \/ \E r \in StopReq, account \in Member, c \in Contribution :
                     StopFetchesOrg(r, account, c)
              \/ \E r \in StopReq :
                     \/ EnsureMintReads(r)
                     \/ EnsureMintCreates(r)
                     \/ EnsureMintFails(r)
                     \/ StopReads(r)
                     \/ StopConflicts(r)
                     \/ \E equity \in Investments : StopThrows(r, equity)
              \/ OrgTokenSettles
              \/ Crash \/ \E c \in Contribution : TaskThrowsNil(c)
              \/ UNCHANGED vars
       PROVE  /\ UNCHANGED doc /\ UNCHANGED confirmVars
              /\ \A c \in Contribution : task'[c].status = task[c].status
  BY <1>2, <1>14
  DEF StartChecks, StopFetchesOrg, EnsureMintReads, EnsureMintCreates, EnsureMintFails,
      StopReads, StopConflicts, StopThrows, OrgTokenSettles, Crash, TaskThrowsNil,
      ProcessDies, dbVars, vars, confirmVars, Tasks
<1> QED
  BY <1>6, <1>7, <1>8, <1>9, <1>10, <1>11, <1>12, <1>13, <1>14
  DEF Next, StopStep, TaskStep

\* Every behaviour of the service is one of the ledger.
THEOREM Implements == Spec => ImplementsLedger
<1>1. Inv /\ Inv' /\ [Next]_vars => [Ledger!Next]_(Ledger!ledgerVars)
  BY LedgerStep
<1> QED BY <1>1, SpecInv, LedgerInit, PTL DEF Spec, ImplementsLedger, Ledger!Spec

(***************************************************************************)
(* The split of a contribution's tokens: what Math.round does to one       *)
(* investor's share, for every amount.                                     *)
(***************************************************************************)

LEMMA Halves ==
  ASSUME NEW n \in Int
  PROVE  200 * ((n + 100) \div 200) - n \in -99..100
  OBVIOUS

\* The share of an investor is at most half a lamport away from its exact
\* value, and never negative or more than the whole.
THEOREM ShareIsRounded ==
  ASSUME NEW lamports \in Nat, NEW percent \in 0..100
  PROVE  /\ S!Share(lamports, percent) \in 0..lamports
         /\ 200 * S!Share(lamports, percent) - 2 * lamports * percent \in -99..100
<1> DEFINE n == 2 * lamports * percent
<1>1. n \in 0..200 * lamports
  <2>1. lamports * percent \in Nat /\ lamports * (100 - percent) \in Nat
    OBVIOUS
  <2>2. lamports * percent + lamports * (100 - percent) = 100 * lamports
    OBVIOUS
  <2> QED BY <2>1, <2>2
<1>2. S!Share(lamports, percent) = (n + 100) \div 200
  BY DEF S!Share
<1> HIDE DEF n
<1>3. 200 * S!Share(lamports, percent) - n \in -99..100
  BY <1>1, <1>2, Halves
<1>4. S!Share(lamports, percent) \in Int
  BY <1>1, <1>2
<1>5. S!Share(lamports, percent) \in 0..lamports
  BY <1>1, <1>3, <1>4
<1> QED BY <1>3, <1>5 DEF n

(***************************************************************************)
(* The books.  A split hands out what was earned, whoever the investors    *)
(* are, and a booking and its reversal add and take out one split and one  *)
(* amount.                                                                 *)
(***************************************************************************)

\* The sums of module Split are those of module Sums.
LEMMA SumsAgree ==
  ASSUME NEW f
  PROVE  S!SumFunction(f) = SumFunctionOnSet(f, DOMAIN f)
  BY DEF S!SumFunction, S!SumFunctionOnSet, S!FoldFunctionOnSet, S!MapThenFoldSet,
         SumFunctionOnSet, FoldFunctionOnSet, MapThenFoldSet

\* What the investors get and what is left for the member is what was earned; a
\* member who invests too gets both.
LEMMA SplitAddsUp ==
  ASSUME NEW owner \in Member, NEW lamports \in Lamports, NEW equity \in Investments
  PROVE  /\ S!SplitAmong(Member, owner, lamports, equity) \in [Member -> Int]
         /\ SumFunction(S!SplitAmong(Member, owner, lamports, equity)) = lamports
<1> DEFINE split == S!SplitAmong(Member, owner, lamports, equity)
           shares == S!InvestorShares(lamports, equity)
           given == [m \in Member |-> IF m \in DOMAIN equity
                                      THEN S!Share(lamports, equity[m]) ELSE 0]
           shared == SumFunctionOnSet(shares, DOMAIN equity)
           rest == [m \in Member |-> IF m = owner THEN lamports - shared ELSE 0]
<1>1. /\ lamports \in Nat /\ DOMAIN equity \subseteq Member
      /\ \A i \in DOMAIN equity : equity[i] \in 0..100
      /\ IsFiniteSet(Member) /\ IsFiniteSet(DOMAIN equity)
  BY AmountAssumption, FiniteAssumption, FS_Subset
<1>2. /\ DOMAIN shares = DOMAIN equity
      /\ \A i \in DOMAIN equity : /\ shares[i] = S!Share(lamports, equity[i])
                                 /\ shares[i] \in Int
  <2>1. /\ DOMAIN shares = DOMAIN equity
        /\ \A i \in DOMAIN equity : shares[i] = S!Share(lamports, equity[i])
    BY DEF S!InvestorShares
  <2>2. \A i \in DOMAIN equity : S!Share(lamports, equity[i]) \in 0..lamports
    BY <1>1, ShareIsRounded
  <2>3. \A i \in DOMAIN equity : S!Share(lamports, equity[i]) \in Int
    BY <1>1, <2>2
  <2> QED BY <2>1, <2>3
<1>3. S!Remainder(lamports, equity) = lamports - shared
  BY <1>2, SumsAgree DEF S!Remainder
<1>4. shared \in Int
  BY <1>1, <1>2, SumIsInt
<1> HIDE DEF shared, shares
<1>5. \A m \in Member : given[m] \in Int /\ rest[m] \in Int
  BY <1>1, <1>2, <1>4
<1>6. split = [m \in Member |-> given[m] + rest[m]]
  BY <1>3 DEF S!SplitAmong
<1>7. SumFunctionOnSet(given, Member) = shared
  <2>1. SumFunctionOnSet(given, Member) = SumFunctionOnSet(given, DOMAIN equity)
    BY <1>1, <1>5, SumOfPart
  <2>2. SumFunctionOnSet(given, DOMAIN equity) = SumFunctionOnSet(shares, DOMAIN equity)
    BY <1>1, <1>2, SumSame
  <2> QED BY <2>1, <2>2 DEF shared
<1>8. SumFunctionOnSet(rest, Member) = lamports - shared
  BY <1>1, <1>4, SumOfOne
<1> HIDE DEF split, given, rest
<1>9. SumFunctionOnSet(split, Member) =
          SumFunctionOnSet(given, Member) + SumFunctionOnSet(rest, Member)
  BY <1>1, <1>5, <1>6, SumPlus
<1>10. split \in [Member -> Int] /\ SumFunction(split) = SumFunctionOnSet(split, Member)
  BY <1>5, <1>6 DEF SumFunction
<1>11. SumFunction(split) = lamports
  BY <1>1, <1>4, <1>7, <1>8, <1>9, <1>10
<1> QED BY <1>10, <1>11 DEF split

Booked == [c \in InBooks |-> doc[c].lamports]

\* The invariant of the books, over the one above.
BooksInv ==
    /\ earned \in [Member -> Int]
    /\ \A c \in Contribution : SumFunction(doc[c].split) = doc[c].lamports
    /\ LedgerBalanced

LEMMA SplitTyped ==
  ASSUME StateOK, NEW c \in Contribution
  PROVE  doc[c].split \in [Member -> Int] /\ doc[c].lamports \in Nat
<1>1. doc[c].split \in Splits \cup {NoSplit} /\ doc[c].lamports \in Nat
  BY DEF StateOK, Docs
<1> QED BY <1>1, SplitAddsUp DEF Splits, NoSplit

LEMMA BookedTyped ==
  ASSUME StateOK
  PROVE  /\ IsFiniteSet(InBooks) /\ InBooks \subseteq Contribution
         /\ \A c \in InBooks : Booked[c] = doc[c].lamports /\ Booked[c] \in Int
         /\ SumFunction(Booked) = SumFunctionOnSet(Booked, InBooks)
<1>1. InBooks \subseteq Contribution /\ IsFiniteSet(InBooks)
  BY FiniteAssumption, FS_Subset DEF InBooks
<1>2. \A c \in InBooks : Booked[c] = doc[c].lamports /\ Booked[c] \in Int
  BY <1>1, SplitTyped DEF Booked
<1>3. SumFunction(Booked) = SumFunctionOnSet(Booked, InBooks)
  BY DEF Booked, SumFunction
<1> QED BY <1>1, <1>2, <1>3

LEMMA BooksInit == Init => BooksInv
<1> SUFFICES ASSUME Init PROVE BooksInv
  OBVIOUS
<1>1. earned = NoSplit /\ lamportsMinted = 0 /\ InBooks = {}
  BY DEF Init, InBooks, NoSplit
<1>2. SumFunction(NoSplit) = 0
  <2>1. SumFunctionOnSet(NoSplit, Member) = SumFunctionOnSet(NoSplit, {})
    BY FiniteAssumption, SumOfPart DEF NoSplit
  <2>2. SumFunction(NoSplit) = SumFunctionOnSet(NoSplit, Member)
    BY DEF SumFunction, NoSplit
  <2> QED BY <2>1, <2>2, SumOfNone
<1>3. \A c \in Contribution : SumFunction(doc[c].split) = doc[c].lamports
  BY <1>2 DEF Init
<1>4. SumFunction(Booked) = 0
  BY <1>1, SumOfNone DEF SumFunction, Booked
<1>5. earned \in [Member -> Int]
  BY <1>1 DEF NoSplit
<1> QED BY <1>1, <1>2, <1>3, <1>4, <1>5 DEF BooksInv, LedgerBalanced, Booked

\* Most steps leave the books alone.
LEMMA BooksKept ==
  ASSUME StateOK, StateOK', BooksInv,
         UNCHANGED <<earned, lamportsMinted>>,
         \A c \in Contribution :
             /\ doc'[c].lamports = doc[c].lamports
             /\ doc'[c].split = doc[c].split
             /\ doc'[c].stopped = doc[c].stopped
             /\ task'[c].status = "reverted" <=> task[c].status = "reverted"
  PROVE  BooksInv'
<1>1. InBooks' = InBooks
  BY DEF InBooks
<1>2. Booked' = Booked
  BY <1>1 DEF Booked, InBooks
<1> QED BY <1>2 DEF BooksInv, LedgerBalanced, Booked

LEMMA CommitBooks ==
  ASSUME Inv, Inv', BooksInv,
         NEW r \in StopReq, NEW lamports \in Lamports, NEW equity \in Investments,
         StopCommits(r, lamports, equity)
  PROVE  BooksInv'
<1> DEFINE c == stop[r].of
           split == S!SplitAmong(Member, doc[c].owner, lamports, equity)
<1>1. c \in Contribution /\ doc[c].owner \in Member /\ ~doc[c].stopped
  BY DEF Inv, StopCommits, Books, RequestsValid, Unwritten, StateOK, Docs
<1>2. /\ doc' = [doc EXCEPT ![c].stopped = TRUE,
                            ![c].status = "processing",
                            ![c].lamports = lamports,
                            ![c].split = split]
      /\ task' = [task EXCEPT ![c] = [pc |-> "mint", status |-> "processing",
                                      mint |-> stop[r].mint]]
      /\ earned' = [m \in Member |-> earned[m] + split[m]]
      /\ lamportsMinted' = lamportsMinted + lamports
  BY DEF StopCommits, Books
<1>3. /\ split \in [Member -> Int]
      /\ SumFunction(split) = lamports
      /\ lamports \in Nat
  BY <1>1, SplitAddsUp, AmountAssumption
<1> HIDE DEF c, split
<1>4. /\ StateOK /\ StateOK' /\ doc \in Docs /\ task \in Tasks
      /\ lamportsMinted \in Int /\ earned \in [Member -> Int]
  BY DEF Inv, StateOK, BooksInv
<1>5. /\ \A d \in Contribution \ {c} : doc'[d] = doc[d] /\ task'[d] = task[d]
      /\ doc'[c].lamports = lamports /\ doc'[c].split = split /\ doc'[c].stopped
      /\ task'[c].status = "processing"
  BY <1>1, <1>2, <1>4 DEF Docs, Tasks
<1>6. /\ earned' \in [Member -> Int]
      /\ SumFunction(earned') = SumFunction(earned) + lamports
  <2>1. \A m \in Member : /\ earned[m] \in Int /\ split[m] \in Int
                          /\ earned'[m] = earned[m] + split[m]
    BY <1>2, <1>3, <1>4
  <2>2. SumFunctionOnSet(earned', Member) =
            SumFunctionOnSet(earned, Member) + SumFunctionOnSet(split, Member)
    BY <2>1, FiniteAssumption, SumPlus
  <2>3. DOMAIN earned = Member /\ DOMAIN earned' = Member /\ DOMAIN split = Member
    BY <1>2, <1>3, <1>4
  <2>4. earned' \in [Member -> Int]
    BY <1>2, <2>1
  <2> QED BY <1>3, <2>2, <2>3, <2>4 DEF SumFunction
<1>7. SumFunction(Booked') = lamports + SumFunction(Booked)
  <2>1. InBooks' = InBooks \cup {c} /\ c \notin InBooks
    BY <1>1, <1>5 DEF InBooks
  <2>2. \A d \in InBooks : Booked'[d] = Booked[d]
    BY <1>5, <2>1 DEF InBooks, Booked
  <2>3. Booked'[c] = lamports
    BY <1>5, <2>1 DEF Booked
  <2>4. DOMAIN Booked' = InBooks \cup {c} /\ DOMAIN Booked = InBooks
    BY <2>1 DEF Booked
  <2>5. IsFiniteSet(InBooks) /\ \A d \in InBooks : Booked[d] \in Int
    BY <1>4, BookedTyped
  <2>6. SumFunctionOnSet(Booked', InBooks \cup {c}) =
            Booked'[c] + SumFunctionOnSet(Booked', InBooks)
    <3>1. /\ \A d \in InBooks : Booked'[d] \in Int
          /\ Booked'[c] \in Int
      BY <1>3, <2>2, <2>3, <2>5
    <3> QED BY <2>1, <2>5, <3>1, SumWith
  <2>7. SumFunctionOnSet(Booked', InBooks) = SumFunctionOnSet(Booked, InBooks)
    BY <2>2, <2>5, SumSame
  <2> QED BY <2>3, <2>4, <2>6, <2>7 DEF SumFunction
<1>8. SumFunction(earned') = lamportsMinted' /\ lamportsMinted' = SumFunction(Booked')
  <2>1. SumFunction(earned) = lamportsMinted /\ lamportsMinted = SumFunction(Booked)
    BY DEF BooksInv, LedgerBalanced, Booked
  <2> QED BY <1>2, <1>3, <1>4, <1>6, <1>7, <2>1
<1>9. \A d \in Contribution : SumFunction(doc'[d].split) = doc'[d].lamports
  BY <1>3, <1>5 DEF BooksInv
<1> QED BY <1>6, <1>8, <1>9 DEF BooksInv, LedgerBalanced, Booked

LEMMA ReverseBooks ==
  ASSUME Inv, Inv', BooksInv, NEW c \in Contribution, TaskReverses(c)
  PROVE  BooksInv'
<1>1. /\ StateOK /\ StateOK' /\ doc \in Docs /\ task \in Tasks
      /\ lamportsMinted \in Int /\ earned \in [Member -> Int]
  BY DEF Inv, StateOK, BooksInv
<1>2. /\ doc' = doc
      /\ lamportsMinted' = lamportsMinted - doc[c].lamports
      /\ earned' = [m \in Member |-> earned[m] - doc[c].split[m]]
  BY DEF TaskReverses
<1>3. /\ doc[c].stopped /\ task[c].status = "failed"
      /\ \A d \in Contribution \ {c} : task'[d] = task[d]
      /\ task'[c].status = "reverted"
  BY <1>1, TaskIsOfStopped DEF TaskReverses, Inv, TaskLeadsDoc, Tasks
<1>4. /\ doc[c].split \in [Member -> Int] /\ doc[c].lamports \in Nat
      /\ SumFunction(doc[c].split) = doc[c].lamports
  BY <1>1, SplitTyped DEF BooksInv
<1>5. /\ earned' \in [Member -> Int]
      /\ SumFunction(earned) = SumFunction(earned') + doc[c].lamports
  <2>1. \A m \in Member : /\ earned'[m] \in Int /\ doc[c].split[m] \in Int
                          /\ earned[m] = earned'[m] + doc[c].split[m]
    BY <1>1, <1>2, <1>4
  <2>2. SumFunctionOnSet(earned, Member) =
            SumFunctionOnSet(earned', Member) + SumFunctionOnSet(doc[c].split, Member)
    BY <2>1, FiniteAssumption, SumPlus
  <2>3. DOMAIN earned = Member /\ DOMAIN earned' = Member /\ DOMAIN doc[c].split = Member
    BY <1>1, <1>2, <1>4
  <2>4. earned' \in [Member -> Int]
    BY <1>2, <2>1
  <2> QED BY <1>4, <2>2, <2>3, <2>4 DEF SumFunction
<1>6. SumFunction(Booked) = doc[c].lamports + SumFunction(Booked')
  <2>1. InBooks' = InBooks \ {c} /\ c \in InBooks
    BY <1>2, <1>3 DEF InBooks
  <2>2. /\ \A d \in InBooks \ {c} : Booked'[d] = Booked[d]
        /\ Booked[c] = doc[c].lamports
    BY <1>2, <2>1 DEF Booked
  <2>3. DOMAIN Booked' = InBooks \ {c} /\ DOMAIN Booked = InBooks
    BY <2>1 DEF Booked
  <2>4. IsFiniteSet(InBooks) /\ \A d \in InBooks : Booked[d] \in Int
    BY <1>1, BookedTyped
  <2>5. SumFunctionOnSet(Booked, InBooks) =
            Booked[c] + SumFunctionOnSet(Booked, InBooks \ {c})
    BY <2>1, <2>4, SumWithout
  <2>6. SumFunctionOnSet(Booked', InBooks \ {c}) = SumFunctionOnSet(Booked, InBooks \ {c})
    <3>1. IsFiniteSet(InBooks \ {c})
      BY <2>4, FS_RemoveElement
    <3> QED BY <2>2, <3>1, SumSame
  <2> QED BY <2>2, <2>3, <2>5, <2>6 DEF SumFunction
<1>7. SumFunction(earned') \in Int /\ SumFunction(Booked') \in Int
  <2>1. SumFunction(earned') = SumFunctionOnSet(earned', Member)
    BY <1>5 DEF SumFunction
  <2>2. SumFunction(earned') \in Int
    BY <1>5, <2>1, FiniteAssumption, SumIsInt
  <2>3. /\ IsFiniteSet(InBooks') /\ \A d \in InBooks' : Booked'[d] \in Int
        /\ DOMAIN Booked' = InBooks'
    <3>1. InBooks' \subseteq InBooks
      BY <1>2, <1>3 DEF InBooks
    <3>2. IsFiniteSet(InBooks')
      BY <1>1, <3>1, BookedTyped, FS_Subset
    <3> QED BY <1>1, <1>2, <3>1, <3>2, SplitTyped DEF Booked, InBooks
  <2>4. SumFunction(Booked') \in Int
    BY <2>3, SumIsInt DEF SumFunction
  <2> QED BY <2>2, <2>4
<1>8. SumFunction(earned') = lamportsMinted' /\ lamportsMinted' = SumFunction(Booked')
  <2>1. SumFunction(earned) = lamportsMinted /\ lamportsMinted = SumFunction(Booked)
    BY DEF BooksInv, LedgerBalanced, Booked
  <2> QED BY <1>2, <1>4, <1>5, <1>6, <1>7, <2>1
<1>9. \A d \in Contribution : SumFunction(doc'[d].split) = doc'[d].lamports
  BY <1>2 DEF BooksInv
<1> QED BY <1>5, <1>8, <1>9 DEF BooksInv, LedgerBalanced, Booked

LEMMA BooksNext == Inv /\ Inv' /\ BooksInv /\ [Next]_vars => BooksInv'
<1> SUFFICES ASSUME Inv, Inv', BooksInv, [Next]_vars PROVE BooksInv'
  OBVIOUS
<1> USE DEF dbVars
<1>0. StateOK /\ StateOK' /\ doc \in Docs /\ task \in Tasks
  BY DEF Inv, StateOK
<1>1. CASE UNCHANGED vars
  BY <1>0, <1>1, BooksKept DEF vars
<1>2. CASE \E q \in StartReq, account, m \in Member : StartChecks(q, account, m)
  BY <1>0, <1>2, BooksKept DEF StartChecks
<1>3. CASE \E q \in StartReq, c \in Contribution : StartSaves(q, c)
  BY <1>0, <1>3, BooksKept DEF StartSaves, Docs
<1>4. CASE \/ \E r \in StopReq, account \in Member, c \in Contribution :
                 StopFetchesOrg(r, account, c)
           \/ \E r \in StopReq :
                 \/ EnsureMintReads(r)
                 \/ EnsureMintCreates(r)
                 \/ EnsureMintFails(r)
                 \/ StopReads(r)
                 \/ StopConflicts(r)
                 \/ \E equity \in Investments : StopThrows(r, equity)
           \/ OrgTokenSettles
           \/ \E c \in Contribution : ChainSettles(c)
  <2>1. UNCHANGED <<doc, earned, lamportsMinted, task>>
    BY <1>4 DEF StopFetchesOrg, EnsureMintReads, EnsureMintCreates, EnsureMintFails,
                StopReads, StopConflicts, StopThrows, OrgTokenSettles, ChainSettles
  <2> QED BY <1>0, <2>1, BooksKept
<1>5. CASE \E r \in StopReq, lamports \in Lamports, equity \in Investments :
               StopCommits(r, lamports, equity)
  BY <1>5, CommitBooks
<1>6. CASE \E c \in Contribution :
               \/ TaskMints(c) \/ TaskConfirms(c) \/ TaskFails(c)
               \/ TaskCannotReverse(c) \/ TaskSaves(c)
  <2>1. PICK c \in Contribution : \/ TaskMints(c) \/ TaskConfirms(c) \/ TaskFails(c)
                                 \/ TaskCannotReverse(c) \/ TaskSaves(c)
    BY <1>6
  <2>2. task[c].pc \in {"mint", "reverse"} => task[c].status \in {"processing", "failed"}
    BY TaskIsOfStopped DEF Inv, TaskLeadsDoc
  <2>3. UNCHANGED <<earned, lamportsMinted>>
    BY <2>1 DEF TaskMints, TaskConfirms, TaskFails, TaskCannotReverse, TaskSaves
  <2>4. \A d \in Contribution :
            /\ doc'[d].lamports = doc[d].lamports
            /\ doc'[d].split = doc[d].split
            /\ doc'[d].stopped = doc[d].stopped
    BY <1>0, <2>1 DEF TaskMints, TaskConfirms, TaskFails, TaskCannotReverse, TaskSaves, Docs
  <2>5. \A d \in Contribution : task'[d].status = "reverted" <=> task[d].status = "reverted"
    BY <1>0, <2>1, <2>2 DEF TaskMints, TaskConfirms, TaskFails, TaskCannotReverse,
                            TaskSaves, Tasks
  <2> QED BY <1>0, <2>3, <2>4, <2>5, BooksKept
<1>7. CASE \E c \in Contribution : TaskReverses(c)
  BY <1>7, ReverseBooks
<1>8. CASE Crash \/ \E c \in Contribution : TaskThrowsNil(c)
  <2>1. ProcessDies
    BY <1>8 DEF Crash, TaskThrowsNil
  <2>2. \A d \in Contribution : task'[d].status = task[d].status
    BY <1>0, <2>1 DEF ProcessDies, Tasks
  <2> QED BY <1>0, <2>1, <2>2, BooksKept DEF ProcessDies
<1> QED BY <1>1, <1>2, <1>3, <1>4, <1>5, <1>6, <1>7, <1>8 DEF Next, StopStep, TaskStep

LEMMA SpecBooks == Spec => []BooksInv
  BY SpecInv, BooksInit, BooksNext, PTL DEF Spec

\* The counters of the members, that of the organisation and the contributions
\* agree at every moment, for any number of stops, reversals and restarts.
THEOREM BooksBalanced == Spec => []LedgerBalanced
  BY SpecBooks, PTL DEF BooksInv

\* Rounding costs or favours the investors by half a lamport each at most.
LEMMA RoundingIsBounded ==
  ASSUME NEW lamports \in Nat, NEW equity \in Investments
  PROVE  200 * SumFunction(S!InvestorShares(lamports, equity))
             - 2 * lamports * SumFunction(equity)
                 \in -100 * Cardinality(DOMAIN equity) .. 100 * Cardinality(DOMAIN equity)
<1> DEFINE D == DOMAIN equity
           shares == S!InvestorShares(lamports, equity)
           shared(T) == SumFunctionOnSet(shares, T)
           held(T) == SumFunctionOnSet(equity, T)
           error(T) == 200 * shared(T) - 2 * (lamports * held(T))
           G == {T \in SUBSET D : error(T) \in -100 * Cardinality(T) .. 100 * Cardinality(T)}
<1>1. /\ IsFiniteSet(D) /\ DOMAIN shares = D
      /\ \A i \in D : equity[i] \in 0..100 /\ shares[i] = S!Share(lamports, equity[i])
  <2>1. D \subseteq Member /\ \A i \in D : equity[i] \in 0..100
    BY AmountAssumption
  <2>2. IsFiniteSet(D)
    BY <2>1, FiniteAssumption, FS_Subset
  <2> QED BY <2>1, <2>2 DEF S!InvestorShares
<1>2. \A i \in D : /\ equity[i] \in Int /\ shares[i] \in Int
                   /\ 200 * shares[i] - 2 * (lamports * equity[i]) \in -100..100
  <2> SUFFICES ASSUME NEW i \in D
               PROVE  /\ equity[i] \in Int /\ shares[i] \in Int
                      /\ 200 * shares[i] - 2 * (lamports * equity[i]) \in -100..100
    OBVIOUS
  <2>1. /\ S!Share(lamports, equity[i]) \in 0..lamports
        /\ 200 * S!Share(lamports, equity[i]) - 2 * lamports * equity[i] \in -99..100
    BY <1>1, ShareIsRounded
  <2>2. 2 * lamports * equity[i] = 2 * (lamports * equity[i])
    BY <1>1
  <2>3. lamports * equity[i] \in Int
    BY <1>1
  <2> DEFINE n == lamports * equity[i]
             share == S!Share(lamports, equity[i])
  <2> HIDE DEF n, share
  <2>4. n \in Int /\ share \in Int /\ 200 * share - 2 * n \in -99..100
    BY <2>1, <2>2, <2>3 DEF n, share
  <2>5. 200 * share - 2 * n \in -100..100
    BY <2>4
  <2> QED BY <1>1, <2>4, <2>5 DEF n, share
<1> HIDE DEF shares
<1>3. {} \in G
  <2>1. shared({}) = 0 /\ held({}) = 0
    BY SumOfNone
  <2> HIDE DEF shared, held
  <2> QED BY <2>1, FS_EmptySet
<1>4. ASSUME NEW T \in SUBSET D, \A i \in T : T \ {i} \in G PROVE T \in G
  <2>1. CASE T = {}
    BY <1>3, <2>1
  <2>2. CASE T # {}
    <3>1. PICK i \in T : TRUE
      BY <2>2
    <3>2. IsFiniteSet(T) /\ IsFiniteSet(T \ {i})
      BY <1>1, FS_Subset
    <3>3. /\ shared(T) = shares[i] + shared(T \ {i})
          /\ held(T) = equity[i] + held(T \ {i})
      BY <1>2, <3>2, SumWithout
    <3>4. shared(T \ {i}) \in Int /\ held(T \ {i}) \in Int
      BY <1>2, <3>2, SumIsInt
    <3>5. Cardinality(T) = Cardinality(T \ {i}) + 1 /\ Cardinality(T \ {i}) \in Nat
      <4>1. Cardinality(T \ {i}) = Cardinality(T) - 1
        BY <3>2, FS_RemoveElement
      <4>2. Cardinality(T \ {i}) \in Nat /\ Cardinality(T) \in Nat
        BY <3>2, FS_CardinalityType
      <4> QED BY <4>1, <4>2
    <3>6. error(T \ {i}) \in -100 * Cardinality(T \ {i}) .. 100 * Cardinality(T \ {i})
      BY <1>4
    <3> DEFINE s == shared(T \ {i})
               h == held(T \ {i})
               k == Cardinality(T \ {i})
               a == shares[i]
               e == equity[i]
    <3>7. /\ s \in Int /\ h \in Int /\ k \in Nat /\ a \in Int /\ e \in Int
          /\ 200 * s - 2 * (lamports * h) \in -100 * k .. 100 * k
          /\ 200 * a - 2 * (lamports * e) \in -100..100
          /\ shared(T) = a + s /\ held(T) = e + h /\ Cardinality(T) = k + 1
      BY <1>2, <3>3, <3>4, <3>5, <3>6
    <3> HIDE DEF s, h, k, a, e, shared, held
    <3>8. 200 * (a + s) - 2 * (lamports * (e + h)) \in -100 * (k + 1) .. 100 * (k + 1)
      <4>1. lamports * (e + h) = lamports * e + lamports * h
        BY <3>7
      <4>2. lamports * e \in Int /\ lamports * h \in Int
        BY <3>7
      <4> DEFINE x == lamports * e
                 y == lamports * h
      <4>3. /\ x \in Int /\ y \in Int /\ lamports * (e + h) = x + y
            /\ 200 * s - 2 * y \in -100 * k .. 100 * k
            /\ 200 * a - 2 * x \in -100..100
        BY <3>7, <4>1, <4>2
      <4> HIDE DEF x, y
      <4> QED BY <3>7, <4>3
    <3> QED BY <3>7, <3>8
  <2> QED BY <2>1, <2>2
<1>5. D \in G
  <2>1. G \in SUBSET SUBSET D
    OBVIOUS
  <2> HIDE DEF G
  <2> QED BY <1>1, <1>3, <1>4, <2>1, SetsInduction
<1>6. error(D) \in -100 * Cardinality(D) .. 100 * Cardinality(D)
  BY <1>5 DEF G
<1>7. SumFunction(shares) = shared(D) /\ SumFunction(equity) = held(D)
  BY <1>1 DEF SumFunction
<1>8. held(D) \in Int
  BY <1>1, <1>2, SumIsInt
<1> HIDE DEF shared, held
<1>9. 2 * lamports * held(D) = 2 * (lamports * held(D))
  BY <1>8
<1> QED BY <1>6, <1>7, <1>9 DEF shares

\* Every split hands out exactly what was earned, and rounding the investors'
\* shares moves half a lamport an investor at most.
THEOREM SplitFair == Spec => []SplitIsFair
<1>1. Inv /\ BooksInv => SplitIsFair
  <2> SUFFICES ASSUME Inv, BooksInv, NEW c \in Contribution, NEW equity \in Investments
               PROVE  /\ SumFunction(doc[c].split) = doc[c].lamports
                      /\ 200 * SumFunction(S!InvestorShares(doc[c].lamports, equity))
                             - 2 * doc[c].lamports * SumFunction(equity)
                           \in -100 * Cardinality(DOMAIN equity)
                               .. 100 * Cardinality(DOMAIN equity)
    BY DEF SplitIsFair
  <2>1. doc[c].lamports \in Nat
    BY SplitTyped DEF Inv
  <2> QED BY <2>1, RoundingIsBounded DEF BooksInv
<1> QED BY <1>1, SpecInv, SpecBooks, PTL

\* Documents, requests, tasks and call chains keep their types, and so do the
\* shares of a split and what members have earned.
THEOREM StateCorrect == Spec => []TypeOK
<1>1. Inv /\ BooksInv => TypeOK
  BY SplitTyped DEF Inv, BooksInv, TypeOK
<1> QED BY <1>1, SpecInv, SpecBooks, PTL

=============================================================================
