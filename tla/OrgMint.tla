------------------------------- MODULE OrgMint -------------------------------
(***************************************************************************)
(* The token of an organisation.  OrgsService.createToken runs in the      *)
(* background of the organisation's creation, in the lite API with an      *)
(* initial mint to the creator; OrgsService.ensureMint runs inside every   *)
(* request that stops a contribution and creates the token when there is   *)
(* none.  All of them write the same three fields of the organisation, and *)
(* each of them sends its transactions as module TxnConfirm describes.     *)
(* OrgsService.updateOrg changes other fields, and writes those three back *)
(* as it read them, several requests to Stripe ago.                        *)
(***************************************************************************)
EXTENDS Naturals, FiniteSets

CONSTANTS
    Ensure,             \* calls of ensureMint
    Boot,               \* the call of createToken
    InitialJob,         \* the initial mint of the lite API, a transaction
    InitialAmount,      \* what it mints (100)
    MintStatusRetries,  \* MINT_STATUS_RETRIES (5)
    NoMint,
    MaxSend,            \* bound of the model: see TxnConfirm
    MaxBroadcast,       \* bound of the model: broadcasts of all jobs together
    MaxCrash            \* bound of the model: restarts of the server

ASSUME CallAssumption == Boot \notin Ensure /\ InitialJob \notin Ensure \cup {Boot}
ASSUME NumberAssumption ==
    /\ InitialAmount \in Nat \ {0}
    /\ MintStatusRetries \in Nat
    /\ MaxSend \in Nat \ {0} /\ MaxBroadcast \in Nat
    /\ MaxCrash \in Nat

Call == Ensure \cup {Boot}

\* Every attempt to create a token generates a new address for it.
Mint == (Call \X (1..MaxSend)) \cup {NoMint}

\* The address a call goes on with: that of its first attempt, since what
\* confirmTxnWithRetry's later attempts return beside the hash is dropped.
MintOf(k) == <<k, 1>>

VARIABLES
    orgMint,         \* mint of the organisation document
    mintStatus,      \* mintStatus of the organisation document
    lamportsMinted,  \* lamportsMinted of the organisation document
    withInitial,     \* whether the lite API creates the organisation
    call,            \* where each call is, and the polls it has left
    update,          \* a call of updateOrg, and what it read
    overlap,         \* history: two calls were creating at the same time, or one
                     \* was while updateOrg was at work
    crashes,
    pc, hash, txnError, sent, txn   \* of TxnConfirm

\* The initial mint goes through mintToken, the creations through umi.
C == INSTANCE TxnConfirm WITH Job <- Call \cup {InitialJob},
                              StrictJob <- {InitialJob}

confirmVars == <<pc, hash, txnError, sent, txn>>
orgVars == <<orgMint, mintStatus, lamportsMinted>>
vars == <<orgMint, mintStatus, lamportsMinted, withInitial, call, update,
          overlap, crashes, pc, hash, txnError, sent, txn>>

\* updateOrg before it reads the document, or after it is done with it.
NoUpdate(at) == [pc |-> at, mint |-> NoMint, status |-> "none", minted |-> 0]

TypeOK ==
    /\ orgMint \in Mint
    /\ mintStatus \in {"none", "inProgress", "success", "error"}
    /\ lamportsMinted \in {0, InitialAmount}
    /\ withInitial \in BOOLEAN
    /\ call \in [Call -> [pc : {"idle", "wait", "create", "initial", "record",
                                "done", "failed", "dead"},
                          retries : 0..MintStatusRetries]]
    /\ update \in [pc : {"idle", "write", "done"}, mint : Mint,
                   status : {"none", "inProgress", "success", "error"},
                   minted : {0, InitialAmount}]
    /\ overlap \in BOOLEAN
    /\ crashes \in 0..MaxCrash
    /\ C!TypeOK

Init ==
    /\ orgMint = NoMint
    /\ mintStatus = "none"
    /\ lamportsMinted = 0
    /\ withInitial \in BOOLEAN
    /\ call = [k \in Call |-> [pc |-> "idle", retries |-> MintStatusRetries]]
    /\ update = NoUpdate("idle")
    /\ overlap = FALSE
    /\ crashes = 0
    /\ C!Init

Creating(k) == call[k].pc \in {"create", "initial", "record"}

Goes(k, to) == call' = [call EXCEPT ![k].pc = to]

\* Call k starts to create a token.
StartsCreating(k) ==
    /\ Goes(k, "create")
    /\ C!Begin(k)
    /\ overlap' = \/ overlap
                  \/ update.pc = "write"
                  \/ \E other \in Call \ {k} : Creating(other)

Writes(mint, status) == orgMint' = mint /\ mintStatus' = status

Threw(j) == pc[j] \in {"threw", "threwNil"}

\* The process dies with everything that runs in it; nothing resumes it.
ProcessDies(ended) ==
    call' = [k \in Call |->
        IF k \in DOMAIN ended THEN [call[k] EXCEPT !.pc = ended[k]]
        ELSE IF call[k].pc \in {"wait", "create", "initial", "record"}
        THEN [call[k] EXCEPT !.pc = "dead"] ELSE call[k]]

(***************************************************************************)
(* createToken.                                                            *)
(***************************************************************************)

\* It takes back the token the organisation may have and says so first.
BootStarts ==
    /\ call[Boot].pc = "idle"
    /\ Writes(NoMint, "inProgress")
    /\ StartsCreating(Boot)
    /\ UNCHANGED <<lamportsMinted, withInitial, update, crashes>>

\* Confirmed, and nothing to mint: the token is recorded.
BootRecordsToken ==
    /\ call[Boot].pc = "create"
    /\ pc[Boot] = "returned"
    /\ ~withInitial
    /\ Writes(MintOf(Boot), "success")
    /\ Goes(Boot, "done")
    /\ UNCHANGED <<lamportsMinted, withInitial, update, overlap, crashes, confirmVars>>

\* Confirmed: the initial mint follows before anything is recorded.
BootStartsInitial ==
    /\ call[Boot].pc = "create"
    /\ pc[Boot] = "returned"
    /\ withInitial
    /\ Goes(Boot, "initial")
    /\ C!Begin(InitialJob)
    /\ UNCHANGED <<orgVars, withInitial, update, overlap, crashes>>

\* Sending or confirming the token threw: the error is recorded and thrown on.
\* createOrgLite catches it; in createOrg nothing does and the process ends.
BootFails ==
    /\ call[Boot].pc = "create"
    /\ Threw(Boot)
    /\ Writes(NoMint, "error")
    /\ IF withInitial THEN Goes(Boot, "failed")
       ELSE ProcessDies([k \in {Boot} |-> "failed"])
    /\ UNCHANGED <<lamportsMinted, withInitial, update, overlap, crashes, confirmVars>>

\* Mutant: the initial mint is counted before it is awaited.
BootCountsUnawaited ==
    /\ call[Boot].pc = "initial"
    /\ pc[InitialJob] \in {"await", "returned"}
    /\ lamportsMinted' = lamportsMinted + InitialAmount
    /\ Goes(Boot, "record")
    /\ UNCHANGED <<orgMint, mintStatus, withInitial, update, overlap, crashes, confirmVars>>

\* The initial mint is confirmed and counted.
BootCounts ==
    /\ call[Boot].pc = "initial"
    /\ pc[InitialJob] = "returned"
    /\ lamportsMinted' = lamportsMinted + InitialAmount
    /\ Goes(Boot, "record")
    /\ UNCHANGED <<orgMint, mintStatus, withInitial, update, overlap, crashes, confirmVars>>

\* Then the token is recorded.
BootRecords ==
    /\ call[Boot].pc = "record"
    /\ Writes(MintOf(Boot), "success")
    /\ Goes(Boot, "done")
    /\ UNCHANGED <<lamportsMinted, withInitial, update, overlap, crashes, confirmVars>>

\* The initial mint threw, outside the try: the token exists, is recorded
\* nowhere, and the status stays in progress.
BootInitialFails ==
    /\ call[Boot].pc = "initial"
    /\ Threw(InitialJob)
    /\ Goes(Boot, "failed")
    /\ UNCHANGED <<orgVars, withInitial, update, overlap, crashes, confirmVars>>

(***************************************************************************)
(* ensureMint.                                                             *)
(***************************************************************************)

\* An organisation has members, and they contributions, once it was created.
EnsureStarts(k) ==
    /\ call[k].pc = "idle"
    /\ call[Boot].pc # "idle"
    /\ Goes(k, "wait")
    /\ UNCHANGED <<orgVars, withInitial, update, overlap, crashes, confirmVars>>

\* ensureMintNotInProgress polls the status again after two seconds.
EnsureWaits(k) ==
    /\ call[k].pc = "wait"
    /\ mintStatus = "inProgress"
    /\ call[k].retries > 0
    /\ call' = [call EXCEPT ![k].retries = @ - 1]
    /\ UNCHANGED <<orgVars, withInitial, update, overlap, crashes, confirmVars>>

\* Mutant: it waits for the status to change, however long that takes.
WaitIsOverOnceSettled(k) == mintStatus # "inProgress"

\* The creation has ended or the polls have run out.
WaitIsOver(k) == mintStatus = "inProgress" => call[k].retries = 0

\* Mutant: the organisation is not read again after the wait.
EnsureReadsNothing(k) ==
    /\ call[k].pc = "wait"
    /\ WaitIsOver(k)
    /\ StartsCreating(k)
    /\ UNCHANGED <<orgVars, withInitial, update, crashes>>

\* The organisation is read again, and a token it has by now is good enough.
EnsureReads(k) ==
    /\ call[k].pc = "wait"
    /\ WaitIsOver(k)
    /\ \/ /\ orgMint = NoMint
          /\ StartsCreating(k)
       \/ /\ orgMint # NoMint
          /\ Goes(k, "done")
          /\ UNCHANGED <<overlap, confirmVars>>
    /\ UNCHANGED <<orgVars, withInitial, update, crashes>>

\* Mutant: the token is recorded as soon as the sender returns.
EnsureRecordsUnconfirmed(k) ==
    /\ call[k].pc = "create"
    /\ pc[k] \in {"poll", "returned"}
    /\ Writes(MintOf(k), "success")
    /\ Goes(k, "done")
    /\ UNCHANGED <<lamportsMinted, withInitial, update, overlap, crashes, confirmVars>>

\* Its own token is confirmed and recorded.
EnsureRecords(k) ==
    /\ call[k].pc = "create"
    /\ pc[k] = "returned"
    /\ Writes(MintOf(k), "success")
    /\ Goes(k, "done")
    /\ UNCHANGED <<lamportsMinted, withInitial, update, overlap, crashes, confirmVars>>

\* It threw.  The query that would record the error is built and, not being
\* awaited, never sent.
EnsureFails(k) ==
    /\ call[k].pc = "create"
    /\ Threw(k)
    /\ Goes(k, "failed")
    /\ UNCHANGED <<orgVars, withInitial, update, overlap, crashes, confirmVars>>

(***************************************************************************)
(* updateOrg.                                                              *)
(***************************************************************************)

\* The document is read, and changed in memory.
UpdateReads ==
    /\ update.pc = "idle"
    /\ update' = [pc |-> "write", mint |-> orgMint, status |-> mintStatus,
                  minted |-> lamportsMinted]
    /\ overlap' = (overlap \/ \E k \in Call : Creating(k))
    /\ UNCHANGED <<orgVars, withInitial, call, crashes, confirmVars>>

\* All of it is written, except what it did not have, as the token and its
\* status before createToken; of an application the product and the price were
\* brought up to date at Stripe first.
UpdateWrites ==
    /\ update.pc = "write"
    /\ orgMint' = IF update.status = "none" THEN orgMint ELSE update.mint
    /\ mintStatus' = IF update.status = "none" THEN mintStatus ELSE update.status
    /\ lamportsMinted' = update.minted
    /\ update' = NoUpdate("done")
    /\ UNCHANGED <<withInitial, call, overlap, crashes, confirmVars>>

\* Stripe or the database does not answer.
UpdateThrows ==
    /\ update.pc = "write"
    /\ update' = NoUpdate("done")
    /\ UNCHANGED <<orgVars, withInitial, call, overlap, crashes, confirmVars>>

(***************************************************************************)
(* Sending, the chain, and restarts.                                       *)
(***************************************************************************)

Broadcasts ==
    {a \in (Call \cup {InitialJob}) \X (1..MaxSend) : txn[a[1]][a[2]] # "unsent"}

\* A job runs inside the call that began it.
CallOf(j) == IF j = InitialJob THEN Boot ELSE j

Sends(j) ==
    /\ call[CallOf(j)].pc = IF j = InitialJob THEN "initial" ELSE "create"
    /\ C!ConfirmStep(j)
    /\ Cardinality(Broadcasts) < MaxBroadcast \/ sent' = sent
    /\ UNCHANGED <<orgVars, withInitial, update, call, overlap, crashes>>

ChainSettles(j) ==
    /\ C!ChainStep(j)
    /\ UNCHANGED <<orgVars, withInitial, update, call, overlap, crashes>>

Crash ==
    /\ crashes < MaxCrash
    /\ crashes' = crashes + 1
    /\ ProcessDies(<<>>)
    /\ update' = IF update.pc = "write" THEN NoUpdate("done") ELSE update
    /\ UNCHANGED <<orgVars, withInitial, overlap, confirmVars>>

EnsureStep(k) ==
    EnsureWaits(k) \/ EnsureReads(k) \/ EnsureRecords(k) \/ EnsureFails(k)

BootStep ==
    \/ BootRecordsToken
    \/ BootStartsInitial
    \/ BootFails
    \/ BootCounts
    \/ BootRecords
    \/ BootInitialFails

Next ==
    \/ BootStarts
    \/ BootStep
    \/ \E k \in Ensure : EnsureStarts(k) \/ EnsureStep(k)
    \/ UpdateReads \/ UpdateWrites \/ UpdateThrows
    \/ \E j \in Call \cup {InitialJob} : Sends(j) \/ ChainSettles(j)
    \/ Crash

Spec == Init /\ [][Next]_vars

(***************************************************************************)
(* Fairness: a request that waits goes on, as its timer fires.             *)
(***************************************************************************)
FairSpec == Spec /\ \A k \in Ensure : WF_vars(EnsureStep(k))

(***************************************************************************)
(* Properties.                                                             *)
(***************************************************************************)

\* A successful status is backed by the chain: some attempt of the call whose
\* token is recorded did create a token (which of its attempts did is another
\* matter: the recorded address is always the first one's).
RecordedTokenWasCreated ==
    mintStatus = "success" =>
        \E k \in Call : orgMint = MintOf(k) /\ C!Landed(k) # {}

\* The organisation's counter never counts an initial mint that is not on
\* chain, and counts it once, however often it was sent and whatever creation
\* replaced the token meanwhile.
CountedIsMinted ==
    lamportsMinted # 0 => /\ lamportsMinted = InitialAmount
                          /\ C!Landed(InitialJob) # {}

\* The waiting and the second read protect a recorded token: as long as no two
\* calls were creating at the same time, and none was while the document was
\* updated, it is never replaced or taken back.
RecordedTokenIsStable ==
    [][~overlap' /\ orgMint # NoMint => orgMint' = orgMint]_vars

\* A status left in progress for good, as by a crash or a failed initial mint,
\* blocks nobody: a waiting request goes on.
WaitEnds == \A k \in Ensure : call[k].pc = "wait" ~> call[k].pc # "wait"

=============================================================================
