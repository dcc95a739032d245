---------------------------- MODULE Contributions ----------------------------
(***************************************************************************)
(* ContributionsService: the contributions of the members of one           *)
(* organisation, from the request that starts one to the background task   *)
(* that mints its tokens, confirms them and reverses the booking when that *)
(* fails.  Requests and tasks interleave at their awaits; the database is  *)
(* MongoDB, where the two transactions of the service are atomic; the      *)
(* chain is module TxnConfirm's, one job per contribution; and the server  *)
(* may die and be restarted at any time, which recovers nothing.           *)
(***************************************************************************)
EXTENDS Integers, FiniteSets, Functions

CONSTANTS
    Member,        \* the organisation's members, as wallets too
    OrgMember,     \* those that are organisations (orgUser, no user)
    Contribution,  \* ids of contribution documents
    StartReq,      \* requests that start a contribution
    StopReq,       \* requests that stop one; a request that creates the
                   \* organisation's token gives it its own name
    OrgToken,      \* the token that creating the organisation mints
    NoMember, NoMint, NoContribution,
    Lamports,      \* the amounts a contribution may earn
    Investments,   \* the investors' equity, a function to percentages, as
                   \* offers may have left it when a contribution stops
    MaxSend,       \* bound of the model: see TxnConfirm
    MaxCrash       \* bound of the model: restarts of the server

ASSUME MemberAssumption == OrgMember \subseteq Member /\ NoMember \notin Member
ASSUME ContributionAssumption == NoContribution \notin Contribution
ASSUME FiniteAssumption == IsFiniteSet(Member) /\ IsFiniteSet(Contribution)
ASSUME TokenAssumption ==
    /\ OrgToken \notin StopReq
    /\ NoMint \notin StopReq \cup {OrgToken}
ASSUME AmountAssumption ==
    /\ Lamports \subseteq Nat
    /\ \A equity \in Investments :
           /\ DOMAIN equity \subseteq Member
           /\ \A i \in DOMAIN equity : equity[i] \in 0..100
ASSUME BoundAssumption == MaxSend \in Nat \ {0} /\ MaxCrash \in Nat

VARIABLES
    doc,             \* the contribution documents
    earned,          \* lamportsEarned of the member documents
    lamportsMinted,  \* of the organisation document
    orgMint,         \* mint of the organisation document
    creating,        \* createToken of the organisation's creation still runs
    start,           \* the requests that start a contribution
    stop,            \* the requests that stop one
    task,            \* mintAndConfirmWithRetryAndReverse, per contribution
    crashes,         \* restarts so far
    pc, hash, txnError, sent, txn   \* of TxnConfirm

C == INSTANCE TxnConfirm WITH Job <- Contribution, StrictJob <- Contribution
S == INSTANCE Split

dbVars == <<doc, earned, lamportsMinted, orgMint, creating>>
confirmVars == <<pc, hash, txnError, sent, txn>>
vars == <<doc, earned, lamportsMinted, orgMint, creating,
          start, stop, task, crashes, pc, hash, txnError, sent, txn>>

Mint == StopReq \cup {OrgToken, NoMint}
Status == {"none", "processing", "confirmed", "failed", "reverted"}

NoSplit == [m \in Member |-> 0]

\* The splits a contribution may be booked with.
Splits == {S!SplitAmong(Member, m, lamports, equity) :
              m \in Member, lamports \in Lamports, equity \in Investments}

Docs == [Contribution -> [owner : Member \cup {NoMember},
                          stopped : BOOLEAN,
                          status : Status,
                          lamports : Nat,
                          split : Splits \cup {NoSplit}]]
Starts == [StartReq -> [pc : {"idle", "save", "ended"},
                        member : Member \cup {NoMember}]]
Stops == [StopReq -> [pc : {"idle", "ensure", "create", "read", "commit", "ended"},
                      of : Contribution \cup {NoContribution},
                      by : Member \cup {NoMember},
                      mint : Mint]]
Tasks == [Contribution -> [pc : {"none", "mint", "reverse", "save", "done", "dead"},
                           status : Status,
                           mint : Mint]]

\* The type of everything but the sums of shares.
StateOK ==
    /\ doc \in Docs
    /\ DOMAIN earned = Member
    /\ lamportsMinted \in Int
    /\ orgMint \in Mint
    /\ creating \in BOOLEAN
    /\ start \in Starts
    /\ stop \in Stops
    /\ task \in Tasks
    /\ crashes \in 0..MaxCrash
    /\ C!TypeOK

TypeOK ==
    /\ StateOK
    /\ \A c \in Contribution : doc[c].split \in [Member -> Int]
    /\ earned \in [Member -> Int]

\* A request that was answered, or was lost with the process, keeps nothing.
EndedStart == [pc |-> "ended", member |-> NoMember]
EndedStop == [pc |-> "ended", of |-> NoContribution, by |-> NoMember,
              mint |-> NoMint]

Init ==
    /\ doc = [c \in Contribution |-> [owner |-> NoMember, stopped |-> FALSE,
                                      status |-> "none", lamports |-> 0,
                                      split |-> NoSplit]]
    /\ earned = [m \in Member |-> 0]
    /\ lamportsMinted = 0
    /\ \/ orgMint = NoMint /\ creating \in BOOLEAN
       \/ orgMint = OrgToken /\ creating = FALSE
    /\ start = [q \in StartReq |-> [pc |-> "idle", member |-> NoMember]]
    /\ stop = [r \in StopReq |-> [pc |-> "idle", of |-> NoContribution,
                                  by |-> NoMember, mint |-> NoMint]]
    /\ task = [c \in Contribution |-> [pc |-> "none", status |-> "none",
                                       mint |-> NoMint]]
    /\ crashes = 0
    /\ C!Init

(***************************************************************************)
(* startContribution.                                                      *)
(***************************************************************************)

ActiveOf(m) == {c \in Contribution : doc[c].owner = m /\ ~doc[c].stopped}

\* The request of `account` to start work as member m runs to the answer of
\* the query for active contributions.
StartChecks(q, account, m) ==
    /\ start[q].pc = "idle"
    /\ start' = [start EXCEPT
           ![q] = IF account = m /\ ActiveOf(m) = {}
                  THEN [pc |-> "save", member |-> m]
                  ELSE EndedStart]
    /\ UNCHANGED <<dbVars, stop, task, crashes, confirmVars>>

\* contribution.save(), whatever was saved since the query.
StartSaves(q, c) ==
    /\ start[q].pc = "save"
    /\ doc[c].owner = NoMember
    /\ doc' = [doc EXCEPT ![c].owner = start[q].member]
    /\ start' = [start EXCEPT ![q] = EndedStart]
    /\ UNCHANGED <<earned, lamportsMinted, orgMint, creating,
                   stop, task, crashes, confirmVars>>

(***************************************************************************)
(* stopContribution and the part of OrgsService.ensureMint it awaits.      *)
(***************************************************************************)

\* getByOrgId: the organisation document this request will mint with.
StopFetchesOrg(r, account, c) ==
    /\ stop[r].pc = "idle"
    /\ doc[c].owner # NoMember
    /\ stop' = [stop EXCEPT ![r] = [pc |-> "ensure", of |-> c, by |-> account,
                                    mint |-> orgMint]]
    /\ UNCHANGED <<dbVars, start, task, crashes, confirmVars>>

\* ensureMint waits for a creation in progress, a bounded time, and then reads
\* the organisation again, whether or not that creation has ended.
EnsureMintReads(r) ==
    /\ stop[r].pc = "ensure"
    /\ stop' = [stop EXCEPT
           ![r].pc = IF orgMint = NoMint THEN "create" ELSE "read"]
    /\ UNCHANGED <<dbVars, start, task, crashes, confirmVars>>

\* It has created and recorded a token of its own.  The document the request
\* fetched before still says what it said.
EnsureMintCreates(r) ==
    /\ stop[r].pc = "create"
    /\ orgMint' = r
    /\ stop' = [stop EXCEPT ![r].pc = "read"]
    /\ UNCHANGED <<doc, earned, lamportsMinted, creating,
                   start, task, crashes, confirmVars>>

\* Creating fails: the request is answered with the error (the query that
\* would record it is never executed).
EnsureMintFails(r) ==
    /\ stop[r].pc = "create"
    /\ stop' = [stop EXCEPT ![r] = EndedStop]
    /\ UNCHANGED <<dbVars, start, task, crashes, confirmVars>>

\* The transaction's callback reads the contribution and refuses one that is
\* stopped or somebody else's.
StopReads(r) ==
    /\ stop[r].pc = "read"
    /\ LET c == stop[r].of
       IN  stop' = [stop EXCEPT
               ![r] = IF ~doc[c].stopped /\ @.by = doc[c].owner
                      THEN [@ EXCEPT !.pc = "commit"] ELSE EndedStop]
    /\ UNCHANGED <<dbVars, start, task, crashes, confirmVars>>

\* Nobody wrote contribution c since a transaction that wants to read it as
\* running did.
Unwritten(c) == ~doc[c].stopped

\* What the callback writes: the contribution, and the counters of every
\* receiver and of the organisation.  The background task is started right
\* after it, with the organisation as fetched at the beginning.
Books(r, lamports, equity) ==
    LET c == stop[r].of
        split == S!SplitAmong(Member, doc[c].owner, lamports, equity)
    IN  /\ doc' = [doc EXCEPT ![c].stopped = TRUE,
                              ![c].status = "processing",
                              ![c].lamports = lamports,
                              ![c].split = split]
        /\ earned' = [m \in Member |-> earned[m] + split[m]]
        /\ lamportsMinted' = lamportsMinted + lamports
        /\ stop' = [stop EXCEPT ![r] = EndedStop]
        /\ task' = [task EXCEPT ![c] = [pc |-> "mint", status |-> "processing",
                                        mint |-> stop[r].mint]]
        /\ UNCHANGED <<orgMint, creating, start, crashes>>

\* Mutant: the contribution is read and saved outside the session.
StopCommitsUnchecked(r, lamports, equity) ==
    LET c == stop[r].of
    IN  /\ stop[r].pc = "commit"
        /\ DOMAIN equity \cap OrgMember = {}
        /\ Books(r, lamports, equity)
        /\ C!Begin(c) \/ (pc[c] # "idle" /\ UNCHANGED confirmVars)

\* The transaction commits: nobody wrote the contribution since it was read.
StopCommits(r, lamports, equity) ==
    LET c == stop[r].of
    IN  /\ stop[r].pc = "commit"
        /\ Unwritten(c)
        /\ DOMAIN equity \cap OrgMember = {}
        /\ Books(r, lamports, equity)
        /\ C!Begin(c)

\* Another request's transaction wrote the contribution in between: the write
\* conflicts and withTransaction runs the callback again.
StopConflicts(r) ==
    /\ stop[r].pc = "commit"
    /\ ~Unwritten(stop[r].of)
    /\ stop' = [stop EXCEPT ![r].pc = "read"]
    /\ UNCHANGED <<dbVars, start, task, crashes, confirmVars>>

\* The wallet of an investor is taken from its user, which an organisation
\* does not have: the callback throws and the transaction aborts.
StopThrows(r, equity) ==
    /\ stop[r].pc = "commit"
    /\ DOMAIN equity \cap OrgMember # {}
    /\ stop' = [stop EXCEPT ![r] = EndedStop]
    /\ UNCHANGED <<dbVars, start, task, crashes, confirmVars>>

\* createToken of the organisation's creation ends and records its token, or
\* the lack of one, over whatever ensureMint recorded meanwhile.
OrgTokenSettles ==
    /\ creating
    /\ creating' = FALSE
    /\ orgMint' \in {OrgToken, NoMint}
    /\ UNCHANGED <<doc, earned, lamportsMinted, start, stop, task, crashes,
                   confirmVars>>

(***************************************************************************)
(* mintAndConfirmWithRetryAndReverse.                                      *)
(***************************************************************************)

\* Sending and confirming.  Without a mint address mintToken throws before it
\* has anything to broadcast.
TaskMints(c) ==
    /\ task[c].pc = "mint"
    /\ C!ConfirmStep(c)
    /\ task[c].mint = NoMint => sent' = sent
    /\ UNCHANGED <<dbVars, start, stop, task, crashes>>

\* Mutant: the users of the receivers are never populated.
NicknamesAlwaysThrow(c) == TRUE

\* The notification lists the nicknames of the receivers' users, which throws
\* for a member that is an organisation.
NicknamesThrow(c) == doc[c].owner \in OrgMember

\* Mutant: neither the sending nor the confirming is awaited.
TaskConfirmsUnawaited(c) ==
    /\ task[c].pc = "mint"
    /\ pc[c] \in {"await", "returned"}
    /\ task' = [task EXCEPT ![c].pc = "save", ![c].status = "confirmed"]
    /\ UNCHANGED <<dbVars, start, stop, crashes, confirmVars>>

\* Confirmed.  What the notification throws is thrown inside the same try.
TaskConfirms(c) ==
    /\ task[c].pc = "mint"
    /\ pc[c] = "returned"
    /\ task' = [task EXCEPT
           ![c].pc = IF NicknamesThrow(c) THEN "reverse" ELSE "save",
           ![c].status = IF NicknamesThrow(c) THEN "failed" ELSE "confirmed"]
    /\ UNCHANGED <<dbVars, start, stop, crashes, confirmVars>>

\* Mutant: the catch block copes with an undefined error, and reverses.
TaskFailsOnNil(c) ==
    /\ task[c].pc = "mint"
    /\ pc[c] \in {"threw", "threwNil"}
    /\ task' = [task EXCEPT ![c].pc = "reverse", ![c].status = "failed"]
    /\ UNCHANGED <<dbVars, start, stop, crashes, confirmVars>>

\* The first send threw: the catch block starts the reversal.
TaskFails(c) ==
    /\ task[c].pc = "mint"
    /\ pc[c] = "threw"
    /\ task' = [task EXCEPT ![c].pc = "reverse", ![c].status = "failed"]
    /\ UNCHANGED <<dbVars, start, stop, crashes, confirmVars>>

\* The reversal's transaction takes the split back out of the counters.
TaskReverses(c) ==
    /\ task[c].pc = "reverse"
    /\ earned' = [m \in Member |-> earned[m] - doc[c].split[m]]
    /\ lamportsMinted' = lamportsMinted - doc[c].lamports
    /\ task' = [task EXCEPT ![c].pc = "save", ![c].status = "reverted"]
    /\ UNCHANGED <<doc, orgMint, creating, start, stop, crashes, confirmVars>>

\* Mutant: when the reversal fails, the task returns without saving.
TaskGivesUp(c) ==
    /\ task[c].pc = "reverse"
    /\ task' = [task EXCEPT ![c].pc = "done"]
    /\ UNCHANGED <<dbVars, start, stop, crashes, confirmVars>>

\* The reversal's transaction fails for good.
TaskCannotReverse(c) ==
    /\ task[c].pc = "reverse"
    /\ task' = [task EXCEPT ![c].pc = "save"]
    /\ UNCHANGED <<dbVars, start, stop, crashes, confirmVars>>

\* contribution.save(): the status held in memory reaches the document.
TaskSaves(c) ==
    /\ task[c].pc = "save"
    /\ doc' = [doc EXCEPT ![c].status = task[c].status]
    /\ task' = [task EXCEPT ![c].pc = "done"]
    /\ UNCHANGED <<earned, lamportsMinted, orgMint, creating, start, stop,
                   crashes, confirmVars>>

(***************************************************************************)
(* The process dies: requests and tasks end where they are, and nothing    *)
(* looks for them after the restart.                                       *)
(***************************************************************************)

ProcessDies ==
    /\ start' = [q \in StartReq |->
           IF start[q].pc = "idle" THEN start[q] ELSE EndedStart]
    /\ stop' = [r \in StopReq |->
           IF stop[r].pc = "idle" THEN stop[r] ELSE EndedStop]
    /\ task' = [c \in Contribution |->
           IF task[c].pc \in {"mint", "reverse", "save"}
           THEN [task[c] EXCEPT !.pc = "dead"] ELSE task[c]]
    /\ UNCHANGED <<doc, earned, lamportsMinted, orgMint, confirmVars>>

Crash ==
    /\ crashes < MaxCrash
    /\ crashes' = crashes + 1
    /\ creating' = FALSE
    /\ ProcessDies

\* confirmTxnWithRetry threw undefined: reading its message throws inside the
\* catch block, nobody handles the rejection of the un-awaited call, and Node
\* ends the process.
TaskThrowsNil(c) ==
    /\ task[c].pc = "mint"
    /\ pc[c] = "threwNil"
    /\ creating' = FALSE
    /\ UNCHANGED crashes
    /\ ProcessDies

\* The chain goes on whatever the server does.
ChainSettles(c) ==
    /\ C!ChainStep(c)
    /\ UNCHANGED <<dbVars, start, stop, task, crashes>>

StopStep(r) ==
    \/ EnsureMintReads(r)
    \/ EnsureMintCreates(r)
    \/ EnsureMintFails(r)
    \/ StopReads(r)
    \/ \E lamports \in Lamports, equity \in Investments :
           StopCommits(r, lamports, equity)
    \/ StopConflicts(r)
    \/ \E equity \in Investments : StopThrows(r, equity)

TaskStep(c) ==
    \/ TaskMints(c)
    \/ TaskConfirms(c)
    \/ TaskFails(c)
    \/ TaskReverses(c)
    \/ TaskCannotReverse(c)
    \/ TaskSaves(c)
    \/ TaskThrowsNil(c)

Next ==
    \/ \E q \in StartReq, account, m \in Member : StartChecks(q, account, m)
    \/ \E q \in StartReq, c \in Contribution : StartSaves(q, c)
    \/ \E r \in StopReq, account \in Member, c \in Contribution :
           StopFetchesOrg(r, account, c)
    \/ \E r \in StopReq : StopStep(r)
    \/ OrgTokenSettles
    \/ \E c \in Contribution : TaskStep(c)
    \/ \E c \in Contribution : ChainSettles(c)
    \/ Crash

Spec == Init /\ [][Next]_vars

(***************************************************************************)
(* Fairness: Node goes on with every task it started, the reversal's       *)
(* transaction is not refused for ever, and the chain and the read         *)
(* endpoint behave as TxnConfirm says.  Nothing makes a user start or stop *)
(* work, a creation end, or the process die.                               *)
(***************************************************************************)
Fairness ==
    \A c \in Contribution :
        /\ WF_vars(TaskStep(c))
        /\ WF_vars(ChainSettles(c))
        /\ SF_vars(task[c].pc = "mint" /\ C!PollFinds(c)
                   /\ UNCHANGED <<dbVars, start, stop, task, crashes>>)

FairSpec == Spec /\ Fairness

(***************************************************************************)
(* Properties.                                                             *)
(***************************************************************************)

\* The contributions the counters account for: stopped, and not taken out
\* again by a reversal.
InBooks == {c \in Contribution : doc[c].stopped /\ task[c].status # "reverted"}

\* The counters of the members, the counter of the organisation and the
\* contributions say the same, whatever stops twice, loses a race, is
\* reversed, or is cut off by a restart: each booking is made once, in full,
\* and is taken out once at most.
LedgerBalanced ==
    /\ SumFunction(earned) = lamportsMinted
    /\ lamportsMinted = SumFunction([c \in InBooks |-> doc[c].lamports])

\* A split hands out what was earned, no more and no less, and rounding the
\* investors' shares costs or favours the member by half a lamport an investor
\* at most.
SplitIsFair ==
    \A c \in Contribution, equity \in Investments :
        LET lamports == doc[c].lamports
            shared == SumFunction(S!InvestorShares(lamports, equity))
        IN  /\ SumFunction(doc[c].split) = lamports
            /\ 200 * shared - 2 * lamports * SumFunction(equity)
                   \in -100 * Cardinality(DOMAIN equity)
                       .. 100 * Cardinality(DOMAIN equity)

\* A contribution that reads confirmed has its tokens on chain: the status
\* goes through the confirmed hash of the job, its retries and the save.
ConfirmedIsOnChain ==
    \A c \in Contribution : doc[c].status = "confirmed" => C!Landed(c) # {}

\* A user whose contribution reads reverted was minted once at most, by the
\* one attempt the server stopped waiting for: a booking is never reversed
\* after a resend.
RevertedMintedOnceAtMost ==
    \A c \in Contribution :
        doc[c].status = "reverted" /\ doc[c].owner \notin OrgMember
            => Cardinality(C!Landed(c)) <= 1

\* A stop is final: what was earned, how it was split and who worked never
\* change again, no later request or task reopens it, and the status leaves
\* processing once and keeps what it then is.
StopIsFinal ==
    [][\A c \in Contribution :
          doc[c].stopped =>
              /\ doc'[c] = [doc[c] EXCEPT !.status = doc'[c].status]
              /\ doc[c].status # "processing" => doc'[c] = doc[c]]_vars

\* What has become of a contribution, as the ledger sees it.
Phase(c) ==
    CASE doc[c].owner = NoMember -> "none"
      [] doc[c].owner # NoMember /\ ~doc[c].stopped -> "open"
      [] doc[c].stopped /\ task[c].status = "reverted" -> "undone"
      [] doc[c].stopped /\ doc[c].status = "confirmed" -> "kept"
      [] OTHER -> "booked"

Ledger == INSTANCE ContributionLedger WITH
    phase <- [c \in Contribution |-> Phase(c)],
    onChain <- {c \in Contribution : C!Landed(c) # {}}

\* The service implements the ledger its users are promised: booked once,
\* then kept, only with tokens on chain, or undone.
ImplementsLedger == Ledger!Spec

\* No contribution stays in processing unless its task died with the process:
\* confirming ends, and what it ends with reaches the document.
Settles ==
    \A c \in Contribution :
        doc[c].status = "processing"
            ~> doc[c].status # "processing" \/ task[c].pc = "dead"

\* A contribution of a user whose transaction was confirmed reads confirmed
\* some time, unless the process dies first.
ReturnedIsKept ==
    \A c \in Contribution :
        pc[c] = "returned" /\ task[c].pc = "mint" /\ doc[c].owner \notin OrgMember
            ~> doc[c].status = "confirmed" \/ task[c].pc = "dead"

\* What startContribution's check is for: a member has one contribution
\* running at a time.
OneActivePerMember == \A m \in Member : Cardinality(ActiveOf(m)) <= 1

=============================================================================
