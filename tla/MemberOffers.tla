---------------------------- MODULE MemberOffers ----------------------------
(***************************************************************************)
(* An offer to become a member of an organisation: created through either  *)
(* API, revoked, and answered through either API.                          *)
(*                                                                         *)
(* OffersServiceLite.updateMemberOfferStatus answers the request at once.  *)
(* What follows is the callback of a MongoDB transaction: the equity the   *)
(* offer promises is taken from the members, a percentage of what each of  *)
(* them holds, in batches of transfers, and the new member is saved.  The  *)
(* driver may run it again; the document of the member is built outside of *)
(* it, so a run after one that saved it does not insert it, and throws.    *)
(* The offer is saved after the transaction.  The plain API's              *)
(* updateOfferStatus saves the member, then the offer, and takes no equity.*)
(***************************************************************************)
EXTENDS Integers, Sequences, Functions, FiniteSets, FiniteSetsExt

CONSTANTS
    Candidate,    \* accounts that may answer the offer
    Founder,      \* accounts that are members, some of which may be candidates
    Answer,       \* requests that answer the offer
    Holding,      \* what each founder holds at first, in lamports
    Percents,     \* the equity an offer may promise at once
    BatchSize,    \* members of one batch
    Nobody,
    MaxRuns,      \* runs of all requests' callbacks that the driver's time limit allows
    MaxSends,     \* bound of the model: broadcasts of a batch
    MaxBroadcast  \* bound of the model: broadcasts of all batches together

Party == Candidate \cup Founder

ASSUME MemberOfferAssumption ==
    /\ Nobody \notin Party /\ IsFiniteSet(Party)
    /\ Holding \in [Founder -> Nat] /\ Percents \subseteq 0..100
    /\ {BatchSize, MaxRuns, MaxSends} \subseteq Nat \ {0}
    /\ MaxBroadcast \in Nat

VARIABLES
    offer,        \* the document of the offer
    answer,       \* the requests
    members,      \* the accounts with a member document
    shares,       \* the chain: what each account holds
    broadcasts,   \* the chain: how many batches were broadcast
    inflight,     \* the chain: batches that were broadcast and may land
    noted,        \* history: what is remembered of each request, see below
    disturbed     \* history: two requests, or one and a late batch, were at work at once

memberOfferVars ==
    <<offer, answer, members, shares, broadcasts, inflight, noted, disturbed>>

Working == {"read", "prepare", "collect", "commit", "insert", "save"}

IdleAnswer == [pc |-> "idle", lite |-> FALSE, by |-> Nobody, accepts |-> FALSE,
               run |-> 1, todo |-> {}, plan |-> <<>>, pos |-> 0, sends |-> 0, found |-> FALSE,
               saved |-> FALSE]

\* What the members held when a request began, what it has taken from them, whether
\* a batch failed or a balance was not read, and whether a batch was sent again.
NothingNoted == [base |-> <<>>, taken |-> 0, short |-> FALSE, resent |-> FALSE]

\* It is kept as long as nothing is disturbed.
Notes(q, note) ==
    noted' = IF disturbed THEN noted ELSE [noted EXCEPT ![q] = note]

Disturbs(happens) ==
    /\ disturbed' = (disturbed \/ happens)
    /\ noted' = IF happens THEN [q \in Answer |-> NothingNoted] ELSE noted

MemberOffersInit ==
    /\ offer = [status |-> "none", prospect |-> FALSE, equity |-> 0,
                by |-> Nobody, revoked |-> FALSE]
    /\ answer = [q \in Answer |-> IdleAnswer]
    /\ members = Founder
    /\ shares = [a \in Party |-> IF a \in Founder THEN Holding[a] ELSE 0]
    /\ broadcasts = 0
    /\ inflight = {}
    /\ noted = [q \in Answer |-> NothingNoted]
    /\ disturbed = FALSE

\* What the callback has computed is gone when it ends.
Fresh(r) == [r EXCEPT !.todo = {}, !.plan = <<>>, !.pos = 0, !.sends = 0,
                      !.found = FALSE]

\* A request that ended early leaves nothing in memory; what it was is kept.
Failed(r) == [IdleAnswer EXCEPT !.pc = "failed", !.by = r.by, !.accepts = r.accepts]

AnswerGoes(q, to) ==
    answer' = [answer EXCEPT ![q] =
        IF to = "failed" THEN Failed(@) ELSE [Fresh(@) EXCEPT !.pc = to]]

AtWork == {q \in Answer : answer[q].pc \in Working}

(***************************************************************************)
(* Creating, revoking and reading the offer.                               *)
(***************************************************************************)

\* The plain API gives the member it expects in a field the document has not.
CreateOffer ==
    /\ offer.status = "none"
    /\ offer' = [offer EXCEPT !.status = "pending"]
    /\ UNCHANGED <<answer, members, shares, broadcasts, inflight, noted, disturbed>>

\* Equity that is not given at once counts as none.
CreateLiteOffer(percent) ==
    /\ offer.status = "none"
    /\ offer' = [offer EXCEPT !.status = "pending", !.prospect = TRUE, !.equity = percent]
    /\ UNCHANGED <<answer, members, shares, broadcasts, inflight, noted, disturbed>>

\* Whatever its status, and also while it is being answered.
RevokeOffer ==
    /\ offer.status # "none"
    /\ ~offer.revoked
    /\ offer' = [offer EXCEPT !.revoked = TRUE]
    /\ UNCHANGED <<answer, members, shares, broadcasts, inflight, noted, disturbed>>

\* The offer is read; one that was answered is refused, a revoked one not found.
ReadsOffer(q, account, lite, accepts) ==
    /\ answer[q].pc = "idle"
    /\ offer.status # "none"
    /\ answer' = [answer EXCEPT ![q] =
           IF offer.status = "pending" /\ ~offer.revoked
           THEN [@ EXCEPT !.pc = "read", !.by = account, !.lite = lite, !.accepts = accepts]
           ELSE [@ EXCEPT !.pc = "refused"]]
    /\ Disturbs(AtWork # {})
    /\ UNCHANGED <<offer, members, shares, broadcasts, inflight>>

\* A declined offer is saved and nothing else, an accepted one needs a prospect.
Decides(q) ==
    /\ answer[q].pc = "read"
    /\ AnswerGoes(q, IF ~answer[q].accepts THEN "save"
                     ELSE IF ~offer.prospect THEN "failed"
                     ELSE IF answer[q].lite THEN "prepare" ELSE "insert")
    /\ UNCHANGED <<offer, members, shares, broadcasts, inflight, noted, disturbed>>

(***************************************************************************)
(* The callback of the lite API: the equity.                               *)
(***************************************************************************)

\* A token account was made, unless there is one, and the members are queried.
PreparesAccount(q) ==
    /\ answer[q].pc = "prepare"
    /\ answer' = [answer EXCEPT ![q] =
           [@ EXCEPT !.pc = "collect",
                     !.todo = IF offer.equity = 0 THEN {} ELSE members]]
    /\ Notes(q, IF answer[q].run > 1 THEN noted[q]
                ELSE [NothingNoted EXCEPT !.base = [m \in members |-> shares[m]]])
    /\ UNCHANGED <<offer, members, shares, broadcasts, inflight, disturbed>>

\* What a member gives up, half a lamport rounded up.
Gives(held) == (2 * held * offer.equity + 100) \div 200

\* What m is to give is one more item of the plan, unless the balance is read as zero.
WithReading(r, m, reading) ==
    [r EXCEPT !.todo = @ \ {m},
              !.plan = IF reading = 0 THEN @
                       ELSE Append(@, [from |-> m, amount |-> Gives(reading)])]

\* The balance of the next member of the cursor is read; one that cannot be read
\* is taken for zero, and a member with none is left out.
ReadsBalance(q) ==
    /\ answer[q].pc = "collect"
    /\ answer[q].todo # {}
    /\ LET m == CHOOSE m \in answer[q].todo : TRUE
       IN  \E reading \in {0, shares[m]} :
               /\ answer' = [answer EXCEPT ![q] =
                      WithReading(answer[q], m, reading)]
               /\ Notes(q, [noted[q] EXCEPT !.short = @ \/ reading # shares[m]])
    /\ UNCHANGED <<offer, members, shares, broadcasts, inflight, disturbed>>

\* Mutant: the last member of a batch is in the next one as well.
BatchOverlapping(q) ==
    LET plan == answer[q].plan
    IN  SubSeq(plan, answer[q].pos + 1, Min({answer[q].pos + BatchSize + 1, Len(plan)}))

\* The members whose turn it is, with what they give up.
BatchOf(q) ==
    LET plan == answer[q].plan
    IN  SubSeq(plan, answer[q].pos + 1, Min({answer[q].pos + BatchSize, Len(plan)}))

Collecting(q) ==
    /\ answer[q].pc = "collect"
    /\ answer[q].todo = {}
    /\ answer[q].pos < Len(answer[q].plan)

\* A broadcast of the batch, again and again until one is found to have landed.
Attempt(q, n) ==
    [by |-> q, run |-> answer[q].run, pos |-> answer[q].pos, n |-> n, gives |-> BatchOf(q)]

SendsBatch(q) ==
    /\ Collecting(q)
    /\ answer[q].sends < MaxSends
    /\ broadcasts < MaxBroadcast
    /\ broadcasts' = broadcasts + 1
    /\ inflight' = inflight \cup {Attempt(q, answer[q].sends + 1)}
    /\ answer' = [answer EXCEPT ![q].sends = @ + 1]
    /\ Notes(q, [noted[q] EXCEPT !.resent = @ \/ answer[q].sends > 0])
    /\ UNCHANGED <<offer, members, shares, disturbed>>

\* The next batch, or the member if there is none.
NextBatch(q) == [answer[q] EXCEPT !.pos = @ + BatchSize, !.sends = 0, !.found = FALSE]

\* confirmTxnWithRetry returned: an attempt has landed.
BatchConfirmed(q) ==
    /\ Collecting(q)
    /\ answer[q].found
    /\ answer' = [answer EXCEPT ![q] = NextBatch(q)]
    /\ UNCHANGED <<offer, members, shares, broadcasts, inflight, noted, disturbed>>

\* Sending or confirming throws, which says nothing of the attempts.  The error is
\* noted, and the members count as processed.
BatchFails(q) ==
    /\ Collecting(q)
    /\ answer' = [answer EXCEPT ![q] = NextBatch(q)]
    /\ Notes(q, [noted[q] EXCEPT !.short = TRUE])
    /\ UNCHANGED <<offer, members, shares, broadcasts, inflight, disturbed>>

(***************************************************************************)
(* The new member and the offer.                                           *)
(***************************************************************************)

Collected(q) ==
    /\ answer[q].pc = "collect"
    /\ answer[q].todo = {}
    /\ answer[q].pos >= Len(answer[q].plan)

\* Open transactions that insert the member of this account.
Inserting(account) ==
    {p \in Answer : answer[p].pc = "commit" /\ answer[p].by = account}

\* The member is inserted in the session.  A document that counts as saved to
\* Mongoose is looked for instead, and not found.
SavesNewMember(q) ==
    /\ Collected(q)
    /\ ~answer[q].saved
    /\ answer[q].by \notin members
    /\ Inserting(answer[q].by) = {}
    /\ answer' = [answer EXCEPT ![q] = [Fresh(@) EXCEPT !.pc = "commit", !.saved = TRUE]]
    /\ UNCHANGED <<offer, members, shares, broadcasts, inflight, noted, disturbed>>

\* The callback from its start, with nothing left of its earlier run.
Rerun(r) == [Fresh(r) EXCEPT !.pc = "prepare", !.run = @ + 1]

\* The driver runs the callback again, as long as it has time.
RunsAgain(q) ==
    answer' = [answer EXCEPT ![q] =
        IF SumFunction([p \in Answer |-> answer[p].run]) < MaxRuns
        THEN Rerun(answer[q]) ELSE Failed(answer[q])]

\* A transient error: of the save, which may meet an open transaction that
\* inserts the same member, or of the commit.
AbortsAnswer(q) ==
    /\ \/ Collected(q) /\ ~answer[q].saved
       \/ answer[q].pc = "commit"
    /\ RunsAgain(q)
    /\ UNCHANGED <<offer, members, shares, broadcasts, inflight, noted, disturbed>>

\* Any other error of the callback: the token account, the members, a key or the
\* instructions of a batch that is not sent, a member that exists already or
\* that counts as saved.
CallbackThrows(q) ==
    /\ answer[q].pc \in {"prepare", "collect"}
    /\ answer[q].sends = 0
    /\ AnswerGoes(q, "failed")
    /\ UNCHANGED <<offer, members, shares, broadcasts, inflight, noted, disturbed>>

Joins(q) == members' = members \cup {answer[q].by}

CommitsMember(q) ==
    /\ answer[q].pc = "commit"
    /\ Joins(q)
    /\ AnswerGoes(q, "save")
    /\ UNCHANGED <<offer, shares, broadcasts, inflight, noted, disturbed>>

\* The commit fails for good, or its answer is lost after it took effect.
CommitLost(q) ==
    /\ answer[q].pc = "commit"
    /\ Joins(q) \/ UNCHANGED members
    /\ AnswerGoes(q, "failed")
    /\ UNCHANGED <<offer, shares, broadcasts, inflight, noted, disturbed>>

\* The plain API inserts the member outside of any transaction.
InsertsNewMember(q) ==
    /\ answer[q].pc = "insert"
    /\ answer[q].by \notin members
    /\ Inserting(answer[q].by) = {}
    /\ members' = members \cup {answer[q].by}
    /\ AnswerGoes(q, "save")
    /\ UNCHANGED <<offer, shares, broadcasts, inflight, noted, disturbed>>

\* Mutant: the offer is saved although the member could not be.
InsertFailureIgnored(q) ==
    /\ answer[q].pc = "insert"
    /\ AnswerGoes(q, "save")
    /\ UNCHANGED <<offer, members, shares, broadcasts, inflight, noted, disturbed>>

\* The account of the request cannot be read, or the member not be saved.
InsertThrows(q) ==
    /\ answer[q].pc = "insert"
    /\ AnswerGoes(q, "failed")
    /\ UNCHANGED <<offer, members, shares, broadcasts, inflight, noted, disturbed>>

\* The offer is written last, whatever its document is by now.
SavesOffer(q) ==
    /\ answer[q].pc = "save"
    /\ offer' = IF answer[q].accepts
                THEN [offer EXCEPT !.status = "approved", !.by = answer[q].by]
                ELSE [offer EXCEPT !.status = "declined"]
    /\ AnswerGoes(q, "done")
    /\ UNCHANGED <<members, shares, broadcasts, inflight, noted, disturbed>>

OfferSaveFails(q) ==
    /\ answer[q].pc = "save"
    /\ AnswerGoes(q, "failed")
    /\ UNCHANGED <<offer, members, shares, broadcasts, inflight, noted, disturbed>>

(***************************************************************************)
(* The chain and restarts.                                                 *)
(***************************************************************************)

Total(gives) == SumFunction([i \in DOMAIN gives |-> gives[i].amount])

GivenBy(gives, a) ==
    SumFunctionOnSet([i \in DOMAIN gives |-> gives[i].amount],
                     {i \in DOMAIN gives : gives[i].from = a})

\* All transfers of an attempt land or none, also after the request went on.
BatchLands(t) ==
    /\ \A a \in Party : GivenBy(t.gives, a) <= shares[a]
    /\ shares' = [a \in Party |-> shares[a] - GivenBy(t.gives, a)
                     + IF a = answer[t.by].by THEN Total(t.gives) ELSE 0]
    /\ inflight' = inflight \ {t}
    /\ answer' = [answer EXCEPT ![t.by].found =
           @ \/ t \in {Attempt(t.by, n) : n \in 1..answer[t.by].sends}]
    /\ IF AtWork \ {t.by} # {} THEN Disturbs(TRUE)
       ELSE /\ Notes(t.by, [noted[t.by] EXCEPT !.taken = @ + Total(t.gives)])
            /\ UNCHANGED disturbed
    /\ UNCHANGED <<offer, members, broadcasts>>

\* The server restarts as often as it likes: it keeps nothing of a request.
ServerRestarts ==
    /\ AtWork # {}
    /\ answer' = [q \in Answer |-> IF q \in AtWork THEN Failed(answer[q]) ELSE answer[q]]
    /\ UNCHANGED <<offer, members, shares, broadcasts, inflight, noted, disturbed>>

AnswerStep(q) ==
    \/ Decides(q)
    \/ PreparesAccount(q)
    \/ ReadsBalance(q)
    \/ SendsBatch(q)
    \/ BatchConfirmed(q)
    \/ BatchFails(q)
    \/ SavesNewMember(q)
    \/ AbortsAnswer(q)
    \/ CallbackThrows(q)
    \/ CommitsMember(q)
    \/ CommitLost(q)
    \/ InsertsNewMember(q)
    \/ InsertThrows(q)
    \/ SavesOffer(q)
    \/ OfferSaveFails(q)

MemberOffersNext ==
    \/ CreateOffer
    \/ \E percent \in Percents : CreateLiteOffer(percent)
    \/ RevokeOffer
    \/ \E q \in Answer, account \in Candidate, lite, accepts \in BOOLEAN :
           ReadsOffer(q, account, lite, accepts)
    \/ \E q \in Answer : AnswerStep(q)
    \/ \E t \in inflight : BatchLands(t)
    \/ ServerRestarts

MemberOffersSpec == MemberOffersInit /\ [][MemberOffersNext]_memberOfferVars

(***************************************************************************)
(* Properties.                                                             *)
(***************************************************************************)

\* While nothing else happened, an account that accepted has the percentage of
\* all members' shares the offer promised, up to half a lamport for each member.
\* It has less only if a batch failed or a balance could not be read, which the
\* code notes and passes over, and more only if the callback was run again or a
\* batch was broadcast again.
EquityNeedsCause ==
    ~disturbed => \A q \in Answer :
        LET base == noted[q].base
            promised == SumFunction(base) * offer.equity
            rounding == 50 * Cardinality(DOMAIN base)
        IN  answer[q].pc = "done" /\ answer[q].accepts /\ answer[q].lite =>
                /\ 100 * noted[q].taken < promised - rounding => noted[q].short
                /\ 100 * noted[q].taken > promised + rounding =>
                       answer[q].run > 1 \/ noted[q].resent

\* The account of an approved offer is a member, whichever callback was run again
\* and whoever answered at the same time.  Without another request at the same
\* time, whoever joined did so by the approved offer, is joining, or its request
\* ended before the offer was saved.
MembershipMatchesOffer ==
    /\ offer.status = "approved" => offer.by \in members
    /\ ~disturbed => \A a \in members \ Founder :
           \/ offer.status = "approved" /\ offer.by = a
           \/ \E q \in Answer : /\ answer[q].by = a /\ answer[q].accepts
                                /\ answer[q].pc \in {"save", "failed"}

=============================================================================
