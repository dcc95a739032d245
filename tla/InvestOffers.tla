---------------------------- MODULE InvestOffers ----------------------------
(***************************************************************************)
(* OffersServiceLite.updateInvestOfferStatus: accounts invest credits in   *)
(* an offer of an organisation until the offered amount is reached, and    *)
(* receive equity that is collected from the other members in batches.     *)
(* The request is answered before any of it happens.  Credits and equity   *)
(* move on the chain first; a MongoDB transaction then records the member, *)
(* the payment and the offer, the latter two from documents in memory that *)
(* were read and built at the beginning.  One offer is modelled.           *)
(***************************************************************************)
EXTENDS Integers, Sequences, Functions, FiniteSets, FiniteSetsExt

CONSTANTS
    Investor,       \* who may invest
    OrgInvestor,    \* those that are organisations, the others are users
    Order,          \* requests that answer the offer
    Amounts,        \* what a request may invest
    Offered,        \* investorSettings.amount of the offer
    Batches,        \* batches of members the equity is collected from
    NoInvestor,
    MaxInvestRun,   \* runs of the callback the driver's time limit allows
    MaxInvestCrash  \* bound of the model: restarts of the server

ASSUME InvestorAssumption == OrgInvestor \subseteq Investor /\ NoInvestor \notin Investor
ASSUME AmountAssumption == Amounts \subseteq Nat \ {0} /\ Offered \in Nat \ {0}
ASSUME OrderAssumption == IsFiniteSet(Order)
ASSUME InvestBoundAssumption ==
    Batches \in Nat /\ MaxInvestRun \in Nat \ {0} /\ MaxInvestCrash \in Nat

VARIABLES
    round,       \* the offer document
    order,       \* the requests
    receipt,     \* the payment document each request creates
    invested,    \* investmentAmount of the member documents, -1 without one
    transfer,    \* the chain: what became of each request's credits
    collected,   \* the chain: the batches whose equity moved
    crowded,     \* history: two requests were at work at the same time
    outages      \* restarts so far

investVars == <<round, order, receipt, invested, transfer, collected, crowded, outages>>

NoMember == -1

InInvestRun == {"find", "write", "commit"}
Investing == {"check", "transfer", "await", "collect", "decline"} \cup InInvestRun
InvestEnded == {"refused", "done", "failed", "dead"}

\* An element of memberProspects.
Prospect == [by : Investor, amount : Nat]

InvestTypeOK ==
    /\ round \in [status : {"pending", "approved", "declined"},
                prospects : Seq(Prospect),
                version : 0..Cardinality(Order)]
    /\ order \in [Order -> [pc : {"idle"} \cup Investing \cup InvestEnded,
                        by : Investor \cup {NoInvestor},
                        amount : Amounts \cup {0},
                        prospects : Seq(Prospect),
                        version : 0..Cardinality(Order),
                        base : Nat \cup {NoMember},
                        run : 0..MaxInvestRun,
                        paymentDirty : BOOLEAN,
                        offerDirty : BOOLEAN]]
    /\ receipt \in [Order -> {"none", "open", "settled"}]
    /\ invested \in [Investor -> Nat \cup {NoMember}]
    /\ transfer \in [Order -> {"unsent", "inflight", "landed", "failed", "expired"}]
    /\ collected \in [Order -> SUBSET (1..Batches)]
    /\ crowded \in BOOLEAN
    /\ outages \in 0..MaxInvestCrash

InvestInit ==
    /\ round = [status |-> "pending", prospects |-> <<>>, version |-> 0]
    /\ order = [q \in Order |-> [pc |-> "idle", by |-> NoInvestor, amount |-> 0,
                             prospects |-> <<>>, version |-> 0, base |-> NoMember,
                             run |-> 0, paymentDirty |-> FALSE, offerDirty |-> FALSE]]
    /\ receipt = [q \in Order |-> "none"]
    /\ invested \in [Investor -> {NoMember, 0}]
    /\ transfer = [q \in Order |-> "unsent"]
    /\ collected = [q \in Order |-> {}]
    /\ crowded = FALSE
    /\ outages = 0

InvestGoes(q, to) == order' = [order EXCEPT ![q].pc = to]

\* The position of an account's prospect among those request q has read, the
\* first if there are several, or 0.
Place(q) ==
    LET read == order[q].prospects
        places == {i \in DOMAIN read : read[i].by = order[q].by}
    IN  IF places = {} THEN 0 ELSE Min(places)

\* What request q takes to be invested: a map keeps one prospect an account,
\* the last one.
InvestedBefore(q) ==
    LET read == order[q].prospects
        kept == {i \in DOMAIN read :
                    \A j \in DOMAIN read : j > i => read[j].by # read[i].by}
    IN  SumFunctionOnSet([i \in DOMAIN read |-> read[i].amount], kept)

\* Mutant: the offered amount is compared with what is invested so far.
FitsSoFar(q) == InvestedBefore(q) <= Offered

\* No more can be invested than is offered.
Fits(q) == InvestedBefore(q) + order[q].amount <= Offered

\* The map is keyed by the field the request's account is in, user or orgUser,
\* which throws for a prospect of the other kind.
SameKind(q) ==
    \A i \in DOMAIN order[q].prospects :
        order[q].prospects[i].by \in OrgInvestor <=> order[q].by \in OrgInvestor

(***************************************************************************)
(* Answering the offer.                                                    *)
(***************************************************************************)

\* The offer is read; an offer that was answered is refused.
ReadsInvestOffer(q, account, amount) ==
    /\ order[q].pc = "idle"
    /\ order' = [order EXCEPT ![q] =
           IF round.status = "pending"
           THEN [@ EXCEPT !.pc = "check", !.by = account, !.amount = amount,
                          !.prospects = round.prospects, !.version = round.version]
           ELSE [@ EXCEPT !.pc = "refused"]]
    /\ crowded' = (crowded \/ \E p \in Order \ {q} : order[p].pc \in Investing)
    /\ UNCHANGED <<round, receipt, invested, transfer, collected, outages>>

\* The balance, the amount or the kind of account is refused, or the payment
\* cannot be stored.
InvestCheckFails(q) ==
    /\ order[q].pc = "check"
    /\ InvestGoes(q, "failed")
    /\ UNCHANGED <<round, receipt, invested, transfer, collected, crowded, outages>>

\* The payment is stored, without a hash, before anything is paid.
StoresPayment(q) ==
    /\ order[q].pc = "check"
    /\ SameKind(q)
    /\ Fits(q)
    /\ receipt' = [receipt EXCEPT ![q] = "open"]
    /\ InvestGoes(q, "transfer")
    /\ UNCHANGED <<round, invested, transfer, collected, crowded, outages>>

\* A decline passes the same checks.
InvestDeclines(q) ==
    /\ order[q].pc = "check"
    /\ SameKind(q)
    /\ Fits(q)
    /\ InvestGoes(q, "decline")
    /\ UNCHANGED <<round, receipt, invested, transfer, collected, crowded, outages>>

SavesDecline(q) ==
    /\ order[q].pc = "decline"
    /\ {p \in Order : order[p].pc = "commit"} = {}
    /\ round' = [round EXCEPT !.status = "declined"]
    /\ InvestGoes(q, "done")
    /\ UNCHANGED <<receipt, invested, transfer, collected, crowded, outages>>

(***************************************************************************)
(* The chain comes first.                                                  *)
(***************************************************************************)

SendsCredits(q) ==
    /\ order[q].pc = "transfer"
    /\ transfer' = [transfer EXCEPT ![q] = "inflight"]
    /\ InvestGoes(q, "await")
    /\ UNCHANGED <<round, receipt, invested, collected, crowded, outages>>

\* Mutant: the credits are not awaited.
TransferReturnsAtOnce(q) ==
    /\ order[q].pc = "await"
    /\ InvestGoes(q, "collect")
    /\ UNCHANGED <<round, receipt, invested, transfer, collected, crowded, outages>>

\* The credits have moved.
TransferReturns(q) ==
    /\ order[q].pc = "await"
    /\ transfer[q] = "landed"
    /\ InvestGoes(q, "collect")
    /\ UNCHANGED <<round, receipt, invested, transfer, collected, crowded, outages>>

\* Sending throws, which says nothing of the transaction, and the task ends:
\* the payment stays without a hash and the offer as it was.
TransferThrows(q) ==
    /\ order[q].pc \in {"transfer", "await"}
    /\ InvestGoes(q, "failed")
    /\ UNCHANGED <<round, receipt, invested, transfer, collected, crowded, outages>>

\* collectEquity: what goes wrong with a batch is noted and the next one
\* follows, so any of them may have moved (see TxnConfirm for what a batch that
\* is confirmed or not may have left on the chain).
CollectsEquity(q) ==
    /\ order[q].pc = "collect"
    /\ collected' \in {[collected EXCEPT ![q] = moved] : moved \in SUBSET (1..Batches)}
    /\ order' = [order EXCEPT ![q] = [@ EXCEPT !.pc = "find", !.run = 1,
                                           !.paymentDirty = TRUE, !.offerDirty = TRUE]]
    /\ UNCHANGED <<round, receipt, invested, transfer, crowded, outages>>

\* What equity to collect cannot be read, or a batch cannot be built, which is
\* outside of what is noted: the task ends, with the batches before it moved.
CollectThrows(q) ==
    /\ order[q].pc = "collect"
    /\ collected' \in {[collected EXCEPT ![q] = moved] : moved \in SUBSET (1..Batches)}
    /\ InvestGoes(q, "failed")
    /\ UNCHANGED <<round, receipt, invested, transfer, crowded, outages>>

(***************************************************************************)
(* The transaction that records it.                                        *)
(***************************************************************************)

\* handleInvestmentPayment reads the member, outside the session.
FindsInvestor(q) ==
    /\ order[q].pc = "find"
    /\ order' = [order EXCEPT ![q].base = invested[order[q].by], ![q].pc = "write"]
    /\ UNCHANGED <<round, receipt, invested, transfer, collected, crowded, outages>>

\* The requests whose transaction has written and is still open.  All write the
\* one offer.
Writers == {q \in Order : order[q].pc = "commit"}

\* An existing prospect is changed at its place, which Mongoose only does in
\* the version that was read; a new one is pushed.
Outdated(q) ==
    order[q].offerDirty /\ Place(q) # 0 /\ order[q].version # round.version

\* The member exists by now although none was found.
Duplicate(q) == order[q].base = NoMember /\ invested[order[q].by] # NoMember

\* Member, payment and offer are saved in the session.
Writes(q) ==
    /\ order[q].pc = "write"
    /\ Writers = {}
    /\ ~Duplicate(q)
    /\ ~Outdated(q)
    /\ InvestGoes(q, "commit")
    /\ UNCHANGED <<round, receipt, invested, transfer, collected, crowded, outages>>

\* Reading the member or one of the saves throws: the task ends after everything
\* was paid.
WriteThrows(q) ==
    /\ order[q].pc \in {"find", "write"}
    /\ InvestGoes(q, "failed")
    /\ UNCHANGED <<round, receipt, invested, transfer, collected, crowded, outages>>

\* The driver runs the callback again.  What was saved in the run before counts
\* as saved to Mongoose and is not written again.
InvestReruns(q, paymentDirty, offerDirty) ==
    order' = [order EXCEPT ![q] =
        IF order[q].run < MaxInvestRun
        THEN [order[q] EXCEPT !.pc = "find", !.run = @ + 1,
                              !.paymentDirty = paymentDirty, !.offerDirty = offerDirty]
        ELSE [order[q] EXCEPT !.pc = "failed"]]

\* A save before the last one meets an open transaction that has written the
\* same document, or a transient error.  The payment is saved before the offer.
WriteConflicts(q) ==
    /\ order[q].pc = "write"
    /\ \E paymentDirty \in {FALSE, order[q].paymentDirty} :
           InvestReruns(q, paymentDirty, order[q].offerDirty)
    /\ UNCHANGED <<round, receipt, invested, transfer, collected, crowded, outages>>

\* The offer in memory, with what the request changed.
ChangedProspects(q) ==
    IF Place(q) = 0
    THEN Append(round.prospects, [by |-> order[q].by, amount |-> order[q].amount])
    ELSE [round.prospects EXCEPT
             ![Place(q)].amount = order[q].prospects[Place(q)].amount + order[q].amount]

\* The request fills the offer, by what it has read.
Full(q) == InvestedBefore(q) + order[q].amount >= Offered

\* Mutant: the amount replaces what the member had invested.
InvestCommittedAnew(q) ==
    /\ round' = IF ~order[q].offerDirty THEN round
              ELSE [status |-> IF Full(q) THEN "approved" ELSE round.status,
                    prospects |-> ChangedProspects(q),
                    version |-> IF Place(q) = 0 THEN round.version + 1 ELSE round.version]
    /\ receipt' = IF order[q].paymentDirty THEN [receipt EXCEPT ![q] = "settled"]
                  ELSE receipt
    /\ invested' = [invested EXCEPT ![order[q].by] = order[q].amount]

\* What the transaction leaves in the database.
InvestCommitted(q) ==
    /\ round' = IF ~order[q].offerDirty THEN round
              ELSE [status |-> IF Full(q) THEN "approved" ELSE round.status,
                    prospects |-> ChangedProspects(q),
                    version |-> IF Place(q) = 0 THEN round.version + 1 ELSE round.version]
    /\ receipt' = IF order[q].paymentDirty THEN [receipt EXCEPT ![q] = "settled"]
                  ELSE receipt
    /\ invested' = [invested EXCEPT ![order[q].by] =
           IF order[q].base = NoMember THEN order[q].amount
           ELSE order[q].base + order[q].amount]

CommitsInvest(q) ==
    /\ order[q].pc = "commit"
    /\ InvestCommitted(q)
    /\ InvestGoes(q, "done")
    /\ UNCHANGED <<transfer, collected, crowded, outages>>

AbortsInvest(q) ==
    /\ order[q].pc = "commit"
    /\ InvestReruns(q, FALSE, FALSE)
    /\ UNCHANGED <<round, receipt, invested, transfer, collected, crowded, outages>>

\* The commit fails for good, or its answer is lost after it took effect.
InvestCommitFails(q) ==
    /\ order[q].pc = "commit"
    /\ InvestCommitted(q) \/ UNCHANGED <<round, receipt, invested>>
    /\ InvestGoes(q, "failed")
    /\ UNCHANGED <<transfer, collected, crowded, outages>>

InvestCrash ==
    /\ outages < MaxInvestCrash
    /\ outages' = outages + 1
    /\ order' = [q \in Order |-> IF order[q].pc \in Investing
                             THEN [order[q] EXCEPT !.pc = "dead"] ELSE order[q]]
    /\ UNCHANGED <<round, receipt, invested, transfer, collected, crowded>>

TransferSettles(q) ==
    /\ transfer[q] = "inflight"
    /\ \E outcome \in {"landed", "failed", "expired"} :
           transfer' = [transfer EXCEPT ![q] = outcome]
    /\ UNCHANGED <<round, order, receipt, invested, collected, crowded, outages>>

InvestNext ==
    \/ \E q \in Order, account \in Investor, amount \in Amounts :
          ReadsInvestOffer(q, account, amount)
    \/ \E q \in Order :
          \/ InvestCheckFails(q)
          \/ StoresPayment(q)
          \/ InvestDeclines(q)
          \/ SavesDecline(q)
          \/ SendsCredits(q)
          \/ TransferReturns(q)
          \/ TransferThrows(q)
          \/ CollectsEquity(q)
          \/ CollectThrows(q)
          \/ FindsInvestor(q)
          \/ Writes(q)
          \/ WriteThrows(q)
          \/ WriteConflicts(q)
          \/ CommitsInvest(q)
          \/ AbortsInvest(q)
          \/ InvestCommitFails(q)
          \/ TransferSettles(q)
    \/ InvestCrash

InvestSpec == InvestInit /\ [][InvestNext]_investVars

(***************************************************************************)
(* Properties.                                                             *)
(***************************************************************************)

AmountOf == [q \in Order |-> order[q].amount]

\* The credits account a has paid.
PaidBy(a) ==
    SumFunctionOnSet(AmountOf, {q \in Order : order[q].by = a /\ transfer[q] = "landed"})

\* The credits recorded for account a in the offer.
RecordedFor(a) ==
    LET p == round.prospects
    IN  SumFunctionOnSet([i \in DOMAIN p |-> p[i].amount], {i \in DOMAIN p : p[i].by = a})

Recorded == SumFunction([i \in DOMAIN round.prospects |-> round.prospects[i].amount])

\* Nobody is recorded with more than was paid, in the offer or as a member, and
\* what is settled was paid, whichever saves were lost, repeated or made over
\* each other.
InvestmentsArePaid ==
    /\ \A a \in Investor : RecordedFor(a) <= PaidBy(a) /\ invested[a] <= PaidBy(a)
    /\ \A q \in Order : receipt[q] = "settled" => transfer[q] = "landed"

\* As long as no two requests were at work at the same time, a member has
\* invested whatever the offer records for the account.
MembersCoverOffer ==
    ~crowded => \A a \in Investor : RecordedFor(a) > 0 => RecordedFor(a) <= invested[a]

\* As long as no two requests were at work at the same time, no more is
\* recorded than was offered.
InvestedWithinOffer == ~crowded => Recorded <= Offered

=============================================================================
