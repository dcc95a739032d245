----------------------------- MODULE SaleOffers -----------------------------
(***************************************************************************)
(* OffersServiceLite.updateSaleOfferStatus: a member sells shares of an    *)
(* organisation for credits.  Accepting swaps both in one transaction of   *)
(* the chain, sent from the callback of a MongoDB transaction that also    *)
(* stores the payment and makes the buyer a member; the offer itself is    *)
(* read before all that and saved after it, outside the transaction.       *)
(* Any account may answer an offer, several may at the same time, and      *)
(* nothing picks up an answer that was interrupted.                        *)
(***************************************************************************)
EXTENDS Naturals

CONSTANTS
    SaleOffer,   \* ids of sale offers, all of one organisation
    LifeTime,    \* those that can be sold again and again (isLifeTime)
    Account,     \* who may answer
    Req,         \* requests that answer an offer
    NoOffer, NoAccount, NoSwap,
    MaxRun,      \* runs of the callback the driver's time limit allows
    MaxCrash     \* bound of the model: restarts of the server

ASSUME OfferAssumption == LifeTime \subseteq SaleOffer /\ NoOffer \notin SaleOffer
ASSUME AccountAssumption == NoAccount \notin Account
ASSUME RunAssumption == MaxRun \in Nat \ {0} /\ MaxCrash \in Nat

\* Every run of the callback swaps with a transaction of its own.
Swap == Req \X (1..MaxRun)

ASSUME SwapAssumption == NoSwap \notin Swap

VARIABLES
    doc,       \* the sale offer documents
    req,       \* the requests
    payment,   \* the payment documents, each named by the swap it records
    member,    \* the accounts that are members of the organisation
    swap,      \* the chain: what became of each swap
    overlap,   \* history: offers two requests were answering at once
    crashes    \* restarts so far

vars == <<doc, req, payment, member, swap, overlap, crashes>>

\* In a run of the callback the request looks for the buyer's member, inserts
\* it, sends, waits and commits.
InRun == {"find", "insert", "send", "await", "commit"}
Running == {"check", "save"} \cup InRun
Ended == {"refused", "done", "failed", "dead"}

TypeOK ==
    /\ doc \in [SaleOffer -> [status : {"none", "pending", "approved", "declined"},
                              buyer : Account \cup {NoAccount},
                              txnHash : Swap \cup {NoSwap}]]
    /\ req \in [Req -> [pc : {"idle"} \cup Running \cup Ended,
                        of : SaleOffer \cup {NoOffer},
                        by : Account \cup {NoAccount},
                        accepts : BOOLEAN,
                        inserts : BOOLEAN,
                        run : 0..MaxRun]]
    /\ payment \subseteq Swap
    /\ member \subseteq Account
    /\ swap \in [Swap -> {"unsent", "inflight", "landed", "failed", "expired"}]
    /\ overlap \subseteq SaleOffer
    /\ crashes \in 0..MaxCrash

Init ==
    /\ doc = [o \in SaleOffer |-> [status |-> "none", buyer |-> NoAccount,
                                   txnHash |-> NoSwap]]
    /\ req = [q \in Req |-> [pc |-> "idle", of |-> NoOffer, by |-> NoAccount,
                             accepts |-> FALSE, inserts |-> FALSE, run |-> 0]]
    /\ payment = {}
    /\ member \in SUBSET Account
    /\ swap = [s \in Swap |-> "unsent"]
    /\ overlap = {}
    /\ crashes = 0

\* The swap of the callback's current run.
SwapOf(q) == <<q, req[q].run>>

Goes(q, to) == req' = [req EXCEPT ![q].pc = to]

\* The requests that have inserted a member for account a and not committed.
Inserters(a) ==
    {q \in Req : /\ req[q].by = a /\ req[q].inserts
                 /\ req[q].pc \in {"send", "await", "commit"}}

(***************************************************************************)
(* Creating, reading and declining an offer.                               *)
(***************************************************************************)

\* createSaleOffer, for a member who holds the shares at that moment.
CreateSaleOffer(o) ==
    /\ doc[o].status = "none"
    /\ doc' = [doc EXCEPT ![o].status = "pending"]
    /\ UNCHANGED <<req, payment, member, swap, overlap, crashes>>

\* Mutant: the status of the offer is not looked at.
OpenAnyway(o) == doc[o].status # "none"

\* Whether the offer, as it is now, can be answered.
Open(o) == doc[o].status = "pending" \/ (o \in LifeTime /\ doc[o].status # "none")

\* The offer is read; an offer that was answered is refused.
Reads(q, account, o) ==
    /\ req[q].pc = "idle"
    /\ doc[o].status # "none"
    /\ req' = [req EXCEPT ![q] = [@ EXCEPT !.pc = IF Open(o) THEN "check" ELSE "refused",
                                           !.of = o, !.by = account]]
    /\ overlap' = IF Open(o) /\ \E p \in Req : req[p].of = o /\ req[p].pc \in Running
                  THEN overlap \cup {o} ELSE overlap
    /\ UNCHANGED <<doc, payment, member, swap, crashes>>

Declines(q) ==
    /\ req[q].pc = "check"
    /\ Goes(q, "save")
    /\ UNCHANGED <<doc, payment, member, swap, overlap, crashes>>

\* The buyer can pay: the status is set on the offer in memory and the
\* transaction begins.
Accepts(q) ==
    /\ req[q].pc = "check"
    /\ req' = [req EXCEPT ![q] = [@ EXCEPT !.pc = "find", !.accepts = TRUE, !.run = 1]]
    /\ UNCHANGED <<doc, payment, member, swap, overlap, crashes>>

\* The buyer cannot, or something else throws before the transaction.
CheckFails(q) ==
    /\ req[q].pc = "check"
    /\ Goes(q, "failed")
    /\ UNCHANGED <<doc, payment, member, swap, overlap, crashes>>

(***************************************************************************)
(* One run of the callback.                                                *)
(***************************************************************************)

\* The run is aborted for a transient reason, and the driver runs the callback
\* again within its time limit.
Reruns(q) ==
    IF req[q].run < MaxRun
    THEN req' = [req EXCEPT ![q].pc = "find", ![q].run = @ + 1, ![q].inserts = FALSE]
    ELSE Goes(q, "failed")

\* Mutant: a member another transaction has inserted and not committed is seen.
FindsUncommitted(q) ==
    /\ req[q].pc = "find"
    /\ Goes(q, IF req[q].by \in member \/ Inserters(req[q].by) # {}
               THEN "send" ELSE "insert")
    /\ UNCHANGED <<doc, payment, member, swap, overlap, crashes>>

\* The payment is stored in the session, and handleAssetsSale looks for the
\* buyer's member, outside it.
FindsMember(q) ==
    /\ req[q].pc = "find"
    /\ Goes(q, IF req[q].by \in member THEN "send" ELSE "insert")
    /\ UNCHANGED <<doc, payment, member, swap, overlap, crashes>>

\* It inserts one, in the session.
InsertsMember(q) ==
    /\ req[q].pc = "insert"
    /\ req[q].by \notin member
    /\ Inserters(req[q].by) = {}
    /\ req' = [req EXCEPT ![q].pc = "send", ![q].inserts = TRUE]
    /\ UNCHANGED <<doc, payment, member, swap, overlap, crashes>>

\* Another transaction has inserted it meanwhile, committed or not: under the
\* unique index that is a write conflict.
InsertConflicts(q) ==
    /\ req[q].pc = "insert"
    /\ req[q].by \in member \/ Inserters(req[q].by) # {}
    /\ Reruns(q)
    /\ UNCHANGED <<doc, payment, member, swap, overlap, crashes>>

Broadcasts(q) ==
    /\ req[q].pc = "send"
    /\ swap' = [swap EXCEPT ![SwapOf(q)] = "inflight"]
    /\ Goes(q, "await")
    /\ UNCHANGED <<doc, payment, member, overlap, crashes>>

\* Mutant: the swap is not awaited.
SwapReturnsAtOnce(q) ==
    /\ req[q].pc = "await"
    /\ Goes(q, "commit")
    /\ UNCHANGED <<doc, payment, member, swap, overlap, crashes>>

\* createAndSendTxn saw its transaction land, and its hash goes into the
\* payment and the offer in memory.
SwapReturns(q) ==
    /\ req[q].pc = "await"
    /\ swap[SwapOf(q)] = "landed"
    /\ Goes(q, "commit")
    /\ UNCHANGED <<doc, payment, member, swap, overlap, crashes>>

\* The callback throws: before the broadcast, for an error on chain, or for a
\* time limit that says nothing of the transaction.  The MongoDB transaction is
\* aborted.
RunThrows(q) ==
    /\ req[q].pc \in {"find", "insert", "send", "await"}
    /\ Goes(q, "failed")
    /\ UNCHANGED <<doc, payment, member, swap, overlap, crashes>>

\* What the transaction leaves in the database.
Committed(q) ==
    /\ payment' = payment \cup {SwapOf(q)}
    /\ member' = IF req[q].inserts THEN member \cup {req[q].by} ELSE member

Commits(q) ==
    /\ req[q].pc = "commit"
    /\ Committed(q)
    /\ Goes(q, "save")
    /\ UNCHANGED <<doc, swap, overlap, crashes>>

\* Saving the payment or committing is interrupted: once more from the start,
\* with another swap.
AbortsTransiently(q) ==
    /\ req[q].pc = "commit"
    /\ Reruns(q)
    /\ UNCHANGED <<doc, payment, member, swap, overlap, crashes>>

\* The commit fails for good, or its answer is lost after it took effect.
CommitFails(q) ==
    /\ req[q].pc = "commit"
    /\ Committed(q) \/ UNCHANGED <<payment, member>>
    /\ Goes(q, "failed")
    /\ UNCHANGED <<doc, swap, overlap, crashes>>

(***************************************************************************)
(* Saving the offer, and the end of the process.                           *)
(***************************************************************************)

\* offer.save writes what was set on the offer since it was read, and looks at
\* nothing others have written since.
Saves(q) ==
    /\ req[q].pc = "save"
    /\ doc' = IF req[q].accepts
              THEN [doc EXCEPT ![req[q].of] = [status |-> "approved",
                                               buyer |-> req[q].by,
                                               txnHash |-> SwapOf(q)]]
              ELSE [doc EXCEPT ![req[q].of].status = "declined"]
    /\ Goes(q, "done")
    /\ UNCHANGED <<payment, member, swap, overlap, crashes>>

SaveFails(q) ==
    /\ req[q].pc = "save"
    /\ Goes(q, "failed")
    /\ UNCHANGED <<doc, payment, member, swap, overlap, crashes>>

Crash ==
    /\ crashes < MaxCrash
    /\ crashes' = crashes + 1
    /\ req' = [q \in Req |-> IF req[q].pc \in Running
                             THEN [req[q] EXCEPT !.pc = "dead"] ELSE req[q]]
    /\ UNCHANGED <<doc, payment, member, swap, overlap>>

ChainSettles(s) ==
    /\ swap[s] = "inflight"
    /\ \E outcome \in {"landed", "failed", "expired"} :
           swap' = [swap EXCEPT ![s] = outcome]
    /\ UNCHANGED <<doc, req, payment, member, overlap, crashes>>

ReqStep(q) ==
    \/ Declines(q)
    \/ Accepts(q)
    \/ CheckFails(q)
    \/ FindsMember(q)
    \/ InsertsMember(q)
    \/ InsertConflicts(q)
    \/ Broadcasts(q)
    \/ SwapReturns(q)
    \/ RunThrows(q)
    \/ Commits(q)
    \/ AbortsTransiently(q)
    \/ CommitFails(q)
    \/ Saves(q)
    \/ SaveFails(q)

Next ==
    \/ \E o \in SaleOffer : CreateSaleOffer(o)
    \/ \E q \in Req, account \in Account, o \in SaleOffer : Reads(q, account, o)
    \/ \E q \in Req : ReqStep(q)
    \/ \E s \in Swap : ChainSettles(s)
    \/ Crash

Spec == Init /\ [][Next]_vars

(***************************************************************************)
(* Properties.                                                             *)
(***************************************************************************)

\* An offer that reads approved was paid for by the buyer it names, with the
\* transaction it names, and the payment is on record: whichever of several
\* answers was saved last, status, buyer and hash are of one request.
ApprovedIsPaid ==
    \A o \in SaleOffer : doc[o].status = "approved" =>
        /\ doc[o].txnHash \in payment
        /\ swap[doc[o].txnHash] = "landed"
        /\ LET q == doc[o].txnHash[1]
           IN  req[q].of = o /\ req[q].by = doc[o].buyer

\* Every recorded payment took place on chain, its buyer is a member, and a
\* request leaves one payment at most, however often its callback ran and
\* whoever else made the same account a member at the same time.
PaymentsStand ==
    \A s \in payment :
        /\ swap[s] = "landed"
        /\ req[s[1]].by \in member
        /\ \A other \in payment : other[1] = s[1] => other = s

SoldBy(o) == {s \in Swap : req[s[1]].of = o /\ swap[s] = "landed"}

\* A request for offer o that sent a swap and then lost track of it: the
\* callback was run again, or the request failed or died.
Interrupted(o) ==
    \E s \in Swap : /\ swap[s] # "unsent" /\ req[s[1]].of = o
                    /\ s[2] < req[s[1]].run \/ req[s[1]].pc \in {"failed", "dead"}

\* The check of the status is worth something: unless two requests answered
\* the offer at the same time, or one was interrupted after it had sent its
\* swap, an offer that is not for life is sold once at most, and not at all
\* once it was declined.
SoldAgainNeedsFault ==
    \A o \in SaleOffer \ (LifeTime \cup overlap) :
        ~Interrupted(o) =>
            /\ \A s, other \in SoldBy(o) : s = other
            /\ doc[o].status = "declined" => SoldBy(o) = {}

\* What the refusal of an answered offer says: it is sold once.
SoldOnce ==
    \A s, other \in payment :
        req[s[1]].of = req[other[1]].of /\ req[s[1]].of \notin LifeTime => s = other

=============================================================================
