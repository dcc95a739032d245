------------------------------ MODULE Payments ------------------------------
(***************************************************************************)
(* PaymentService: money that comes in for an organisation, and its split  *)
(* among the organisation's members (handleRegularPayment).  The profit of *)
(* a member is added to the document read when the split began, and saved  *)
(* without being awaited; the shares are then transferred in batches, a    *)
(* batch that fails being skipped; members that are organisations split    *)
(* their share in turn.  Money comes in by an in-app payment               *)
(* (performPayment), a merchant's (handleMerchantPayment: credits are      *)
(* minted), DePlan's (handleNewDeplanPayment: transferred by the root      *)
(* organisation), or is there already (handleDeplanPayment, splitNow, the  *)
(* commissions of offers).                                                 *)
(*                                                                         *)
(* Amounts are whole millionths, balances of an organisation's token whole *)
(* percentages.  An organisation is reached once by a payment.             *)
(***************************************************************************)
EXTENDS Integers, Sequences, FiniteSets, Functions

CONSTANTS
    Source,      \* payments that come in
    Kinds,       \* for each of them, the ways it may come in
    PaidTo,      \* and the organisation it is for
    Org, User,
    Root,        \* the root organisation
    Minted,      \* organisations whose mintStatus is success
    Holders,     \* the members of each organisation
    Treasury,    \* percentage each one keeps
    Amount,      \* of every payment
    Commission,  \* percentage of an in-app payment the root organisation gets
    Readings,    \* balances a member may be read to have
    BatchSize,   \* 5
    MaxDepth,    \* recursions of _normalizeAmount the stack holds
    MaxMoves,    \* bound of the model: how often a transfer may land
    MaxCrash     \* bound of the model: restarts

ASSUME PaymentsAssumption ==
    /\ Kinds \in [Source -> SUBSET {"perform", "merchant", "newdeplan", "deplan"}]
    /\ PaidTo \in [Source -> Org] /\ Root \in Org /\ Minted \subseteq Org
    /\ Org \cap User = {}
    /\ Holders \in [Org -> Seq(Org \cup User)] /\ \A o \in Org : IsInjective(Holders[o])
    /\ \A o, p \in Org : o # p => Range(Holders[o]) \cap Range(Holders[p]) \cap Org = {}
    /\ \A o \in Org : o \notin Range(Holders[o]) /\ Root \notin Range(Holders[o])
    /\ Treasury \in [Org -> 0..100] /\ Commission \in 0..100 /\ Readings \subseteq Nat
    /\ {Amount, BatchSize, MaxDepth, MaxMoves, MaxCrash} \subseteq Nat /\ BatchSize > 0

VARIABLES
    source,      \* the requests and webhooks
    landed,      \* the chain: how often the money of each came in
    hash,        \* payments whose hash is recorded
    job,         \* handleRegularPayment for each source and organisation
    profit,      \* the members' documents
    saves,       \* writes of them under way
    booked,      \* history: what each member was to get
    overlap,     \* history: organisations with two splits at work at the same time
    crashes

vars == <<source, landed, hash, job, profit, saves, booked, overlap, crashes>>

Holding == {h \in Org \X (Org \cup User) : h[2] \in Range(Holders[h[1]])}

Split == {"load", "read", "children"}
Ended == {"done", "failed"}

\* The locals of a split: what is left of the amount, the members read so far,
\* the profit they had when it began, the shares, how often each was moved, and
\* the members whose batch is over, and of those that threw.
NoJob == [pc |-> "idle", amount |-> 0, left |-> 0, read |-> 0, base |-> <<>>,
          share |-> <<>>, moved |-> <<>>, over |-> {}, threw |-> {}]

Returned == [NoJob EXCEPT !.pc = "done"]
Thrown == [NoJob EXCEPT !.pc = "failed"]

Init ==
    /\ source \in {f \in [Source -> [pc : {"idle"}, kind : UNION Range(Kinds)]] :
                      \A s \in Source : f[s].kind \in Kinds[s]}
    /\ landed = [s \in Source |-> 0]
    /\ hash = {}
    /\ job = [so \in Source \X Org |-> NoJob]
    /\ profit = [h \in Holding |-> 0]
    /\ saves = {}
    /\ booked = [h \in Holding |-> 0]
    /\ overlap = {}
    /\ crashes = 0

(***************************************************************************)
(* Arithmetic.                                                             *)
(***************************************************************************)

\* toFixed(amount * percent / 100, 6): big.js rounds a half up.
Percent(amount, percent) == (2 * amount * percent + 100) \div 200

\* Mutant: a share is never lowered.
NeverLowered(amount, left) == 0

\* How often _normalizeAmount lowers an amount by a millionth until it fits.
Lowered(amount, left) == IF amount > left THEN amount - left ELSE 0

AmountToSplit(o, amount) == amount - Percent(amount, Treasury[o])

Fee == Percent(Amount, Commission)

(***************************************************************************)
(* The money comes in.                                                     *)
(***************************************************************************)

SourceGoes(s, to) == source' = [source EXCEPT ![s].pc = to]

Kind(s) == source[s].kind

\* What each organisation has to split.
ToPayee(s) == [o \in {PaidTo[s]} |-> Amount]

WithCommission(s) ==
    [o \in {PaidTo[s], Root} |-> IF o = PaidTo[s] THEN Amount - Fee ELSE Fee]

\* Calls handleRegularPayment for some organisations without awaiting it; an
\* organisation without a token has nothing to split, nor does one whose
\* treasury takes more than everything.
Started(s, amounts) ==
    LET begins == {o \in DOMAIN amounts : o \in Minted /\ AmountToSplit(o, amounts[o]) >= 0}
    IN  /\ job' = [so \in DOMAIN job |->
                      IF so[1] # s \/ so[2] \notin DOMAIN amounts THEN job[so]
                      ELSE IF so[2] \notin begins THEN Returned
                      ELSE [NoJob EXCEPT !.pc = "load",
                                         !.left = AmountToSplit(so[2], amounts[so[2]]),
                                         !.amount = AmountToSplit(so[2], amounts[so[2]])]]
        /\ overlap' = overlap \cup
               {o \in begins : \/ \E r \in Source : job[<<r, o>>].pc \in Split
                              \/ \E v \in saves : v.holding[1] = o}

\* A payment of one kind is accepted, and its transaction sent.
Accepted(s, kind) ==
    /\ source[s].pc = "idle"
    /\ Kind(s) = kind
    /\ SourceGoes(s, "send")
    /\ UNCHANGED <<landed, hash, job, profit, saves, booked, overlap, crashes>>

\* performPayment reads the payment, the balances of the payer's own and bonus
\* wallet, and refuses if neither is enough; it does not look whether the
\* payment was performed.
PerformPayment(s) == Accepted(s, "perform")

\* A payment document is saved, and credits are minted to the organisation.
HandleMerchantPayment(s) == Accepted(s, "merchant")

\* The root organisation transfers what DePlan says an organisation is owed.
HandleNewDeplanPayment(s) == Accepted(s, "newdeplan")

\* handleDeplanPayment and the other callers: the money is there.
SplitsAtOnce(s) ==
    /\ source[s].pc = "idle"
    /\ Kind(s) = "deplan"
    /\ SourceGoes(s, "done")
    /\ Started(s, ToPayee(s))
    /\ UNCHANGED <<landed, hash, profit, saves, booked, crashes>>

\* The transaction lands; a second one where the sender tried again.
ComesIn(s) ==
    /\ source[s].pc = "send"
    /\ landed[s] < IF Kind(s) = "merchant" THEN MaxMoves ELSE 1
    /\ landed' = [landed EXCEPT ![s] = @ + 1]
    /\ UNCHANGED <<source, hash, job, profit, saves, booked, overlap, crashes>>

\* createAndSendTxn returned: the payment and the commission are in.  Both are
\* split while the hash is saved.
Performs(s) ==
    /\ source[s].pc = "send"
    /\ Kind(s) = "perform"
    /\ landed[s] > 0
    /\ SourceGoes(s, "record")
    /\ Started(s, WithCommission(s))
    /\ UNCHANGED <<landed, hash, profit, saves, booked, crashes>>

\* confirmTxnWithRetry returned: the credits are minted.
Mints(s) ==
    /\ source[s].pc = "send"
    /\ Kind(s) = "merchant"
    /\ landed[s] > 0
    /\ SourceGoes(s, "record")
    /\ UNCHANGED <<landed, hash, job, profit, saves, booked, overlap, crashes>>

\* transfer returned.
Transfers(s) ==
    /\ source[s].pc = "send"
    /\ Kind(s) = "newdeplan"
    /\ landed[s] > 0
    /\ SourceGoes(s, "done")
    /\ Started(s, ToPayee(s))
    /\ UNCHANGED <<landed, hash, profit, saves, booked, crashes>>

\* payment.save(): a merchant's payment is split after it.
Records(s) ==
    /\ source[s].pc = "record"
    /\ hash' = hash \cup {s}
    /\ SourceGoes(s, "done")
    /\ IF Kind(s) = "merchant" THEN Started(s, ToPayee(s))
       ELSE UNCHANGED <<job, overlap>>
    /\ UNCHANGED <<landed, profit, saves, booked, crashes>>

\* Funds are insufficient, or a call of the chain or the database throws: the
\* payer is told so, a webhook's error is logged.  What was sent may have landed.
SourceThrows(s) ==
    /\ source[s].pc \in {"send", "record"}
    /\ SourceGoes(s, "failed")
    /\ UNCHANGED <<landed, hash, job, profit, saves, booked, overlap, crashes>>

(***************************************************************************)
(* The split.                                                              *)
(***************************************************************************)

Sets(s, o, to) == job' = [job EXCEPT ![<<s, o>>] = to]

\* Mutant: the members are read without their profit.
LoadsWithoutProfit(s, o) ==
    LET j == job[<<s, o>>]
    IN  /\ j.pc = "load"
        /\ Sets(s, o, [j EXCEPT !.pc = "read",
                               !.base = [m \in Range(Holders[o]) |-> 0]])
        /\ UNCHANGED <<source, landed, hash, profit, saves, booked, overlap, crashes>>

\* The members are read from the database, with their profit.
Loads(s, o) ==
    LET j == job[<<s, o>>]
    IN  /\ j.pc = "load"
        /\ Sets(s, o, [j EXCEPT !.pc = "read",
                               !.base = [m \in Range(Holders[o]) |-> profit[<<o, m>>]]])
        /\ UNCHANGED <<source, landed, hash, profit, saves, booked, overlap, crashes>>

With(f, m, value) == [x \in DOMAIN f \cup {m} |-> IF x = m THEN value ELSE f[x]]

NextHolder(s, o) == Holders[o][job[<<s, o>>].read + 1]

\* The next member's balance is read, as 0 if that fails; without one the member
\* is passed over.  The share is rounded, and lowered to what is left; lowering
\* it too often throws.
Shares(s, o, reading) ==
    LET j == job[<<s, o>>]
        m == NextHolder(s, o)
        amount == Percent(j.amount, reading)
        share == amount - Lowered(amount, j.left)
    IN  /\ j.pc = "read"
        /\ j.read < Len(Holders[o])
        /\ IF reading = 0
           THEN Sets(s, o, [j EXCEPT !.read = @ + 1]) /\ UNCHANGED <<saves, booked>>
           ELSE IF Lowered(amount, j.left) > MaxDepth
           THEN Sets(s, o, Thrown) /\ UNCHANGED <<saves, booked>>
           ELSE /\ Sets(s, o, [j EXCEPT !.read = @ + 1,
                                        !.left = @ - share,
                                        !.share = With(@, m, share),
                                        !.moved = With(@, m, 0)])
                /\ saves' = saves \cup {[by |-> s, holding |-> <<o, m>>,
                                          profit |-> j.base[m] + share]}
                /\ booked' = [booked EXCEPT ![<<o, m>>] = @ + share]
        /\ UNCHANGED <<source, landed, hash, profit, overlap, crashes>>

\* A member's document is written, whatever was written meanwhile.
Saves(v) ==
    /\ profit' = [profit EXCEPT ![v.holding] = v.profit]
    /\ saves' = saves \ {v}
    /\ UNCHANGED <<source, landed, hash, job, booked, overlap, crashes>>

\* The places of the members with a share whose batch is not over.
Rest(s, o) ==
    {i \in DOMAIN Holders[o] :
        Holders[o][i] \in DOMAIN job[<<s, o>>].share \ job[<<s, o>>].over}

\* The members of the next batch, the first of them.
Batch(s, o) ==
    LET IsNext(i) == Cardinality({k \in Rest(s, o) : k < i}) < BatchSize
    IN  {Holders[o][i] : i \in {i \in Rest(s, o) : IsNext(i)}}

\* All balances are read, and a batch is left: the next one is built and sent.
Sending(s, o) ==
    /\ job[<<s, o>>].pc = "read"
    /\ job[<<s, o>>].read = Len(Holders[o])
    /\ Batch(s, o) # {}

\* The batch lands: all its transfers, and all of them again if it was sent again.
BatchLands(s, o) ==
    LET j == job[<<s, o>>]
    IN  /\ Sending(s, o)
        /\ \A m \in Batch(s, o) : j.moved[m] < MaxMoves
        /\ Sets(s, o, [j EXCEPT !.moved = [m \in DOMAIN @ |->
                            @[m] + (IF m \in Batch(s, o) THEN 1 ELSE 0)]])
        /\ UNCHANGED <<source, landed, hash, profit, saves, booked, overlap, crashes>>

\* Mutant: a batch is not confirmed.
BatchReturnsAtOnce(s, o) ==
    /\ Sending(s, o)
    /\ Sets(s, o, [job[<<s, o>>] EXCEPT !.over = @ \cup Batch(s, o)])
    /\ UNCHANGED <<source, landed, hash, profit, saves, booked, overlap, crashes>>

\* confirmTxnWithRetry returned, so the batch landed.
BatchReturns(s, o) ==
    /\ Sending(s, o)
    /\ \A m \in Batch(s, o) : job[<<s, o>>].moved[m] > 0
    /\ Sets(s, o, [job[<<s, o>>] EXCEPT !.over = @ \cup Batch(s, o)])
    /\ UNCHANGED <<source, landed, hash, profit, saves, booked, overlap, crashes>>

\* Sending or confirming it threw, whether it landed or not: it is skipped.
BatchThrows(s, o) ==
    /\ Sending(s, o)
    /\ Sets(s, o, [job[<<s, o>>] EXCEPT !.over = @ \cup Batch(s, o),
                                       !.threw = @ \cup Batch(s, o)])
    /\ UNCHANGED <<source, landed, hash, profit, saves, booked, overlap, crashes>>

\* After the last batch the members that are organisations split their shares.
BeginsChildren(s, o) ==
    /\ job[<<s, o>>].pc = "read"
    /\ job[<<s, o>>].read = Len(Holders[o])
    /\ Batch(s, o) = {}
    /\ Sets(s, o, [job[<<s, o>>] EXCEPT !.pc = "children"])
    /\ UNCHANGED <<source, landed, hash, profit, saves, booked, overlap, crashes>>

Children(s, o) == DOMAIN job[<<s, o>>].share \cap Org

\* One of them splits its share, whether it was transferred or not, up to three
\* at a time.
Forwards(s, o, c) ==
    /\ job[<<s, o>>].pc = "children"
    /\ c \in Children(s, o)
    /\ job[<<s, c>>].pc = "idle"
    /\ Cardinality({d \in Children(s, o) : job[<<s, d>>].pc \in Split}) < 3
    /\ Started(s, [child \in {c} |-> job[<<s, o>>].share[child]])
    /\ UNCHANGED <<source, landed, hash, profit, saves, booked, crashes>>

\* It returns when they have ended, well or not.
Returns(s, o) ==
    /\ job[<<s, o>>].pc = "children"
    /\ \A c \in Children(s, o) : job[<<s, c>>].pc \in Ended
    /\ Sets(s, o, Returned)
    /\ UNCHANGED <<source, landed, hash, profit, saves, booked, overlap, crashes>>

\* Reading the members or the key, or building a batch, throws, after some
\* profits were saved and some batches transferred; whoever called it logs that.
Throws(s, o) ==
    /\ \/ job[<<s, o>>].pc = "load"
       \/ Sending(s, o) /\ \A m \in Batch(s, o) : job[<<s, o>>].moved[m] = 0
    /\ Sets(s, o, Thrown)
    /\ UNCHANGED <<source, landed, hash, profit, saves, booked, overlap, crashes>>

\* The process dies, also because a member's document could not be saved, which
\* nobody awaits.
Crash ==
    /\ crashes < MaxCrash
    /\ crashes' = crashes + 1
    /\ source' = [s \in Source |->
                     IF source[s].pc \in {"send", "record"} THEN [source[s] EXCEPT !.pc = "failed"]
                     ELSE source[s]]
    /\ job' = [so \in DOMAIN job |-> IF job[so].pc \in Split THEN Thrown ELSE job[so]]
    /\ saves' = {}
    /\ UNCHANGED <<landed, hash, profit, booked, overlap>>

SourceStep(s) ==
    \/ Performs(s) \/ Mints(s) \/ Transfers(s) \/ Records(s) \/ SourceThrows(s)

JobStep(s, o) ==
    \/ Loads(s, o)
    \/ \E reading \in Readings : Shares(s, o, reading)
    \/ BatchReturns(s, o) \/ BatchThrows(s, o)
    \/ BeginsChildren(s, o) \/ Returns(s, o) \/ Throws(s, o)
    \/ \E c \in Org : Forwards(s, o, c)

Next ==
    \/ \E s \in Source :
           \/ PerformPayment(s) \/ HandleMerchantPayment(s) \/ HandleNewDeplanPayment(s)
           \/ SplitsAtOnce(s) \/ ComesIn(s) \/ SourceStep(s)
           \/ \E o \in Org : JobStep(s, o) \/ BatchLands(s, o)
    \/ \E v \in saves : Saves(v)
    \/ Crash

Spec == Init /\ [][Next]_vars

(***************************************************************************)
(* Properties.                                                             *)
(***************************************************************************)

\* Whatever the members' balances are read to be, one at a time while their
\* tokens move, no share is negative and the shares are not more than what is
\* split, all roundings included.
SharesFit ==
    \A so \in DOMAIN job :
        LET j == job[so]
        IN  /\ \A m \in DOMAIN j.share : j.share[m] >= 0
            /\ SumFunction(j.share) <= j.amount

\* Once nothing is being saved the members' profits are what they were to get,
\* unless two splits of their organisation overlapped, each adding to the profit
\* it had read, or the process died.
ProfitLostNeedsCause ==
    \A h \in Holding :
        profit[h] # booked[h] =>
            h[1] \in overlap \/ crashes > 0 \/ \E v \in saves : v.holding = h

\* A payment whose hash is recorded, or of which a split began, has come in, if
\* it is the server that takes it in; and a share that a member splits in turn,
\* being an organisation, was transferred to it, or its batch is known to have
\* failed.
SplitIsFunded ==
    \A s \in Source :
        /\ Kind(s) # "deplan" /\ (s \in hash \/ \E o \in Org : job[<<s, o>>].pc # "idle")
               => landed[s] > 0
        /\ \A o \in Org : \A c \in Children(s, o) :
               job[<<s, o>>].pc = "children" /\ job[<<s, c>>].pc # "idle" =>
                   job[<<s, o>>].moved[c] > 0 \/ c \in job[<<s, o>>].threw

=============================================================================
