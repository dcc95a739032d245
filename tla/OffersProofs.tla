-------------------------- MODULE OffersProofs --------------------------
(***************************************************************************)
(* What holds of sale offers for any number of offers, accounts, requests, *)
(* runs of the callback and restarts, of member offers for any founders    *)
(* and shares, candidates, answers, batches and reruns, and of investments *)
(* for any investors, amounts, requests, runs and restarts.                *)
(***************************************************************************)
EXTENDS SaleOffers, MemberOffers, InvestOffers, Sums, SequenceTheorems, FiniteSetTheorems, TLAPS

(***************************************************************************)
(* The inductive invariant.  Its parts follow a request from the moment it *)
(* read the offer to what it leaves on record: which swaps it has sent,    *)
(* what it knows when it commits and when it saves, and which requests can *)
(* be at an offer together.                                                *)
(***************************************************************************)

\* A request that was started is of an account, for an offer that exists, and it
\* runs the callback exactly when it accepts.
ReqsValid ==
    \A q \in Req :
        /\ req[q].pc = "idle" =>
               req[q].of = NoOffer /\ ~req[q].accepts
        /\ req[q].pc # "idle" =>
               /\ req[q].of \in SaleOffer /\ req[q].by \in Account
               /\ doc[req[q].of].status # "none"
        /\ req[q].pc \in {"check", "refused"} => ~req[q].accepts
        /\ req[q].pc \in InRun => req[q].accepts
        /\ req[q].accepts <=> req[q].run >= 1

\* Every run swaps once, and no later run has swapped yet.
RunsSwapOnce ==
    \A q \in Req, i \in 1..MaxRun : swap[<<q, i>>] # "unsent" =>
        /\ i <= req[q].run
        /\ req[q].pc \in {"find", "insert", "send"} => i < req[q].run

\* A request past the insert has a member for its account, committed or its own.
BuyerIsMember ==
    \A q \in Req : req[q].pc \in {"send", "await", "commit"} =>
        req[q].inserts \/ req[q].by \in member

\* A request that is to commit has seen its swap land, and one that is to save an
\* acceptance has its payment on record.
StepsInOrder ==
    \A q \in Req : /\ req[q].pc = "commit" => swap[SwapOf(q)] = "landed"
                   /\ req[q].pc = "save" /\ req[q].accepts => SwapOf(q) \in payment

\* A payment is of the last run of a request that runs the callback no more.
PaymentIsLastRun ==
    \A s \in payment : /\ swap[s] = "landed"
                       /\ req[s[1]].by \in member
                       /\ req[s[1]].pc \notin InRun
                       /\ s[2] = req[s[1]].run

\* As long as no two requests answered it at once, an offer that is sold once has
\* one request at most that is answering it or has answered it, and its status is
\* what that request found or made it.
AnsweredByOne ==
    \A o \in SaleOffer \ (LifeTime \cup overlap), q \in Req : req[q].of = o =>
        /\ req[q].pc \in Running => doc[o].status = "pending"
        /\ req[q].pc = "done" =>
               doc[o].status = IF req[q].accepts THEN "approved" ELSE "declined"
        /\ \A p \in Req :
               /\ req[p].of = o
               /\ req[p].pc \in Running \cup {"done"}
               /\ req[q].pc \in Running \cup {"done"}
               => p = q

Inv ==
    /\ TypeOK
    /\ ReqsValid
    /\ RunsSwapOnce
    /\ BuyerIsMember
    /\ StepsInOrder
    /\ PaymentIsLastRun
    /\ AnsweredByOne
    /\ ApprovedIsPaid

LEMMA InitInv == Init => Inv
  BY OfferAssumption, AccountAssumption, RunAssumption, SwapAssumption
  DEF Init, Inv, TypeOK, ReqsValid, RunsSwapOnce, BuyerIsMember, StepsInOrder,
      PaymentIsLastRun, AnsweredByOne, ApprovedIsPaid, Swap, InRun, Running, Ended

(***************************************************************************)
(* What a step makes of the request that takes it.                         *)
(***************************************************************************)

ReqState == [pc : {"idle"} \cup Running \cup Ended, of : SaleOffer \cup {NoOffer},
             by : Account \cup {NoAccount}, accepts : BOOLEAN, inserts : BOOLEAN,
             run : 0..MaxRun]

Becomes(q, to, o, account, accepts, inserts, run) ==
    /\ req' \in [Req -> ReqState]
    /\ \A p \in Req : p # q => req'[p] = req[p]
    /\ req'[q].pc = to /\ req'[q].of = o /\ req'[q].by = account
    /\ req'[q].accepts = accepts /\ req'[q].inserts = inserts /\ req'[q].run = run

LEMMA Turns ==
  ASSUME TypeOK, NEW q \in Req, NEW new \in ReqState, req' = [req EXCEPT ![q] = new]
  PROVE  Becomes(q, new.pc, new.of, new.by, new.accepts, new.inserts, new.run)
<1>1. req \in [Req -> ReqState]
  BY DEF TypeOK, ReqState
<1> QED BY <1>1 DEF Becomes

LEMMA GoesBecomes ==
  ASSUME TypeOK, NEW q \in Req, NEW to \in Running \cup Ended, Goes(q, to)
  PROVE  Becomes(q, to, req[q].of, req[q].by, req[q].accepts, req[q].inserts, req[q].run)
<1>1. req[q] \in ReqState
  BY DEF TypeOK, ReqState
<1> DEFINE new == [req[q] EXCEPT !.pc = to]
<1>2. /\ new \in ReqState
      /\ new.pc = to /\ new.of = req[q].of /\ new.by = req[q].by
      /\ new.accepts = req[q].accepts /\ new.inserts = req[q].inserts
      /\ new.run = req[q].run
  BY <1>1 DEF ReqState
<1>3. req' = [req EXCEPT ![q] = new]
  BY DEF Goes
<1> HIDE DEF new
<1> QED BY <1>2, <1>3, Turns

LEMMA ReadsBecomes ==
  ASSUME TypeOK, NEW q \in Req, NEW account \in Account, NEW o \in SaleOffer,
         Reads(q, account, o)
  PROVE  Becomes(q, IF Open(o) THEN "check" ELSE "refused", o, account,
                 req[q].accepts, req[q].inserts, req[q].run)
<1>1. req[q] \in ReqState
  BY DEF TypeOK, ReqState
<1> DEFINE to == IF Open(o) THEN "check" ELSE "refused"
<1> DEFINE new == [req[q] EXCEPT !.pc = to, !.of = o, !.by = account]
<1>2. to \in Running \cup Ended
  BY DEF Running, Ended
<1>3. req' = [req EXCEPT ![q] = new]
  BY DEF Reads
<1> HIDE DEF to
<1>4. /\ new \in ReqState
      /\ new.pc = to /\ new.of = o /\ new.by = account
      /\ new.accepts = req[q].accepts /\ new.inserts = req[q].inserts
      /\ new.run = req[q].run
  BY <1>1, <1>2 DEF ReqState
<1> HIDE DEF new
<1> QED BY <1>3, <1>4, Turns DEF to

LEMMA AcceptsBecomes ==
  ASSUME TypeOK, NEW q \in Req, Accepts(q)
  PROVE  Becomes(q, "find", req[q].of, req[q].by, TRUE, req[q].inserts, 1)
<1>1. req[q] \in ReqState /\ 1 \in 0..MaxRun
  BY RunAssumption DEF TypeOK, ReqState
<1> DEFINE new == [req[q] EXCEPT !.pc = "find", !.accepts = TRUE, !.run = 1]
<1>2. /\ new \in ReqState
      /\ new.pc = "find" /\ new.of = req[q].of /\ new.by = req[q].by
      /\ new.accepts = TRUE /\ new.inserts = req[q].inserts /\ new.run = 1
  BY <1>1 DEF ReqState, Running, InRun
<1>3. req' = [req EXCEPT ![q] = new]
  BY DEF Accepts
<1> HIDE DEF new
<1> QED BY <1>2, <1>3, Turns

LEMMA InsertsBecomes ==
  ASSUME TypeOK, NEW q \in Req, InsertsMember(q)
  PROVE  Becomes(q, "send", req[q].of, req[q].by, req[q].accepts, TRUE, req[q].run)
<1>1. req[q] \in ReqState
  BY DEF TypeOK, ReqState
<1> DEFINE new == [req[q] EXCEPT !.pc = "send", !.inserts = TRUE]
<1>2. /\ new \in ReqState
      /\ new.pc = "send" /\ new.of = req[q].of /\ new.by = req[q].by
      /\ new.accepts = req[q].accepts /\ new.inserts = TRUE /\ new.run = req[q].run
  BY <1>1 DEF ReqState, Running, InRun
<1>3. req' = [req EXCEPT ![q] = new]
  BY DEF InsertsMember
<1> HIDE DEF new
<1> QED BY <1>2, <1>3, Turns

LEMMA RerunsBecomes ==
  ASSUME TypeOK, NEW q \in Req, Reruns(q)
  PROVE  \/ Becomes(q, "find", req[q].of, req[q].by, req[q].accepts, FALSE, req[q].run + 1)
         \/ Becomes(q, "failed", req[q].of, req[q].by, req[q].accepts, req[q].inserts,
                    req[q].run)
<1>1. req[q] \in ReqState
  BY DEF TypeOK, ReqState
<1>2. CASE req[q].run < MaxRun
  <2> DEFINE new == [req[q] EXCEPT !.pc = "find", !.run = req[q].run + 1, !.inserts = FALSE]
  <2>1. req[q].run + 1 \in 0..MaxRun
    BY <1>1, <1>2, RunAssumption DEF ReqState
  <2>2. /\ new \in ReqState
        /\ new.pc = "find" /\ new.of = req[q].of /\ new.by = req[q].by
        /\ new.accepts = req[q].accepts /\ new.inserts = FALSE
        /\ new.run = req[q].run + 1
    BY <1>1, <2>1 DEF ReqState, Running, InRun
  <2>3. req' = [req EXCEPT ![q] = new]
    BY <1>2 DEF Reruns
  <2> HIDE DEF new
  <2> QED BY <2>2, <2>3, Turns
<1>3. CASE ~(req[q].run < MaxRun)
  <2>1. Goes(q, "failed") /\ "failed" \in Running \cup Ended
    BY <1>3 DEF Reruns, Goes, Ended
  <2> QED BY <2>1, GoesBecomes
<1> QED BY <1>2, <1>3

LEMMA StatesTyped ==
  TypeOK <=> /\ doc \in [SaleOffer -> [status : {"none", "pending", "approved", "declined"},
                                       buyer : Account \cup {NoAccount},
                                       txnHash : Swap \cup {NoSwap}]]
             /\ req \in [Req -> ReqState]
             /\ payment \subseteq Swap
             /\ member \subseteq Account
             /\ swap \in [Swap -> {"unsent", "inflight", "landed", "failed", "expired"}]
             /\ overlap \subseteq SaleOffer
             /\ crashes \in 0..MaxCrash
  BY DEF TypeOK, ReqState

(***************************************************************************)
(* The steps of a request that change nothing but the request.             *)
(***************************************************************************)

\* What such a step has to respect, when it makes these of the request's fields.
Sound(q, to, accepts, inserts, run) ==
    /\ req[q].pc \in Running /\ to \in Running \cup {"failed"} /\ to # "check"
    /\ to \in InRun => accepts
    /\ accepts <=> run >= 1
    /\ \A i \in 1..MaxRun : swap[<<q, i>>] # "unsent" =>
           i <= run /\ (to \in {"find", "insert", "send"} => i < run)
    /\ to \in {"send", "await", "commit"} => inserts \/ req[q].by \in member
    /\ to = "commit" => swap[<<q, run>>] = "landed"
    /\ to = "save" => ~accepts
    /\ \/ req[q].pc \in InRun \/ ~req[q].accepts
       \/ run = req[q].run /\ to \notin InRun

LEMMA QuietInv ==
  ASSUME Inv, NEW q \in Req, NEW to, NEW accepts, NEW inserts, NEW run,
         Becomes(q, to, req[q].of, req[q].by, accepts, inserts, run),
         Sound(q, to, accepts, inserts, run),
         UNCHANGED <<doc, payment, member, swap, overlap, crashes>>
  PROVE  Inv'
<1> USE DEF Becomes, Sound, Inv
<1>1. TypeOK'
  BY StatesTyped DEF TypeOK, ReqState
<1>2. ReqsValid'
  BY DEF ReqsValid, Running, InRun
<1>3. RunsSwapOnce'
  BY DEF RunsSwapOnce
<1>4. BuyerIsMember'
  BY DEF BuyerIsMember
<1>5. StepsInOrder'
  BY DEF StepsInOrder, SwapOf
<1>6. \A s \in payment : s[1] \in Req /\ req[s[1]].run >= 1
  BY RunAssumption DEF PaymentIsLastRun, TypeOK, Swap
<1>7. PaymentIsLastRun'
  BY <1>6 DEF PaymentIsLastRun, ReqsValid
<1>8. AnsweredByOne'
  BY DEF AnsweredByOne, Running, InRun
<1>9. ApprovedIsPaid'
  BY <1>6 DEF ApprovedIsPaid
<1> QED BY <1>1, <1>2, <1>3, <1>4, <1>5, <1>7, <1>8, <1>9

LEMMA QuietStepsInv ==
  ASSUME Inv, NEW q \in Req,
         \/ Declines(q) \/ Accepts(q) \/ CheckFails(q) \/ FindsMember(q) \/ InsertsMember(q)
         \/ InsertConflicts(q) \/ SwapReturns(q) \/ RunThrows(q) \/ AbortsTransiently(q)
         \/ SaveFails(q)
  PROVE  Inv'
<1>1. /\ TypeOK /\ req[q] \in ReqState
      /\ UNCHANGED <<doc, payment, member, swap, overlap, crashes>>
  BY DEF Inv, TypeOK, ReqState, Declines, Accepts, CheckFails, FindsMember, InsertsMember,
         InsertConflicts, SwapReturns, RunThrows, AbortsTransiently, SaveFails
<1> DEFINE Same(to) == Goes(q, to) /\ Sound(q, to, req[q].accepts, req[q].inserts, req[q].run)
<1>2. ASSUME NEW to, Same(to) PROVE Inv'
  <2>1. to \in Running \cup Ended
    BY <1>2 DEF Sound, Ended
  <2> QED BY <1>1, <1>2, <2>1, GoesBecomes, QuietInv
<1> USE <1>1 DEF Sound, Inv, Running, InRun, ReqState
<1>3. CASE Declines(q)
  <2>1. Same("save")
    BY <1>3 DEF Declines, ReqsValid, RunsSwapOnce
  <2> QED BY <1>2, <2>1
<1>4. CASE Accepts(q)
  <2>1. Sound(q, "find", TRUE, req[q].inserts, 1)
    BY <1>4 DEF Accepts, ReqsValid, RunsSwapOnce
  <2> QED BY <1>4, <2>1, AcceptsBecomes, QuietInv
<1>5. CASE CheckFails(q)
  <2>1. Same("failed")
    BY <1>5 DEF CheckFails, ReqsValid, RunsSwapOnce
  <2> QED BY <1>2, <2>1
<1>6. CASE FindsMember(q)
  <2>1. Same("send") \/ Same("insert")
    BY <1>6 DEF FindsMember, ReqsValid, RunsSwapOnce
  <2> QED BY <1>2, <2>1
<1>7. CASE InsertsMember(q)
  <2>1. Sound(q, "send", req[q].accepts, TRUE, req[q].run)
    BY <1>7 DEF InsertsMember, ReqsValid, RunsSwapOnce
  <2> QED BY <1>7, <2>1, InsertsBecomes, QuietInv
<1>8. CASE InsertConflicts(q) \/ AbortsTransiently(q)
  <2>1. Reruns(q) /\ req[q].pc \in {"insert", "commit"}
    BY <1>8 DEF InsertConflicts, AbortsTransiently
  <2>2. /\ Sound(q, "failed", req[q].accepts, req[q].inserts, req[q].run)
        /\ Sound(q, "find", req[q].accepts, FALSE, req[q].run + 1)
    BY <2>1 DEF ReqsValid, RunsSwapOnce
  <2> HIDE DEF Sound, Inv
  <2>3. CASE Becomes(q, "find", req[q].of, req[q].by, req[q].accepts, FALSE, req[q].run + 1)
    BY <1>1, <2>2, <2>3, QuietInv
  <2>4. CASE Becomes(q, "failed", req[q].of, req[q].by, req[q].accepts, req[q].inserts,
                     req[q].run)
    BY <1>1, <2>2, <2>4, QuietInv
  <2> QED BY <1>1, <2>1, <2>3, <2>4, RerunsBecomes
<1>9. CASE SwapReturns(q)
  <2>1. Same("commit")
    BY <1>9 DEF SwapReturns, ReqsValid, RunsSwapOnce, BuyerIsMember, SwapOf
  <2> QED BY <1>2, <2>1
<1>10. CASE RunThrows(q)
  <2>1. Same("failed")
    BY <1>10 DEF RunThrows, ReqsValid, RunsSwapOnce
  <2> QED BY <1>2, <2>1
<1>11. CASE SaveFails(q)
  <2>1. Same("failed")
    BY <1>11 DEF SaveFails, ReqsValid, RunsSwapOnce
  <2> QED BY <1>2, <2>1
<1> QED BY <1>3, <1>4, <1>5, <1>6, <1>7, <1>8, <1>9, <1>10, <1>11

(***************************************************************************)
(* The steps of a request that write something besides the request.        *)
(***************************************************************************)

\* A payment is of a request that exists and has run its callback.
LEMMA PaymentHasRun ==
  ASSUME Inv, NEW s \in payment
  PROVE  /\ s \in Swap /\ s[1] \in Req /\ s[2] \in 1..MaxRun /\ s = <<s[1], s[2]>>
         /\ req[s[1]].run >= 1 /\ req[s[1]].accepts
         /\ req[s[1]].pc \notin {"idle", "check", "refused"} \cup InRun
  BY RunAssumption DEF Inv, TypeOK, PaymentIsLastRun, Swap, ReqsValid

LEMMA ReadsInv ==
  ASSUME Inv, NEW q \in Req, NEW account \in Account, NEW o \in SaleOffer,
         Reads(q, account, o)
  PROVE  Inv'
<1>1. /\ Becomes(q, IF Open(o) THEN "check" ELSE "refused", o, account,
                 req[q].accepts, req[q].inserts, req[q].run)
      /\ req[q].pc = "idle" /\ doc[o].status # "none"
      /\ ~req[q].accepts /\ ~(req[q].run >= 1)
      /\ UNCHANGED <<doc, payment, member, swap, crashes>>
  BY ReadsBecomes DEF Reads, Inv, ReqsValid
<1>2. /\ overlap' \in {overlap, overlap \cup {o}}
      /\ Open(o) /\ (\E p \in Req : req[p].of = o /\ req[p].pc \in Running) => o \in overlap'
  BY DEF Reads
<1> USE DEF Becomes, Inv
<1>3. TypeOK'
  BY <1>1, <1>2, StatesTyped DEF TypeOK, ReqState
<1>4. ReqsValid'
  BY <1>1 DEF ReqsValid, InRun
<1>5. RunsSwapOnce'
  BY <1>1 DEF RunsSwapOnce
<1>6. BuyerIsMember' /\ StepsInOrder'
  BY <1>1 DEF BuyerIsMember, StepsInOrder, SwapOf
<1>7. \A s \in payment : s[1] \in Req /\ s[1] # q
  BY <1>1, PaymentHasRun
<1>8. PaymentIsLastRun'
  BY <1>1, <1>7 DEF PaymentIsLastRun
<1>9. AnsweredByOne'
  BY <1>1, <1>2, OfferAssumption DEF AnsweredByOne, ReqsValid, Open, Running, InRun
<1>10. ApprovedIsPaid'
  BY <1>1, <1>7 DEF ApprovedIsPaid
<1> QED BY <1>3, <1>4, <1>5, <1>6, <1>8, <1>9, <1>10

LEMMA BroadcastsInv ==
  ASSUME Inv, NEW q \in Req, Broadcasts(q)
  PROVE  Inv'
<1>1. /\ Becomes(q, "await", req[q].of, req[q].by, req[q].accepts, req[q].inserts, req[q].run)
      /\ req[q].pc = "send" /\ swap' = [swap EXCEPT ![SwapOf(q)] = "inflight"]
      /\ UNCHANGED <<doc, payment, member, overlap, crashes>>
  BY GoesBecomes DEF Broadcasts, Inv, Running, InRun
<1>2. \A p \in Req, i \in 1..MaxRun : swap'[<<p, i>>] =
          IF p = q /\ i = req[q].run THEN "inflight" ELSE swap[<<p, i>>]
  BY <1>1 DEF Inv, TypeOK, Swap, SwapOf
<1> USE DEF Becomes, Inv
<1>3. TypeOK'
  BY <1>1, StatesTyped DEF TypeOK, ReqState
<1>4. ReqsValid'
  BY <1>1 DEF ReqsValid, InRun
<1>5. RunsSwapOnce'
  BY <1>1, <1>2, RunAssumption DEF RunsSwapOnce, TypeOK
<1>6. BuyerIsMember'
  BY <1>1 DEF BuyerIsMember
<1>7. StepsInOrder'
  BY <1>1, <1>2, RunAssumption DEF StepsInOrder, ReqsValid, InRun, SwapOf, TypeOK
<1>8. \A s \in payment : s[1] \in Req /\ s[1] # q /\ swap'[s] = swap[s]
  BY <1>1, <1>2, PaymentHasRun DEF InRun
<1>9. PaymentIsLastRun'
  BY <1>1, <1>8 DEF PaymentIsLastRun
<1>10. AnsweredByOne'
  BY <1>1 DEF AnsweredByOne, Running, InRun
<1>11. ApprovedIsPaid'
  BY <1>1, <1>8 DEF ApprovedIsPaid
<1> QED BY <1>3, <1>4, <1>5, <1>6, <1>7, <1>9, <1>10, <1>11

\* A commit, and one whose answer is lost.
LEMMA CommitsInv ==
  ASSUME Inv, NEW q \in Req, Commits(q) \/ CommitFails(q)
  PROVE  Inv'
<1>1. req[q].pc = "commit" /\ UNCHANGED <<doc, swap, overlap, crashes>>
  BY DEF Commits, CommitFails
<1>2. PICK to \in {"save", "failed"} :
          /\ Becomes(q, to, req[q].of, req[q].by, req[q].accepts, req[q].inserts, req[q].run)
          /\ Committed(q) \/ (to = "failed" /\ UNCHANGED <<payment, member>>)
  BY GoesBecomes DEF Commits, CommitFails, Inv, Running, Ended
<1>3. SwapOf(q) \in Swap /\ swap[SwapOf(q)] = "landed" /\ req[q].by \in Account
  BY <1>1 DEF Inv, TypeOK, ReqsValid, StepsInOrder, InRun, SwapOf, Swap
<1>4. /\ payment \subseteq payment' /\ payment' \subseteq payment \cup {SwapOf(q)}
      /\ member \subseteq member' /\ member' \subseteq member \cup {req[q].by}
      /\ to = "save" => SwapOf(q) \in payment'
      /\ SwapOf(q) \in payment' => req[q].by \in member' \/ SwapOf(q) \in payment
  BY <1>1, <1>2 DEF Committed, Inv, BuyerIsMember
<1> USE DEF Becomes, Inv
<1>5. TypeOK'
  BY <1>1, <1>2, <1>3, <1>4, StatesTyped DEF TypeOK, ReqState
<1>6. ReqsValid'
  BY <1>1, <1>2 DEF ReqsValid, InRun
<1>7. RunsSwapOnce'
  BY <1>1, <1>2 DEF RunsSwapOnce
<1>8. BuyerIsMember'
  BY <1>2, <1>4 DEF BuyerIsMember
<1>9. StepsInOrder'
  BY <1>1, <1>2, <1>4 DEF StepsInOrder, SwapOf
<1>10. \A s \in payment : s[1] \in Req /\ s[1] # q
  BY <1>1, PaymentHasRun DEF InRun
<1>11. PaymentIsLastRun'
  BY <1>1, <1>2, <1>3, <1>4, <1>10 DEF PaymentIsLastRun, SwapOf, InRun
<1>12. AnsweredByOne'
  BY <1>1, <1>2 DEF AnsweredByOne, Running, InRun
<1>13. ApprovedIsPaid'
  BY <1>1, <1>2, <1>4, <1>10 DEF ApprovedIsPaid
<1> QED BY <1>5, <1>6, <1>7, <1>8, <1>9, <1>11, <1>12, <1>13

\* The offer is saved with what this request set on it.
LEMMA SavesInv ==
  ASSUME Inv, NEW q \in Req, Saves(q)
  PROVE  Inv'
<1>1. /\ Becomes(q, "done", req[q].of, req[q].by, req[q].accepts, req[q].inserts, req[q].run)
      /\ req[q].pc = "save"
      /\ UNCHANGED <<payment, member, swap, overlap, crashes>>
  BY GoesBecomes DEF Saves, Inv, Ended
<1>2. req[q].of \in SaleOffer /\ req[q].by \in Account /\ doc[req[q].of].status # "none"
  BY <1>1 DEF Inv, ReqsValid
<1>3. /\ \A o \in SaleOffer : o # req[q].of => doc'[o] = doc[o]
      /\ doc'[req[q].of].status = IF req[q].accepts THEN "approved" ELSE "declined"
      /\ req[q].accepts => /\ doc'[req[q].of].txnHash = SwapOf(q)
                           /\ doc'[req[q].of].buyer = req[q].by
  BY <1>2 DEF Saves, Inv, TypeOK
<1> USE DEF Becomes, Inv
<1>4. TypeOK'
  <2>1. req[q].accepts => SwapOf(q) \in Swap
    BY <1>1 DEF StepsInOrder, TypeOK
  <2>2. doc' \in [SaleOffer -> [status : {"none", "pending", "approved", "declined"},
                                buyer : Account \cup {NoAccount},
                                txnHash : Swap \cup {NoSwap}]]
    BY <1>2, <2>1 DEF Saves, TypeOK
  <2> QED BY <1>1, <2>2, StatesTyped DEF TypeOK, ReqState
<1>5. ReqsValid'
  BY <1>1, <1>3 DEF ReqsValid, InRun
<1>6. RunsSwapOnce' /\ BuyerIsMember' /\ StepsInOrder'
  BY <1>1 DEF RunsSwapOnce, BuyerIsMember, StepsInOrder, SwapOf
<1>7. \A s \in payment : s[1] \in Req
  BY PaymentHasRun
<1>8. PaymentIsLastRun'
  BY <1>1, <1>7 DEF PaymentIsLastRun, InRun
<1>9. AnsweredByOne'
  <2> SUFFICES ASSUME NEW o \in SaleOffer \ (LifeTime \cup overlap),
                      NEW p \in Req, req'[p].of = o
               PROVE  /\ req'[p].pc \in Running => doc'[o].status = "pending"
                      /\ req'[p].pc = "done" =>
                             doc'[o].status =
                                 IF req'[p].accepts THEN "approved" ELSE "declined"
                      /\ \A r \in Req : /\ req'[r].of = o
                                        /\ req'[p].pc \in Running \cup {"done"}
                                        /\ req'[r].pc \in Running \cup {"done"}
                                        => r = p
    BY <1>1 DEF AnsweredByOne
  <2>1. /\ req[p].of = o
        /\ \A r \in Req : /\ req'[r].of = req[r].of /\ req'[r].accepts = req[r].accepts
                          /\ r # q => req'[r].pc = req[r].pc
    BY <1>1
  <2>2. req[q].pc \in Running /\ req'[q].pc = "done"
    BY <1>1 DEF Running
  <2>3. \A r \in Req : /\ req'[r].of = o
                      /\ req'[p].pc \in Running \cup {"done"}
                      /\ req'[r].pc \in Running \cup {"done"}
                      => r = p
    BY <2>1, <2>2 DEF AnsweredByOne
  <2>4. CASE o # req[q].of
    <3>1. doc'[o] = doc[o] /\ p # q
      BY <1>3, <2>1, <2>4
    <3> QED BY <2>1, <2>3, <3>1 DEF AnsweredByOne
  <2>5. CASE o = req[q].of
    <3>1. p = q \/ req'[p].pc \notin Running \cup {"done"}
      BY <2>1, <2>2, <2>3, <2>5
    <3> QED BY <1>1, <1>3, <2>3, <2>5, <3>1 DEF Running, InRun
  <2> QED BY <2>4, <2>5
<1>10. ApprovedIsPaid'
  <2> SUFFICES ASSUME NEW o \in SaleOffer, doc'[o].status = "approved"
               PROVE  /\ doc'[o].txnHash \in payment
                      /\ swap[doc'[o].txnHash] = "landed"
                      /\ req'[doc'[o].txnHash[1]].of = o
                      /\ req'[doc'[o].txnHash[1]].by = doc'[o].buyer
    BY <1>1 DEF ApprovedIsPaid
  <2>1. CASE o # req[q].of
    BY <1>1, <1>3, <1>7, <2>1 DEF ApprovedIsPaid
  <2>2. CASE o = req[q].of
    <3>1. req[q].accepts
      BY <1>3, <2>2
    <3>2. SwapOf(q) \in payment /\ swap[SwapOf(q)] = "landed" /\ SwapOf(q)[1] = q
      BY <1>1, <3>1 DEF StepsInOrder, PaymentIsLastRun, SwapOf
    <3> QED BY <1>1, <1>3, <2>2, <3>1, <3>2
  <2> QED BY <2>1, <2>2
<1> QED BY <1>4, <1>5, <1>6, <1>8, <1>9, <1>10

(***************************************************************************)
(* The seller, restarts, and the chain.                                    *)
(***************************************************************************)

LEMMA CreateSaleOfferInv ==
  ASSUME Inv, NEW o \in SaleOffer, CreateSaleOffer(o)
  PROVE  Inv'
<1>1. /\ doc[o].status = "none" /\ doc'[o].status = "pending"
      /\ \A other \in SaleOffer : other # o => doc'[other] = doc[other]
      /\ \A q \in Req : req[q].of # o
      /\ UNCHANGED <<req, payment, member, swap, overlap, crashes>>
  BY OfferAssumption DEF CreateSaleOffer, Inv, TypeOK, ReqsValid
<1> USE DEF Inv
<1>2. TypeOK'
  BY DEF CreateSaleOffer, TypeOK
<1>3. ReqsValid'
  BY <1>1 DEF ReqsValid
<1>4. RunsSwapOnce' /\ BuyerIsMember' /\ StepsInOrder' /\ PaymentIsLastRun'
  BY <1>1 DEF RunsSwapOnce, BuyerIsMember, StepsInOrder, PaymentIsLastRun, SwapOf
<1>5. AnsweredByOne'
  BY <1>1 DEF AnsweredByOne
<1>6. ApprovedIsPaid'
  BY <1>1 DEF ApprovedIsPaid
<1> QED BY <1>2, <1>3, <1>4, <1>5, <1>6

LEMMA CrashInv == ASSUME Inv, Crash PROVE Inv'
<1>1. req \in [Req -> ReqState]
  BY StatesTyped DEF Inv
<1>2. \A q \in Req :
          [req[q] EXCEPT !.pc = "dead"] \in ReqState
          /\ [req[q] EXCEPT !.pc = "dead"].pc = "dead"
          /\ [req[q] EXCEPT !.pc = "dead"].of = req[q].of
          /\ [req[q] EXCEPT !.pc = "dead"].by = req[q].by
          /\ [req[q] EXCEPT !.pc = "dead"].accepts = req[q].accepts
          /\ [req[q] EXCEPT !.pc = "dead"].inserts = req[q].inserts
          /\ [req[q] EXCEPT !.pc = "dead"].run = req[q].run
  BY <1>1 DEF ReqState, Ended
<1>3. /\ req' \in [Req -> ReqState]
      /\ \A q \in Req : /\ req'[q].pc = IF req[q].pc \in Running THEN "dead" ELSE req[q].pc
                        /\ req'[q].of = req[q].of /\ req'[q].by = req[q].by
                        /\ req'[q].accepts = req[q].accepts
                        /\ req'[q].inserts = req[q].inserts
                        /\ req'[q].run = req[q].run
      /\ crashes' \in 0..MaxCrash
      /\ UNCHANGED <<doc, payment, member, swap, overlap>>
  BY <1>1, <1>2, RunAssumption DEF Crash, Inv, TypeOK
<1> USE DEF Inv
<1>4. TypeOK'
  BY <1>3, StatesTyped DEF TypeOK, ReqState
<1>5. ReqsValid'
  BY <1>3 DEF ReqsValid, Running, InRun
<1>6. RunsSwapOnce' /\ BuyerIsMember' /\ StepsInOrder'
  BY <1>3 DEF RunsSwapOnce, BuyerIsMember, StepsInOrder, SwapOf
<1>7. \A s \in payment : s[1] \in Req
  BY PaymentHasRun
<1>8. PaymentIsLastRun'
  BY <1>3, <1>7 DEF PaymentIsLastRun, InRun
<1>9. AnsweredByOne'
  BY <1>3 DEF AnsweredByOne, Running, InRun
<1>10. ApprovedIsPaid'
  BY <1>3, <1>7 DEF ApprovedIsPaid
<1> QED BY <1>4, <1>5, <1>6, <1>8, <1>9, <1>10

LEMMA ChainSettlesInv ==
  ASSUME Inv, NEW s \in Swap, ChainSettles(s)
  PROVE  Inv'
<1>1. /\ swap' \in [Swap -> {"unsent", "inflight", "landed", "failed", "expired"}]
      /\ \A other \in Swap : /\ swap[other] = "landed" => swap'[other] = "landed"
                             /\ swap'[other] # "unsent" => swap[other] # "unsent"
      /\ UNCHANGED <<doc, req, payment, member, overlap, crashes>>
  BY DEF ChainSettles, Inv, TypeOK
<1>2. \A q \in Req : req[q].pc = "commit" => SwapOf(q) \in Swap
  BY DEF Inv, TypeOK, ReqsValid, InRun, SwapOf, Swap
<1>3. payment \subseteq Swap
  BY DEF Inv, TypeOK
<1> USE DEF Inv
<1>4. TypeOK'
  BY <1>1 DEF TypeOK
<1>5. ReqsValid' /\ BuyerIsMember' /\ AnsweredByOne'
  BY <1>1 DEF ReqsValid, BuyerIsMember, AnsweredByOne
<1>6. RunsSwapOnce'
  BY <1>1 DEF RunsSwapOnce, Swap
<1>7. StepsInOrder'
  BY <1>1, <1>2 DEF StepsInOrder, SwapOf
<1>8. PaymentIsLastRun' /\ ApprovedIsPaid'
  BY <1>1, <1>3 DEF PaymentIsLastRun, ApprovedIsPaid
<1> QED BY <1>4, <1>5, <1>6, <1>7, <1>8

LEMMA NextInv == Inv /\ [Next]_vars => Inv'
<1>1. ASSUME Inv, UNCHANGED vars PROVE Inv'
  BY <1>1 DEF vars, Inv, TypeOK, ReqsValid, RunsSwapOnce, BuyerIsMember, StepsInOrder,
              PaymentIsLastRun, AnsweredByOne, ApprovedIsPaid, SwapOf
<1> QED
  BY <1>1, QuietStepsInv, ReadsInv, BroadcastsInv, CommitsInv, SavesInv,
     CreateSaleOfferInv, CrashInv, ChainSettlesInv
  DEF Next, ReqStep

LEMMA SpecInv == Spec => []Inv
  BY InitInv, NextInv, PTL DEF Spec

(***************************************************************************)
(* The theorems.                                                           *)
(***************************************************************************)

\* Offers, requests, payments, members and the chain keep the shape
\* updateSaleOfferStatus gives them.
THEOREM StateCorrect == Spec => []TypeOK
  BY SpecInv, PTL DEF Inv

\* Status, buyer and hash of an approved offer are of one request, which paid.
THEOREM ApprovedPaid == Spec => []ApprovedIsPaid
  BY SpecInv, PTL DEF Inv

\* A recorded payment took place, its buyer is a member, and a request leaves one
\* payment at most, however often its callback runs.
THEOREM PaymentsCorrect == Spec => []PaymentsStand
<1>1. Inv => PaymentsStand
  <2> SUFFICES ASSUME Inv, NEW s \in payment, NEW other \in payment, other[1] = s[1]
               PROVE  other = s
    BY DEF PaymentsStand, Inv, PaymentIsLastRun
  <2>1. other[2] = s[2]
    BY DEF Inv, PaymentIsLastRun
  <2> QED BY <2>1, PaymentHasRun
<1> QED BY <1>1, SpecInv, PTL

\* An offer that is not for life is sold twice, or sold and declined, only if two
\* requests answered it at once or one lost track of a swap it had sent.
THEOREM SoldAgainHasFault == Spec => []SoldAgainNeedsFault
<1>1. Inv => SoldAgainNeedsFault
  <2> SUFFICES ASSUME Inv, NEW o \in SaleOffer \ (LifeTime \cup overlap), ~Interrupted(o)
               PROVE  /\ \A s, other \in SoldBy(o) : s = other
                      /\ doc[o].status = "declined" => SoldBy(o) = {}
    BY DEF SoldAgainNeedsFault
  <2>1. ASSUME NEW s \in SoldBy(o)
        PROVE  /\ s[1] \in Req /\ s[2] \in 1..MaxRun /\ s = <<s[1], s[2]>>
               /\ req[s[1]].of = o /\ req[s[1]].accepts /\ s[2] = req[s[1]].run
               /\ req[s[1]].pc \in Running \cup {"done"}
    <3>1. /\ s[1] \in Req /\ s[2] \in 1..MaxRun /\ s = <<s[1], s[2]>> /\ s \in Swap
          /\ req[s[1]].of = o /\ swap[s] = "landed"
      BY DEF SoldBy, Swap
    <3>2. s[2] <= req[s[1]].run
      BY <3>1 DEF Inv, RunsSwapOnce
    <3>3. ~(s[2] < req[s[1]].run) /\ req[s[1]].pc \notin {"failed", "dead"}
      BY <3>1 DEF Interrupted
    <3>4. req[s[1]] \in ReqState
      BY <3>1 DEF Inv, TypeOK, ReqState
    <3>5. s[2] = req[s[1]].run /\ req[s[1]].accepts
      BY <3>1, <3>2, <3>3, <3>4 DEF ReqState, Inv, ReqsValid
    <3>6. req[s[1]].pc \notin {"idle", "refused"}
      BY <3>1, <3>5 DEF Inv, ReqsValid
    <3> QED BY <3>1, <3>3, <3>4, <3>5, <3>6 DEF ReqState, Ended
  <2>2. \A s, other \in SoldBy(o) : s = other
    BY <2>1 DEF Inv, AnsweredByOne
  <2>3. ASSUME doc[o].status = "declined", NEW s \in SoldBy(o) PROVE FALSE
    BY <2>1, <2>3 DEF Inv, AnsweredByOne
  <2> QED BY <2>2, <2>3
<1> QED BY <1>1, SpecInv, PTL

(***************************************************************************)
(* Member offers: types.                                                   *)
(***************************************************************************)

Give == [from : Party, amount : Nat]

AnswerState == [pc : {"idle", "refused", "done", "failed"} \cup Working,
                lite : BOOLEAN, by : Candidate \cup {Nobody}, accepts : BOOLEAN,
                run : Nat, todo : SUBSET Party, plan : Seq(Give), pos : Nat,
                sends : Nat, found : BOOLEAN, saved : BOOLEAN]

OfferState == [status : {"none", "pending", "approved", "declined"}, prospect : BOOLEAN,
               equity : 0..100, by : Candidate \cup {Nobody}, revoked : BOOLEAN]

NoteState == [base : UNION {[D -> Nat] : D \in SUBSET Party}, taken : Nat,
              short : BOOLEAN, resent : BOOLEAN]

AttemptState == [by : Answer, run : Nat, pos : Nat, n : Nat, gives : Seq(Give)]

MemberTypeOK ==
    /\ offer \in OfferState
    /\ answer \in [Answer -> AnswerState]
    /\ Founder \subseteq members /\ members \subseteq Party
    /\ shares \in [Party -> Nat]
    /\ broadcasts \in Nat
    /\ inflight \subseteq AttemptState
    /\ noted \in [Answer -> NoteState]
    /\ disturbed \in BOOLEAN

(***************************************************************************)
(* Member offers: the inductive invariant.                                 *)
(***************************************************************************)

\* A request that is to make somebody a member accepts, and is of an account.
AnswersValid ==
    \A q \in Answer :
        /\ answer[q].pc \in Working => answer[q].by \in Candidate
        /\ answer[q].pc \in {"prepare", "collect", "commit", "insert"} => answer[q].accepts

\* The offer is saved after the member.
JoinsFirst ==
    \A q \in Answer : answer[q].pc = "save" /\ answer[q].accepts => answer[q].by \in members

\* What is not disturbed is one request at a time, on an offer that is pending.
WorksAlone ==
    ~disturbed => \A q \in AtWork : /\ offer.status = "pending"
                                    /\ \A p \in AtWork : p = q

MemberControl ==
    /\ AnswersValid
    /\ JoinsFirst
    /\ WorksAlone
    /\ MembershipMatchesOffer

MemberInv == MemberTypeOK /\ MemberControl

LEMMA IdleAnswerTyped ==
  /\ IdleAnswer \in AnswerState /\ IdleAnswer.pc = "idle"
  /\ NothingNoted \in NoteState
<1>1. <<>> \in Seq(Give)
  OBVIOUS
<1>2. <<>> \in [{} -> Nat]
  OBVIOUS
<1>3. IdleAnswer \in AnswerState /\ IdleAnswer.pc = "idle"
  BY <1>1 DEF IdleAnswer, AnswerState
<1>4. NothingNoted \in NoteState
  BY <1>2 DEF NothingNoted, NoteState
<1> QED BY <1>3, <1>4

LEMMA MemberInit == MemberOffersInit => MemberInv
<1> SUFFICES ASSUME MemberOffersInit PROVE MemberInv
  OBVIOUS
<1>1. \A q \in Answer : answer[q].pc = "idle"
  BY IdleAnswerTyped DEF MemberOffersInit
<1>2. MemberTypeOK
  <2>1. shares \in [Party -> Nat] /\ Founder \subseteq Party
    BY MemberOfferAssumption DEF MemberOffersInit, Party
  <2>2. offer \in OfferState
    BY DEF MemberOffersInit, OfferState
  <2>3. answer \in [Answer -> AnswerState] /\ noted \in [Answer -> NoteState]
    BY IdleAnswerTyped DEF MemberOffersInit
  <2> QED BY <2>1, <2>2, <2>3 DEF MemberOffersInit, MemberTypeOK
<1>3. offer.status = "none" /\ members \ Founder = {}
  BY DEF MemberOffersInit
<1> QED BY <1>1, <1>2, <1>3 DEF MemberInv, MemberControl, AnswersValid, JoinsFirst, WorksAlone,
                               AtWork, Working, MembershipMatchesOffer

(***************************************************************************)
(* Member offers: one request at work moves on.                            *)
(***************************************************************************)

\* A request goes on, joins its account, or fails, and the offer is not written.
LEMMA AnswerMoves ==
  ASSUME MemberInv, MemberTypeOK', NEW q \in Answer, NEW x \in AnswerState,
         answer' = [answer EXCEPT ![q] = x],
         answer[q].pc \in Working, x.pc \in Working \cup {"failed"},
         x.by = answer[q].by, x.accepts = answer[q].accepts,
         answer[q].pc = "save" => x.pc \in {"save", "failed"},
         x.pc \in {"prepare", "collect", "commit", "insert"} => x.accepts,
         x.pc = "save" /\ x.accepts => x.by \in members',
         \/ members' = members
         \/ members' = members \cup {x.by} /\ x.pc \in {"save", "failed"} /\ x.accepts,
         offer' = offer, disturbed' = disturbed
  PROVE  MemberControl'
<1>1. /\ answer'[q] = x
      /\ \A p \in Answer : p # q => answer'[p] = answer[p]
  BY DEF MemberInv, MemberTypeOK
<1>2. members \subseteq members'
  OBVIOUS
<1>3. AtWork' \subseteq AtWork
  BY <1>1 DEF AtWork
<1>4. AnswersValid'
  BY <1>1 DEF MemberInv, MemberControl, AnswersValid
<1>5. JoinsFirst'
  BY <1>1, <1>2 DEF MemberInv, MemberControl, JoinsFirst
<1>6. WorksAlone'
  BY <1>3 DEF MemberInv, MemberControl, WorksAlone
<1>7. offer.status = "approved" => offer.by \in members'
  BY <1>2 DEF MemberInv, MemberControl, MembershipMatchesOffer
<1>8. ASSUME ~disturbed, NEW a \in members' \ Founder
      PROVE  \/ offer.status = "approved" /\ offer.by = a
             \/ \E p \in Answer : /\ answer'[p].by = a /\ answer'[p].accepts
                                  /\ answer'[p].pc \in {"save", "failed"}
  <2>1. CASE a \in members
    <3>1. \/ offer.status = "approved" /\ offer.by = a
          \/ \E p \in Answer : /\ answer[p].by = a /\ answer[p].accepts
                               /\ answer[p].pc \in {"save", "failed"}
      BY <1>8, <2>1 DEF MemberInv, MemberControl, MembershipMatchesOffer
    <3>2. ASSUME NEW p \in Answer, answer[p].by = a, answer[p].accepts,
                 answer[p].pc \in {"save", "failed"}
          PROVE  /\ answer'[p].by = a /\ answer'[p].accepts
                 /\ answer'[p].pc \in {"save", "failed"}
      BY <1>1, <3>2 DEF Working
    <3> QED BY <3>1, <3>2
  <2>2. CASE a \notin members
    BY <1>1, <1>8, <2>2
  <2> QED BY <2>1, <2>2
<1>9. MembershipMatchesOffer'
  BY <1>7, <1>8 DEF MembershipMatchesOffer
<1> QED BY <1>4, <1>5, <1>6, <1>9 DEF MemberControl

\* Steps that neither move a request nor write the offer's status or the members.
LEMMA ControlStands ==
  ASSUME MemberInv, MemberTypeOK',
         \A q \in Answer : /\ answer'[q].pc = answer[q].pc /\ answer'[q].by = answer[q].by
                           /\ answer'[q].accepts = answer[q].accepts,
         offer'.status = offer.status \/ (offer.status = "none" /\ offer'.status = "pending"),
         offer'.by = offer.by,
         members' = members, disturbed => disturbed'
  PROVE  MemberControl'
<1>1. AtWork' = AtWork
  BY DEF AtWork
<1>2. AnswersValid' /\ JoinsFirst'
  BY DEF MemberInv, MemberControl, AnswersValid, JoinsFirst
<1>3. WorksAlone'
  BY <1>1 DEF MemberInv, MemberTypeOK, MemberControl, WorksAlone
<1>4. MembershipMatchesOffer'
  <2>1. (offer.status = "approved") <=> (offer'.status = "approved")
    OBVIOUS
  <2>2. offer'.status = "approved" => offer'.by \in members'
    BY <2>1 DEF MemberInv, MemberControl, MembershipMatchesOffer
  <2>3. ASSUME ~disturbed', NEW a \in members' \ Founder
        PROVE  \/ offer'.status = "approved" /\ offer'.by = a
               \/ \E q \in Answer : /\ answer'[q].by = a /\ answer'[q].accepts
                                    /\ answer'[q].pc \in {"save", "failed"}
    BY <2>1, <2>3 DEF MemberInv, MemberControl, MembershipMatchesOffer
  <2> QED BY <2>2, <2>3 DEF MembershipMatchesOffer
<1> QED BY <1>2, <1>3, <1>4 DEF MemberControl

LEMMA FreshTyped ==
  ASSUME NEW r \in AnswerState
  PROVE  /\ Fresh(r) \in AnswerState /\ Fresh(r).pc = r.pc /\ Fresh(r).by = r.by
         /\ Fresh(r).accepts = r.accepts /\ Fresh(r).run = r.run
         /\ Failed(r) \in AnswerState /\ Failed(r).pc = "failed" /\ Failed(r).by = r.by
         /\ Failed(r).accepts = r.accepts
<1>1. <<>> \in Seq(Give)
  OBVIOUS
<1>2. /\ Fresh(r) \in AnswerState /\ Fresh(r).pc = r.pc /\ Fresh(r).by = r.by
      /\ Fresh(r).accepts = r.accepts /\ Fresh(r).run = r.run
  BY <1>1 DEF Fresh, AnswerState
<1>3. /\ Failed(r) \in AnswerState /\ Failed(r).pc = "failed" /\ Failed(r).by = r.by
      /\ Failed(r).accepts = r.accepts
  BY <1>1 DEF Failed, IdleAnswer, AnswerState
<1> QED BY <1>2, <1>3

\* What AnswerGoes makes of a request.
LEMMA GoesTyped ==
  ASSUME MemberInv, NEW q \in Answer, NEW to \in Working \cup {"failed", "done"},
         AnswerGoes(q, to)
  PROVE  \E x \in AnswerState :
             /\ answer' = [answer EXCEPT ![q] = x]
             /\ x.pc = to /\ x.by = answer[q].by /\ x.accepts = answer[q].accepts
<1>1. answer[q] \in AnswerState
  BY DEF MemberInv, MemberTypeOK
<1>2. CASE to = "failed"
  <2>1. answer' = [answer EXCEPT ![q] = Failed(answer[q])]
    BY <1>2 DEF AnswerGoes
  <2> QED BY <1>1, <1>2, <2>1, FreshTyped
<1>3. CASE to # "failed"
  <2> DEFINE x == [Fresh(answer[q]) EXCEPT !.pc = to]
  <2>1. answer' = [answer EXCEPT ![q] = x]
    BY <1>3 DEF AnswerGoes
  <2>2. Fresh(answer[q]) \in AnswerState
    BY <1>1, FreshTyped
  <2>3. x \in AnswerState /\ x.pc = to /\ x.by = Fresh(answer[q]).by
        /\ x.accepts = Fresh(answer[q]).accepts
    BY <2>2 DEF AnswerState
  <2>4. x.by = answer[q].by /\ x.accepts = answer[q].accepts
    BY <1>1, <2>3, FreshTyped
  <2> HIDE DEF x
  <2> QED BY <2>1, <2>3, <2>4
<1> QED BY <1>2, <1>3

LEMMA NotesTyped ==
  ASSUME MemberInv, NEW q \in Answer, NEW note \in NoteState, Notes(q, note)
  PROVE  noted' \in [Answer -> NoteState]
  BY DEF MemberInv, MemberTypeOK, Notes

\* Steps of a request that change nothing but the request, or end it.
LEMMA QuietAnswerInv ==
  ASSUME MemberInv, NEW q \in Answer,
         \/ Decides(q) \/ CallbackThrows(q) \/ InsertThrows(q) \/ OfferSaveFails(q)
         \/ CommitsMember(q) \/ CommitLost(q) \/ InsertsNewMember(q)
  PROVE  MemberInv'
<1>1. PICK to \in Working \cup {"failed"} :
          /\ AnswerGoes(q, to)
          /\ answer[q].pc = "save" => to = "failed"
          /\ to \in {"prepare", "collect", "commit", "insert"} => answer[q].accepts
          /\ to = "save" /\ answer[q].accepts => answer[q].by \in members'
          /\ \/ members' = members
             \/ members' = members \cup {answer[q].by} /\ to \in {"save", "failed"}
                /\ answer[q].accepts
  <2>1. CASE Decides(q)
    <3>1. PICK to \in {"save", "failed", "prepare", "insert"} :
              /\ AnswerGoes(q, to)
              /\ to = "save" => ~answer[q].accepts
              /\ to \in {"prepare", "insert"} => answer[q].accepts
      <4>1. CASE ~answer[q].accepts
        BY <2>1, <4>1 DEF Decides
      <4>2. CASE answer[q].accepts /\ ~offer.prospect
        BY <2>1, <4>2 DEF Decides
      <4>3. CASE answer[q].accepts /\ offer.prospect /\ answer[q].lite
        BY <2>1, <4>3 DEF Decides
      <4>4. CASE answer[q].accepts /\ offer.prospect /\ ~answer[q].lite
        BY <2>1, <4>4 DEF Decides
      <4> QED BY <4>1, <4>2, <4>3, <4>4
    <3>2. answer[q].pc = "read" /\ members' = members
      BY <2>1 DEF Decides
    <3> QED BY <3>1, <3>2 DEF Working
  <2>2. CASE CallbackThrows(q) \/ InsertThrows(q) \/ OfferSaveFails(q)
    BY <2>2 DEF CallbackThrows, InsertThrows, OfferSaveFails
  <2>3. CASE CommitsMember(q)
    BY <2>3 DEF CommitsMember, Joins, Working, MemberInv, MemberControl, AnswersValid
  <2>4. CASE CommitLost(q)
    BY <2>4 DEF CommitLost, Joins, MemberInv, MemberControl, AnswersValid
  <2>5. CASE InsertsNewMember(q)
    BY <2>5 DEF InsertsNewMember, Working, MemberInv, MemberControl, AnswersValid
  <2> QED BY <2>1, <2>2, <2>3, <2>4, <2>5
<1>2. PICK x \in AnswerState :
          /\ answer' = [answer EXCEPT ![q] = x]
          /\ x.pc = to /\ x.by = answer[q].by /\ x.accepts = answer[q].accepts
  BY <1>1, GoesTyped
<1>3. /\ answer[q].pc \in Working
      /\ UNCHANGED <<offer, shares, broadcasts, inflight, noted, disturbed>>
  BY DEF Decides, CallbackThrows, InsertThrows, OfferSaveFails, CommitsMember, CommitLost,
         InsertsNewMember, Working
<1>4. answer[q].by \in Party
  BY <1>3 DEF MemberInv, MemberControl, AnswersValid, Party
<1>5. MemberTypeOK'
  BY <1>1, <1>2, <1>3, <1>4 DEF MemberInv, MemberTypeOK
<1>6. MemberControl'
  BY <1>1, <1>2, <1>3, <1>5, AnswerMoves
<1> QED BY <1>5, <1>6 DEF MemberInv

\* Half a lamport is rounded up.
LEMMA GivesIsNat ==
  ASSUME MemberInv, NEW held \in Nat PROVE Gives(held) \in Nat
<1>1. offer.equity \in Nat
  BY DEF MemberInv, MemberTypeOK, OfferState
<1> DEFINE n == held * offer.equity
<1>2. n \in Nat /\ 2 * held * offer.equity = 2 * n
  BY <1>1
<1>3. Gives(held) = (2 * n + 100) \div 200
  BY <1>2 DEF Gives
<1> HIDE DEF n
<1> QED BY <1>2, <1>3

LEMMA BatchTyped ==
  ASSUME MemberInv, NEW q \in Answer, Collecting(q)
  PROVE  BatchOf(q) \in Seq(Give)
<1> DEFINE plan == answer[q].plan
           pos == answer[q].pos
           last == Min({pos + BatchSize, Len(plan)})
<1>1. plan \in Seq(Give) /\ pos \in Nat /\ pos < Len(plan) /\ Len(plan) \in Nat
  BY DEF Collecting, MemberInv, MemberTypeOK, AnswerState
<1>2. BatchSize \in Nat
  BY MemberOfferAssumption
<1> HIDE DEF plan, pos
<1>3. last \in Int /\ last <= Len(plan)
  <2> DEFINE a == pos + BatchSize
             b == Len(plan)
  <2>1. a \in Int /\ b \in Int
    BY <1>1, <1>2
  <2> HIDE DEF a, b
  <2>2. \E x \in {a, b} : \A y \in {a, b} : x <= y
    BY <2>1
  <2>3. last = Min({a, b})
    BY DEF a, b
  <2>4. last \in {a, b} /\ last <= b
    BY <2>2, <2>3 DEF Min
  <2> QED BY <2>1, <2>4 DEF b
<1> HIDE DEF last
<1>4. \A i \in pos + 1 .. last : plan[i] \in Give
  BY <1>1, <1>3
<1>5. SubSeq(plan, pos + 1, last) \in Seq(Give)
  BY <1>1, <1>3, <1>4, SubSeqProperties
<1> QED BY <1>5 DEF BatchOf, plan, pos, last

\* Steps of the callback: the request goes on, and only what it sends and what is
\* noted of it is written.
LEMMA CallbackInv ==
  ASSUME MemberInv, NEW q \in Answer,
         \/ PreparesAccount(q) \/ ReadsBalance(q) \/ SendsBatch(q) \/ BatchConfirmed(q)
         \/ BatchFails(q) \/ SavesNewMember(q) \/ AbortsAnswer(q)
  PROVE  MemberInv'
<1> DEFINE r == answer[q]
<1>1. /\ r \in AnswerState /\ noted[q] \in NoteState /\ inflight \subseteq AttemptState
      /\ broadcasts \in Nat /\ shares \in [Party -> Nat] /\ members \subseteq Party
      /\ BatchSize \in Nat
  BY MemberOfferAssumption DEF MemberInv, MemberTypeOK
<1>2. r.pc \in {"prepare", "collect", "commit"} /\ r.pc \in Working /\ r.accepts
  <2>1. r.pc \in {"prepare", "collect", "commit"}
    BY DEF PreparesAccount, ReadsBalance, SendsBatch, BatchConfirmed, BatchFails,
           SavesNewMember, AbortsAnswer, Collecting, Collected
  <2> QED BY <2>1 DEF Working, MemberInv, MemberControl, AnswersValid
<1>3. UNCHANGED <<offer, members, shares, disturbed>>
  BY DEF PreparesAccount, ReadsBalance, SendsBatch, BatchConfirmed, BatchFails,
         SavesNewMember, AbortsAnswer
<1> SUFFICES /\ \E x \in AnswerState :
                  /\ answer' = [answer EXCEPT ![q] = x]
                  /\ x.pc \in {"prepare", "collect", "commit", "failed"}
                  /\ x.by = r.by /\ x.accepts = r.accepts
             /\ noted' \in [Answer -> NoteState]
             /\ inflight' \subseteq AttemptState /\ broadcasts' \in Nat
  <2>1. PICK x \in AnswerState : /\ answer' = [answer EXCEPT ![q] = x]
                                 /\ x.pc \in {"prepare", "collect", "commit", "failed"}
                                 /\ x.by = r.by /\ x.accepts = r.accepts
    OBVIOUS
  <2>2. MemberTypeOK'
    BY <1>3, <2>1 DEF MemberInv, MemberTypeOK
  <2>3. MemberControl'
    BY <1>2, <1>3, <2>1, <2>2, AnswerMoves DEF Working
  <2> QED BY <2>2, <2>3 DEF MemberInv
<1>4. CASE PreparesAccount(q)
  <2> DEFINE todo == IF offer.equity = 0 THEN {} ELSE members
             x == [r EXCEPT !.pc = "collect", !.todo = todo]
  <2>1. answer' = [answer EXCEPT ![q] = x] /\ UNCHANGED <<broadcasts, inflight>>
    BY <1>4 DEF PreparesAccount
  <2>2. todo \in SUBSET Party
    BY <1>1
  <2> HIDE DEF todo
  <2>3. x \in AnswerState /\ x.pc = "collect" /\ x.by = r.by /\ x.accepts = r.accepts
    BY <1>1, <2>2 DEF AnswerState, Working
  <2> DEFINE base == [m \in members |-> shares[m]]
             first == [NothingNoted EXCEPT !.base = base]
  <2>4. base \in [members -> Nat]
    BY <1>1
  <2>5. base \in UNION {[D -> Nat] : D \in SUBSET Party}
    BY <1>1, <2>4
  <2> HIDE DEF base
  <2>6. first \in NoteState
    BY <2>5, IdleAnswerTyped DEF NoteState
  <2>7. Notes(q, IF r.run > 1 THEN noted[q] ELSE first)
    BY <1>4 DEF PreparesAccount, base
  <2> HIDE DEF first
  <2>8. noted' \in [Answer -> NoteState]
    BY <1>1, <2>6, <2>7, NotesTyped
  <2> HIDE DEF x
  <2> QED BY <1>1, <2>1, <2>3, <2>8
<1>5. CASE ReadsBalance(q)
  <2> DEFINE m == CHOOSE m \in r.todo : TRUE
  <2>1. m \in Party /\ shares[m] \in Nat
    <3>1. r.todo # {} /\ r.todo \subseteq Party
      BY <1>1, <1>5 DEF ReadsBalance, AnswerState
    <3>2. m \in r.todo
      BY <3>1
    <3> QED BY <1>1, <3>1, <3>2
  <2>2. PICK reading \in {0, shares[m]} :
            /\ answer' = [answer EXCEPT ![q] = WithReading(r, m, reading)]
            /\ Notes(q, [noted[q] EXCEPT !.short = @ \/ reading # shares[m]])
    BY <1>5 DEF ReadsBalance
  <2> HIDE DEF m
  <2> DEFINE give == [from |-> m, amount |-> Gives(reading)]
             plan == IF reading = 0 THEN r.plan ELSE Append(r.plan, give)
             x == [r EXCEPT !.todo = r.todo \ {m}, !.plan = plan]
             note == [noted[q] EXCEPT !.short = @ \/ reading # shares[m]]
  <2>3. give \in Give
    <3>1. Gives(reading) \in Nat
      BY <2>1, GivesIsNat
    <3> QED BY <2>1, <3>1 DEF Give
  <2> HIDE DEF give
  <2>4. plan \in Seq(Give)
    <3>1. r.plan \in Seq(Give)
      BY <1>1 DEF AnswerState
    <3> QED BY <2>3, <3>1, AppendProperties
  <2>5. answer' = [answer EXCEPT ![q] = x]
    BY <2>2 DEF give, WithReading
  <2> HIDE DEF plan
  <2>6. x \in AnswerState /\ x.pc = r.pc /\ x.by = r.by /\ x.accepts = r.accepts
    BY <1>1, <2>4 DEF AnswerState
  <2>7. note \in NoteState
    BY <1>1 DEF NoteState
  <2>8. Notes(q, note)
    BY <2>2
  <2> HIDE DEF note, x
  <2>9. noted' \in [Answer -> NoteState]
    BY <2>7, <2>8, NotesTyped
  <2>10. UNCHANGED <<broadcasts, inflight>>
    BY <1>5 DEF ReadsBalance
  <2> QED BY <1>1, <1>2, <2>5, <2>6, <2>9, <2>10
<1>6. CASE SendsBatch(q)
  <2> DEFINE x == [r EXCEPT !.sends = r.sends + 1]
             new == Attempt(q, r.sends + 1)
             note == [noted[q] EXCEPT !.resent = @ \/ r.sends > 0]
  <2>1. /\ answer' = [answer EXCEPT ![q] = x] /\ Notes(q, note)
        /\ inflight' = inflight \cup {new} /\ broadcasts' = broadcasts + 1
    BY <1>6 DEF SendsBatch
  <2>2. r.sends \in Nat /\ r.run \in Nat /\ r.pos \in Nat
    BY <1>1 DEF AnswerState
  <2>3. x \in AnswerState /\ x.pc = r.pc /\ x.by = r.by /\ x.accepts = r.accepts
    <3>1. r.sends + 1 \in Nat
      BY <2>2
    <3> HIDE DEF r
    <3> QED BY <1>1, <3>1 DEF AnswerState
  <2>4. note \in NoteState
    BY <1>1 DEF NoteState
  <2>5. BatchOf(q) \in Seq(Give)
    BY <1>6, BatchTyped DEF SendsBatch
  <2>6. new \in AttemptState
    BY <2>2, <2>5 DEF Attempt, AttemptState
  <2> HIDE DEF x, note, new
  <2>7. noted' \in [Answer -> NoteState]
    BY <2>1, <2>4, NotesTyped
  <2>8. inflight' \subseteq AttemptState /\ broadcasts' \in Nat
    BY <1>1, <2>1, <2>6
  <2> QED BY <1>2, <2>1, <2>3, <2>7, <2>8
<1>7. CASE BatchConfirmed(q) \/ BatchFails(q)
  <2> DEFINE x == NextBatch(q)
             note == [noted[q] EXCEPT !.short = TRUE]
  <2>1. /\ answer' = [answer EXCEPT ![q] = x]
        /\ noted' = noted \/ Notes(q, note)
        /\ UNCHANGED <<broadcasts, inflight>>
    BY <1>7 DEF BatchConfirmed, BatchFails
  <2>2. x \in AnswerState /\ x.pc = r.pc /\ x.by = r.by /\ x.accepts = r.accepts
    <3>1. r.pos + BatchSize \in Nat
      BY <1>1 DEF AnswerState
    <3> QED BY <1>1, <3>1 DEF NextBatch, AnswerState
  <2>3. note \in NoteState
    BY <1>1 DEF NoteState
  <2> HIDE DEF x, note
  <2>4. noted' \in [Answer -> NoteState]
    BY <2>1, <2>3, NotesTyped DEF MemberInv, MemberTypeOK
  <2> QED BY <1>1, <1>2, <2>1, <2>2, <2>4
<1>8. CASE SavesNewMember(q) \/ AbortsAnswer(q)
  <2>1. UNCHANGED <<broadcasts, inflight, noted>>
    BY <1>8 DEF SavesNewMember, AbortsAnswer
  <2>2. /\ Fresh(r) \in AnswerState /\ Fresh(r).by = r.by
        /\ Fresh(r).accepts = r.accepts /\ Fresh(r).run = r.run
        /\ Failed(r) \in AnswerState /\ Failed(r).pc = "failed" /\ Failed(r).by = r.by
        /\ Failed(r).accepts = r.accepts
    BY <1>1, FreshTyped
  <2>3. PICK x : /\ answer' = [answer EXCEPT ![q] = x]
                 /\ \/ x = [Fresh(r) EXCEPT !.pc = "commit", !.saved = TRUE]
                    \/ x = Rerun(r)
                    \/ x = Failed(r)
    <3>1. CASE SavesNewMember(q)
      BY <3>1 DEF SavesNewMember, MemberInv, MemberTypeOK
    <3>2. CASE AbortsAnswer(q)
      <4> DEFINE more == SumFunction([p \in Answer |-> answer[p].run]) < MaxRuns
      <4>1. answer' = [answer EXCEPT ![q] =
                IF more THEN Rerun(r) ELSE Failed(r)]
        BY <3>2 DEF AbortsAnswer, RunsAgain
      <4> HIDE DEF more
      <4> QED BY <4>1
    <3> QED BY <1>8, <3>1, <3>2
  <2>4. x \in AnswerState /\ x.pc \in {"commit", "prepare", "failed"}
        /\ x.by = r.by /\ x.accepts = r.accepts
    <3>1. CASE x = [Fresh(r) EXCEPT !.pc = "commit", !.saved = TRUE]
      BY <2>2, <3>1 DEF AnswerState, Working
    <3>2. CASE x = Rerun(r)
      <4>1. Fresh(r).run + 1 \in Nat
        BY <2>2 DEF AnswerState
      <4> QED BY <2>2, <3>2, <4>1 DEF AnswerState, Working, Rerun
    <3> QED BY <2>2, <2>3, <3>1, <3>2
  <2> QED BY <1>1, <2>1, <2>3, <2>4 DEF MemberInv, MemberTypeOK
<1> QED BY <1>4, <1>5, <1>6, <1>7, <1>8

LEMMA OfferWrittenInv ==
  ASSUME MemberInv,
         \/ CreateOffer \/ RevokeOffer \/ \E percent \in Percents : CreateLiteOffer(percent)
  PROVE  MemberInv'
<1>1. /\ offer' \in OfferState /\ offer'.by = offer.by
      /\ offer'.status = offer.status \/ (offer.status = "none" /\ offer'.status = "pending")
  <2>1. offer \in OfferState
    BY DEF MemberInv, MemberTypeOK
  <2>2. CASE CreateOffer
    BY <2>1, <2>2 DEF CreateOffer, OfferState
  <2>3. CASE RevokeOffer
    BY <2>1, <2>3 DEF RevokeOffer, OfferState
  <2>4. ASSUME NEW percent \in Percents, CreateLiteOffer(percent)
        PROVE  /\ offer' \in OfferState /\ offer'.by = offer.by
               /\ offer.status = "none" /\ offer'.status = "pending"
    <3>1. percent \in 0..100
      BY MemberOfferAssumption
    <3>2. /\ offer' = [offer EXCEPT !.status = "pending", !.prospect = TRUE,
                                    !.equity = percent]
          /\ offer.status = "none"
      BY <2>4 DEF CreateLiteOffer
    <3> QED BY <2>1, <3>1, <3>2 DEF OfferState
  <2> QED BY <2>2, <2>3, <2>4
<1>2. UNCHANGED <<answer, members, shares, broadcasts, inflight, noted, disturbed>>
  BY DEF CreateOffer, RevokeOffer, CreateLiteOffer
<1>3. MemberTypeOK'
  BY <1>1, <1>2 DEF MemberInv, MemberTypeOK
<1>4. MemberControl'
  BY <1>1, <1>2, <1>3, ControlStands
<1> QED BY <1>3, <1>4 DEF MemberInv

LEMMA DisturbsTyped ==
  ASSUME MemberInv, NEW happens \in BOOLEAN, Disturbs(happens)
  PROVE  /\ noted' \in [Answer -> NoteState] /\ disturbed' \in BOOLEAN
         /\ disturbed' <=> (disturbed \/ happens)
<1>1. disturbed' = (disturbed \/ happens) /\ disturbed \in BOOLEAN
  BY DEF Disturbs, MemberInv, MemberTypeOK
<1>2. noted' = [q \in Answer |-> NothingNoted] \/ noted' = noted
  BY DEF Disturbs
<1>3. noted' \in [Answer -> NoteState]
  BY <1>2, IdleAnswerTyped DEF MemberInv, MemberTypeOK
<1> QED BY <1>1, <1>3

\* A request that finds the offer pending is at work, and the only one if it does
\* not disturb another.
LEMMA ReadsOfferInv ==
  ASSUME MemberInv, NEW q \in Answer, NEW account \in Candidate,
         NEW lite \in BOOLEAN, NEW accepts \in BOOLEAN, ReadsOffer(q, account, lite, accepts)
  PROVE  MemberInv'
<1> DEFINE r == answer[q]
           happens == AtWork # {}
<1>1. /\ r \in AnswerState /\ r.pc = "idle" /\ offer.status # "none"
      /\ UNCHANGED <<offer, members, shares, broadcasts, inflight>>
  BY DEF ReadsOffer, MemberInv, MemberTypeOK
<1>2. PICK x \in AnswerState :
          /\ answer' = [answer EXCEPT ![q] = x]
          /\ \/ x.pc = "refused"
             \/ x.pc = "read" /\ x.by = account /\ offer.status = "pending"
  <2> DEFINE yes == [r EXCEPT !.pc = "read", !.by = account, !.lite = lite, !.accepts = accepts]
             no == [r EXCEPT !.pc = "refused"]
  <2>1. answer' = [answer EXCEPT ![q] =
                      IF offer.status = "pending" /\ ~offer.revoked THEN yes ELSE no]
    BY DEF ReadsOffer
  <2>2. yes \in AnswerState /\ yes.pc = "read" /\ yes.by = account
    BY <1>1 DEF AnswerState, Working
  <2>3. no \in AnswerState /\ no.pc = "refused"
    BY <1>1 DEF AnswerState
  <2> HIDE DEF yes, no
  <2>4. CASE offer.status = "pending" /\ ~offer.revoked
    BY <2>1, <2>2, <2>4
  <2>5. CASE ~(offer.status = "pending" /\ ~offer.revoked)
    BY <2>1, <2>3, <2>5
  <2> QED BY <2>4, <2>5
<1>3. happens \in BOOLEAN /\ Disturbs(happens)
  BY DEF ReadsOffer
<1> HIDE DEF happens
<1>4. /\ noted' \in [Answer -> NoteState] /\ disturbed' \in BOOLEAN
      /\ disturbed' <=> (disturbed \/ happens)
  BY <1>3, DisturbsTyped
<1>5. MemberTypeOK'
  BY <1>1, <1>2, <1>4 DEF MemberInv, MemberTypeOK
<1>6. answer'[q] = x /\ \A p \in Answer : p # q => answer'[p] = answer[p]
  BY <1>2 DEF MemberInv, MemberTypeOK
<1>7. AnswersValid' /\ JoinsFirst'
  <2>1. x.pc \in Working => x.pc = "read" /\ x.by \in Candidate
    BY <1>2 DEF Working
  <2>2. AnswersValid'
    BY <1>6, <2>1 DEF MemberInv, MemberControl, AnswersValid, Working
  <2>3. JoinsFirst'
    BY <1>1, <1>2, <1>6 DEF MemberInv, MemberControl, JoinsFirst
  <2> QED BY <2>2, <2>3
<1>8. WorksAlone'
  <2> SUFFICES ASSUME ~disturbed', NEW p \in AtWork'
               PROVE  /\ offer.status = "pending"
                      /\ \A o \in AtWork' : o = p
    BY <1>1 DEF WorksAlone
  <2>1. AtWork = {}
    BY <1>4 DEF happens
  <2>2. AtWork' \subseteq {q} /\ (q \in AtWork' => x.pc = "read")
    BY <1>2, <1>6, <2>1 DEF AtWork, Working
  <2> QED BY <1>2, <2>2
<1>9. MembershipMatchesOffer'
  <2>1. offer.status = "approved" => offer.by \in members
    BY DEF MemberInv, MemberControl, MembershipMatchesOffer
  <2>2. ASSUME ~disturbed', NEW a \in members \ Founder
        PROVE  \/ offer.status = "approved" /\ offer.by = a
               \/ \E p \in Answer : /\ answer'[p].by = a /\ answer'[p].accepts
                                    /\ answer'[p].pc \in {"save", "failed"}
    <3>1. \/ offer.status = "approved" /\ offer.by = a
          \/ \E p \in Answer : /\ answer[p].by = a /\ answer[p].accepts
                               /\ answer[p].pc \in {"save", "failed"}
      BY <1>4, <2>2 DEF MemberInv, MemberControl, MembershipMatchesOffer
    <3> QED BY <1>1, <1>6, <3>1
  <2> QED BY <1>1, <2>1, <2>2 DEF MembershipMatchesOffer
<1> QED BY <1>5, <1>7, <1>8, <1>9 DEF MemberInv, MemberControl

\* The offer is saved by the only request at work, or something was disturbed.
LEMMA SavesOfferInv ==
  ASSUME MemberInv, NEW q \in Answer, SavesOffer(q)
  PROVE  MemberInv'
<1> DEFINE r == answer[q]
<1>1. /\ r \in AnswerState /\ r.pc = "save" /\ q \in AtWork /\ r.by \in Candidate
      /\ r.accepts => r.by \in members
      /\ UNCHANGED <<members, shares, broadcasts, inflight, noted, disturbed>>
  BY DEF SavesOffer, MemberInv, MemberTypeOK, MemberControl, AnswersValid, JoinsFirst,
         AtWork, Working
<1>2. PICK x \in AnswerState : /\ answer' = [answer EXCEPT ![q] = x] /\ x.pc = "done"
                               /\ x.by = r.by /\ x.accepts = r.accepts
  BY GoesTyped DEF SavesOffer
<1>3. /\ offer' \in OfferState
      /\ r.accepts => offer'.status = "approved" /\ offer'.by = r.by
      /\ ~r.accepts => offer'.status = "declined"
  <2>1. offer \in OfferState
    BY DEF MemberInv, MemberTypeOK
  <2>2. CASE r.accepts
    <3>1. offer' = [offer EXCEPT !.status = "approved", !.by = r.by]
      BY <2>2 DEF SavesOffer
    <3> QED BY <1>1, <2>1, <2>2, <3>1 DEF OfferState
  <2>3. CASE ~r.accepts
    <3>1. offer' = [offer EXCEPT !.status = "declined"]
      BY <2>3 DEF SavesOffer
    <3> QED BY <2>1, <2>3, <3>1 DEF OfferState
  <2> QED BY <2>2, <2>3
<1>4. MemberTypeOK'
  BY <1>1, <1>2, <1>3 DEF MemberInv, MemberTypeOK
<1>5. answer'[q] = x /\ \A p \in Answer : p # q => answer'[p] = answer[p]
  BY <1>2 DEF MemberInv, MemberTypeOK
<1>6. AnswersValid' /\ JoinsFirst'
  BY <1>1, <1>2, <1>5 DEF MemberInv, MemberControl, AnswersValid, JoinsFirst, Working
<1>7. ~disturbed => AtWork' = {} /\ offer.status = "pending"
  <2> SUFFICES ASSUME ~disturbed PROVE AtWork' = {} /\ offer.status = "pending"
    OBVIOUS
  <2>1. offer.status = "pending" /\ \A p \in AtWork : p = q
    BY <1>1 DEF MemberInv, MemberControl, WorksAlone
  <2> QED BY <1>2, <1>5, <2>1 DEF AtWork, Working
<1>8. WorksAlone'
  BY <1>1, <1>7 DEF WorksAlone
<1>9. offer'.status = "approved" => offer'.by \in members
  BY <1>1, <1>3
<1>10. ASSUME ~disturbed, NEW a \in members \ Founder
       PROVE  \/ offer'.status = "approved" /\ offer'.by = a
              \/ \E p \in Answer : /\ answer'[p].by = a /\ answer'[p].accepts
                                   /\ answer'[p].pc \in {"save", "failed"}
  <2>1. PICK p \in Answer : /\ answer[p].by = a /\ answer[p].accepts
                            /\ answer[p].pc \in {"save", "failed"}
    BY <1>7, <1>10 DEF MemberInv, MemberControl, MembershipMatchesOffer
  <2>2. CASE p = q
    BY <1>3, <2>1, <2>2
  <2>3. CASE p # q
    BY <1>5, <2>1, <2>3
  <2> QED BY <2>2, <2>3
<1>11. MembershipMatchesOffer'
  BY <1>1, <1>9, <1>10 DEF MembershipMatchesOffer
<1> QED BY <1>4, <1>6, <1>8, <1>11 DEF MemberInv, MemberControl

\* What the members give is a sum of natural numbers.
LEMMA GivenIsNat ==
  ASSUME NEW gives \in Seq(Give), NEW a
  PROVE  Total(gives) \in Nat /\ GivenBy(gives, a) \in Nat
<1> DEFINE f == [i \in DOMAIN gives |-> gives[i].amount]
           mine == {i \in DOMAIN gives : gives[i].from = a}
<1>1. DOMAIN gives = 1..Len(gives) /\ Len(gives) \in Nat
  OBVIOUS
<1>2. IsFiniteSet(DOMAIN gives)
  BY <1>1, FS_Interval
<1>3. \A i \in DOMAIN gives : f[i] \in Nat
  <2> SUFFICES ASSUME NEW i \in DOMAIN gives PROVE f[i] \in Nat
    OBVIOUS
  <2>1. gives[i] \in Give
    BY <1>1
  <2>2. gives[i].amount \in Nat
    BY <2>1 DEF Give
  <2> QED BY <2>2
<1>4. SumFunctionOnSet(f, DOMAIN gives) \in Nat
  BY <1>2, <1>3, SumIsNat
<1>5. mine \subseteq DOMAIN gives
  OBVIOUS
<1>6. IsFiniteSet(mine)
  BY <1>2, <1>5, FS_Subset
<1>7. SumFunctionOnSet(f, mine) \in Nat
  BY <1>3, <1>5, <1>6, SumIsNat
<1>8. DOMAIN f = DOMAIN gives
  OBVIOUS
<1> QED BY <1>4, <1>7, <1>8 DEF Total, GivenBy, SumFunction

LEMMA MemberBatchLandsInv ==
  ASSUME MemberInv, NEW t \in inflight, BatchLands(t)
  PROVE  MemberInv'
<1> DEFINE q == t.by
           r == answer[q]
           seen == \/ r.found
                   \/ t \in {Attempt(q, n) : n \in 1..r.sends}
<1>1. /\ t \in AttemptState /\ q \in Answer /\ t.gives \in Seq(Give)
      /\ r \in AnswerState /\ noted[q] \in NoteState /\ shares \in [Party -> Nat]
  BY DEF MemberInv, MemberTypeOK, AttemptState
<1>2. Total(t.gives) \in Nat /\ \A a : GivenBy(t.gives, a) \in Nat
  BY <1>1, GivenIsNat
<1>3. shares' \in [Party -> Nat]
  <2>1. \A a \in Party : GivenBy(t.gives, a) <= shares[a]
    BY DEF BatchLands
  <2>2. \A a \in Party : shares[a] - GivenBy(t.gives, a) \in Nat
    BY <1>1, <1>2, <2>1
  <2>3. shares' = [a \in Party |-> shares[a] - GivenBy(t.gives, a)
                      + IF a = r.by THEN Total(t.gives) ELSE 0]
    BY DEF BatchLands
  <2> QED BY <1>2, <2>2, <2>3
<1>4. /\ answer' = [answer EXCEPT ![q].found = seen]
      /\ inflight' \subseteq inflight /\ UNCHANGED <<offer, members, broadcasts>>
  BY DEF BatchLands
<1>5. seen \in BOOLEAN
  BY <1>1 DEF AnswerState
<1> HIDE DEF seen
<1>6. /\ answer' \in [Answer -> AnswerState]
      /\ \A p \in Answer : /\ answer'[p].pc = answer[p].pc /\ answer'[p].by = answer[p].by
                           /\ answer'[p].accepts = answer[p].accepts
  <2>1. answer \in [Answer -> AnswerState]
    BY DEF MemberInv, MemberTypeOK
  <2> HIDE DEF q
  <2> QED BY <1>1, <1>4, <1>5, <2>1 DEF AnswerState
<1>7. noted' \in [Answer -> NoteState] /\ disturbed' \in BOOLEAN /\ (disturbed => disturbed')
  <2>1. CASE AtWork \ {q} # {}
    <3>1. Disturbs(TRUE)
      BY <2>1 DEF BatchLands
    <3> QED BY <3>1, DisturbsTyped
  <2>2. CASE AtWork \ {q} = {}
    <3> DEFINE note == [noted[q] EXCEPT !.taken = @ + Total(t.gives)]
    <3>1. Notes(q, note) /\ disturbed' = disturbed
      BY <2>2 DEF BatchLands
    <3>2. noted[q].taken + Total(t.gives) \in Nat
      BY <1>1, <1>2 DEF NoteState
    <3>3. note \in NoteState
      BY <1>1, <3>2 DEF NoteState
    <3> HIDE DEF note
    <3> QED BY <1>1, <3>1, <3>3, NotesTyped DEF MemberInv, MemberTypeOK
  <2> QED BY <2>1, <2>2
<1>8. MemberTypeOK'
  BY <1>3, <1>4, <1>6, <1>7 DEF MemberInv, MemberTypeOK
<1>9. MemberControl'
  BY <1>4, <1>6, <1>7, <1>8, ControlStands
<1> QED BY <1>8, <1>9 DEF MemberInv

\* All requests at work fail at once.
LEMMA RestartsInv ==
  ASSUME MemberInv, ServerRestarts
  PROVE  MemberInv'
<1>1. /\ answer' = [q \in Answer |-> IF q \in AtWork THEN Failed(answer[q]) ELSE answer[q]]
      /\ UNCHANGED <<offer, members, shares, broadcasts, inflight, noted, disturbed>>
  BY DEF ServerRestarts
<1>2. \A q \in Answer :
          /\ answer'[q] \in AnswerState
          /\ answer'[q].by = answer[q].by /\ answer'[q].accepts = answer[q].accepts
          /\ answer'[q].pc \notin Working
          /\ answer[q].pc \in {"save", "failed"} => answer'[q].pc = "failed"
  <2> SUFFICES ASSUME NEW q \in Answer
               PROVE  /\ answer'[q] \in AnswerState
                      /\ answer'[q].by = answer[q].by /\ answer'[q].accepts = answer[q].accepts
                      /\ answer'[q].pc \notin Working
                      /\ answer[q].pc \in {"save", "failed"} => answer'[q].pc = "failed"
    OBVIOUS
  <2>1. answer[q] \in AnswerState
    BY DEF MemberInv, MemberTypeOK
  <2>2. CASE q \in AtWork
    <3>1. answer'[q] = Failed(answer[q])
      BY <1>1, <2>2
    <3> QED BY <2>1, <3>1, FreshTyped DEF Working
  <2>3. CASE q \notin AtWork
    <3>1. answer'[q] = answer[q] /\ answer[q].pc \notin Working
      BY <1>1, <2>3 DEF AtWork
    <3> QED BY <2>1, <3>1 DEF Working
  <2> QED BY <2>2, <2>3
<1>3. MemberTypeOK'
  BY <1>1, <1>2 DEF MemberInv, MemberTypeOK
<1>4. AnswersValid' /\ JoinsFirst' /\ WorksAlone'
  BY <1>2 DEF AnswersValid, JoinsFirst, WorksAlone, AtWork, Working
<1>5. MembershipMatchesOffer'
  BY <1>1, <1>2 DEF MemberInv, MemberControl, MembershipMatchesOffer
<1> QED BY <1>3, <1>4, <1>5 DEF MemberInv, MemberControl

LEMMA MemberNext == MemberInv /\ [MemberOffersNext]_memberOfferVars => MemberInv'
<1> SUFFICES ASSUME MemberInv, [MemberOffersNext]_memberOfferVars PROVE MemberInv'
  OBVIOUS
<1>1. CASE UNCHANGED memberOfferVars
  <2>1. MemberTypeOK'
    BY <1>1 DEF memberOfferVars, MemberInv, MemberTypeOK
  <2>2. MemberControl'
    BY <1>1, <2>1, ControlStands DEF memberOfferVars
  <2> QED BY <2>1, <2>2 DEF MemberInv
<1>2. CASE CreateOffer \/ RevokeOffer \/ \E percent \in Percents : CreateLiteOffer(percent)
  BY <1>2, OfferWrittenInv
<1>3. CASE \E q \in Answer, account \in Candidate, lite, accepts \in BOOLEAN :
               ReadsOffer(q, account, lite, accepts)
  BY <1>3, ReadsOfferInv
<1>4. ASSUME NEW q \in Answer, AnswerStep(q) PROVE MemberInv'
  BY <1>4, QuietAnswerInv, CallbackInv, SavesOfferInv DEF AnswerStep
<1>5. CASE \E t \in inflight : BatchLands(t)
  BY <1>5, MemberBatchLandsInv
<1>6. CASE ServerRestarts
  BY <1>6, RestartsInv
<1> QED BY <1>1, <1>2, <1>3, <1>4, <1>5, <1>6 DEF MemberOffersNext

LEMMA MemberOffersInv == MemberOffersSpec => []MemberInv
  BY MemberInit, MemberNext, PTL DEF MemberOffersSpec

(***************************************************************************)
(* Member offers: the theorems.                                            *)
(***************************************************************************)

\* Offers, requests, what the members hold and what is on the way keep their types:
\* no member gives more than it has.
THEOREM MembersCorrect == MemberOffersSpec => []MemberTypeOK
<1>1. MemberInv => MemberTypeOK
  BY DEF MemberInv
<1> QED BY <1>1, MemberOffersInv, PTL

\* The account of an approved offer is a member, and whoever joined without another
\* request at work did so by the offer, or by a request that ended before it was saved.
THEOREM MembershipMatches == MemberOffersSpec => []MembershipMatchesOffer
<1>1. MemberInv => MembershipMatchesOffer
  BY DEF MemberInv, MemberControl
<1> QED BY <1>1, MemberOffersInv, PTL


(***************************************************************************)
(* Investments: the inductive invariant.                                   *)
(***************************************************************************)

OrderState == [pc : {"idle"} \cup Investing \cup InvestEnded,
               by : Investor \cup {NoInvestor}, amount : Amounts \cup {0},
               prospects : Seq(Prospect), version : 0..Cardinality(Order),
               base : Nat \cup {NoMember}, run : 0..MaxInvestRun,
               paymentDirty : BOOLEAN, offerDirty : BOOLEAN]

Over == {q \in Order : order[q].pc \in InvestEnded}

\* The requests of account a that are over and whose credits have landed.
SettledOf(a) == {q \in Over : order[q].by = a /\ transfer[q] = "landed"}

SettledBy(a) == SumFunctionOnSet(AmountOf, SettledOf(a))

\* The chain comes first: a request that collects or records has seen its credits
\* land, and a receipt is settled when the request is over.
PaidFirst ==
    \A q \in Order :
        /\ order[q].pc \in Investing => order[q].by \in Investor
        /\ order[q].pc \in {"collect"} \cup InInvestRun => transfer[q] = "landed"
        /\ receipt[q] = "settled" => transfer[q] = "landed" /\ q \in Over

\* Every version of the offer is of a request that is over.
VersionsCount == round.version <= Cardinality(Over)

\* Prospects are only added at the end, and keep their account.
ReadsPrefix ==
    \A q \in Order : order[q].pc \in Investing =>
        /\ Len(order[q].prospects) <= Len(round.prospects)
        /\ \A i \in DOMAIN order[q].prospects :
               order[q].prospects[i].by = round.prospects[i].by

\* What is recorded was settled, also after a request has put back the amount it
\* read, or the investment it found.
RecordsCovered ==
    /\ \A a \in Investor : RecordedFor(a) <= SettledBy(a) /\ invested[a] <= SettledBy(a)
    /\ \A q \in Order :
           /\ order[q].pc \in Investing /\ Place(q) # 0 =>
                  RecordedFor(order[q].by) - round.prospects[Place(q)].amount
                      + order[q].prospects[Place(q)].amount <= SettledBy(order[q].by)
           /\ order[q].pc \in {"write", "commit"} =>
                  order[q].base <= SettledBy(order[q].by)

PastChecks == {"transfer", "await", "collect"} \cup InInvestRun

\* As long as no two requests were at work at once, the one that is knows the offer
\* and the member as they are, and its amount fits.
InvestsAlone ==
    ~crowded =>
        /\ \A i, j \in DOMAIN round.prospects :
               round.prospects[i].by = round.prospects[j].by => i = j
        /\ \A q \in Order : order[q].pc \in Investing =>
               /\ order[q].prospects = round.prospects
               /\ \A p \in Order : order[p].pc \in Investing => p = q
               /\ order[q].pc \in {"write", "commit"} =>
                      order[q].base = invested[order[q].by]
               /\ order[q].pc \in PastChecks => Recorded + order[q].amount <= Offered

InvestInv ==
    /\ InvestTypeOK
    /\ PaidFirst
    /\ VersionsCount
    /\ ReadsPrefix
    /\ RecordsCovered
    /\ InvestsAlone
    /\ MembersCoverOffer
    /\ InvestedWithinOffer

LEMMA OrdersTyped ==
  InvestTypeOK <=>
    /\ round \in [status : {"pending", "approved", "declined"}, prospects : Seq(Prospect),
                  version : 0..Cardinality(Order)]
    /\ order \in [Order -> OrderState]
    /\ receipt \in [Order -> {"none", "open", "settled"}]
    /\ invested \in [Investor -> Nat \cup {NoMember}]
    /\ transfer \in [Order -> {"unsent", "inflight", "landed", "failed", "expired"}]
    /\ collected \in [Order -> SUBSET (1..Batches)]
    /\ crowded \in BOOLEAN
    /\ outages \in 0..MaxInvestCrash
  BY DEF InvestTypeOK, OrderState

(***************************************************************************)
(* Investments: prospects and what they sum to.                            *)
(***************************************************************************)

AmountsIn(p) == [i \in DOMAIN p |-> p[i].amount]

PlacesOf(p, a) == {i \in DOMAIN p : p[i].by = a}

RecordedIn(p, a) == SumFunctionOnSet(AmountsIn(p), PlacesOf(p, a))

LEMMA ProspectsTyped ==
  ASSUME NEW p \in Seq(Prospect), NEW a
  PROVE  /\ IsFiniteSet(DOMAIN p) /\ IsFiniteSet(PlacesOf(p, a))
         /\ \A i \in DOMAIN p : p[i] \in Prospect /\ AmountsIn(p)[i] = p[i].amount
                                /\ p[i].amount \in Nat /\ p[i].by \in Investor
         /\ DOMAIN p = 1..Len(p) /\ Len(p) \in Nat
         /\ RecordedIn(p, a) \in Nat
         /\ SumFunction(AmountsIn(p)) = SumFunctionOnSet(AmountsIn(p), DOMAIN p)
         /\ SumFunction(AmountsIn(p)) \in Nat
<1>1. /\ DOMAIN p = 1..Len(p) /\ Len(p) \in Nat
      /\ \A i \in DOMAIN p : p[i] \in Prospect
  OBVIOUS
<1>2. \A i \in DOMAIN p : AmountsIn(p)[i] = p[i].amount /\ p[i].amount \in Nat
                          /\ p[i].by \in Investor
  BY <1>1 DEF AmountsIn, Prospect
<1>3. IsFiniteSet(DOMAIN p) /\ IsFiniteSet(PlacesOf(p, a))
  <2>1. IsFiniteSet(1..Len(p))
    BY <1>1, FS_Interval
  <2>2. PlacesOf(p, a) \subseteq DOMAIN p
    BY DEF PlacesOf
  <2> QED BY <1>1, <2>1, <2>2, FS_Subset
<1>4. RecordedIn(p, a) \in Nat
  BY <1>2, <1>3, SumIsNat DEF RecordedIn, PlacesOf
<1>5. DOMAIN AmountsIn(p) = DOMAIN p
  BY DEF AmountsIn
<1>6. SumFunction(AmountsIn(p)) = SumFunctionOnSet(AmountsIn(p), DOMAIN p)
  BY <1>5 DEF SumFunction
<1>7. SumFunctionOnSet(AmountsIn(p), DOMAIN p) \in Nat
  BY <1>2, <1>3, SumIsNat
<1> QED BY <1>1, <1>2, <1>3, <1>4, <1>6, <1>7

\* A prospect is pushed.
LEMMA Pushed ==
  ASSUME NEW p \in Seq(Prospect), NEW x \in Prospect, NEW a
  PROVE  LET r == Append(p, x)
         IN  /\ r \in Seq(Prospect)
             /\ RecordedIn(r, a) = RecordedIn(p, a) + (IF x.by = a THEN x.amount ELSE 0)
             /\ SumFunction(AmountsIn(r)) = SumFunction(AmountsIn(p)) + x.amount
<1> DEFINE r == Append(p, x)
           n == Len(p) + 1
<1>1. /\ r \in Seq(Prospect) /\ DOMAIN r = DOMAIN p \cup {n} /\ n \notin DOMAIN p
      /\ r[n] = x /\ \A i \in DOMAIN p : r[i] = p[i]
  BY AppendProperties
<1> HIDE DEF r, n
<1>2. /\ \A i \in DOMAIN p : AmountsIn(r)[i] = AmountsIn(p)[i] /\ AmountsIn(p)[i] \in Nat
                             /\ AmountsIn(r)[i] \in Int
      /\ AmountsIn(r)[n] = x.amount /\ x.amount \in Nat
  <2>1. \A i \in DOMAIN p : AmountsIn(p)[i] = p[i].amount /\ p[i].amount \in Nat
    BY ProspectsTyped
  <2>2. \A i \in DOMAIN r : AmountsIn(r)[i] = r[i].amount
    BY DEF AmountsIn
  <2> HIDE DEF AmountsIn
  <2>3. x.amount \in Nat
    BY DEF Prospect
  <2> QED BY <1>1, <2>1, <2>2, <2>3
<1>3. ASSUME NEW S \in SUBSET DOMAIN p
      PROVE  /\ SumFunctionOnSet(AmountsIn(r), S) = SumFunctionOnSet(AmountsIn(p), S)
             /\ SumFunctionOnSet(AmountsIn(r), S \cup {n})
                    = x.amount + SumFunctionOnSet(AmountsIn(p), S)
  <2>1. IsFiniteSet(S) /\ n \notin S
    BY <1>1, ProspectsTyped, FS_Subset
  <2>2. SumFunctionOnSet(AmountsIn(r), S) = SumFunctionOnSet(AmountsIn(p), S)
    BY <1>2, <2>1, SumSame
  <2>3. SumFunctionOnSet(AmountsIn(r), S \cup {n})
            = AmountsIn(r)[n] + SumFunctionOnSet(AmountsIn(r), S)
    <3>1. \A i \in S : AmountsIn(r)[i] \in Int
      BY <1>2
    <3>2. AmountsIn(r)[n] \in Int
      BY <1>2
    <3> HIDE DEF AmountsIn
    <3> QED BY <2>1, <3>1, <3>2, SumWith
  <2> QED BY <1>2, <2>2, <2>3
<1>4. RecordedIn(r, a) = RecordedIn(p, a) + (IF x.by = a THEN x.amount ELSE 0)
  <2>1. PlacesOf(r, a) = IF x.by = a THEN PlacesOf(p, a) \cup {n} ELSE PlacesOf(p, a)
    BY <1>1 DEF PlacesOf
  <2>2. PlacesOf(p, a) \in SUBSET DOMAIN p /\ RecordedIn(p, a) \in Nat
    BY ProspectsTyped DEF PlacesOf
  <2> HIDE DEF AmountsIn
  <2> DEFINE S == PlacesOf(p, a)
  <2>3. /\ SumFunctionOnSet(AmountsIn(r), S) = SumFunctionOnSet(AmountsIn(p), S)
        /\ SumFunctionOnSet(AmountsIn(r), S \cup {n})
               = x.amount + SumFunctionOnSet(AmountsIn(p), S)
    BY <1>3, <2>2
  <2>4. /\ RecordedIn(p, a) = SumFunctionOnSet(AmountsIn(p), S)
        /\ RecordedIn(r, a) = SumFunctionOnSet(AmountsIn(r), PlacesOf(r, a))
    BY DEF RecordedIn
  <2> HIDE DEF S
  <2>5. CASE x.by = a
    BY <1>2, <2>1, <2>2, <2>3, <2>4, <2>5 DEF S
  <2>6. CASE x.by # a
    BY <1>2, <2>1, <2>2, <2>3, <2>4, <2>6 DEF S
  <2> QED BY <2>5, <2>6
<1>5. SumFunction(AmountsIn(r)) = SumFunction(AmountsIn(p)) + x.amount
  <2>1. /\ SumFunction(AmountsIn(r)) = SumFunctionOnSet(AmountsIn(r), DOMAIN r)
        /\ SumFunction(AmountsIn(p)) = SumFunctionOnSet(AmountsIn(p), DOMAIN p)
        /\ SumFunction(AmountsIn(p)) \in Nat
    BY <1>1, ProspectsTyped
  <2>2. SumFunctionOnSet(AmountsIn(r), DOMAIN p \cup {n})
            = x.amount + SumFunctionOnSet(AmountsIn(p), DOMAIN p)
    BY <1>3
  <2> QED BY <1>1, <1>2, <2>1, <2>2
<1> QED BY <1>1, <1>4, <1>5 DEF r

\* The amount of a prospect is changed.
LEMMA Raised ==
  ASSUME NEW p \in Seq(Prospect), NEW k \in DOMAIN p, NEW n \in Nat, NEW a
  PROVE  LET r == [p EXCEPT ![k].amount = n]
         IN  /\ r \in Seq(Prospect) /\ Len(r) = Len(p) /\ r[k].amount = n
             /\ \A i \in DOMAIN p : r[i].by = p[i].by /\ (i # k => r[i] = p[i])
             /\ RecordedIn(r, a) =
                    IF p[k].by = a THEN RecordedIn(p, a) - p[k].amount + n
                    ELSE RecordedIn(p, a)
             /\ SumFunction(AmountsIn(r)) = SumFunction(AmountsIn(p)) - p[k].amount + n
<1> DEFINE r == [p EXCEPT ![k].amount = n]
           x == [p[k] EXCEPT !.amount = n]
<1>1. p[k] \in Prospect
  OBVIOUS
<1>2. x \in Prospect /\ x.by = p[k].by /\ x.amount = n
  BY <1>1 DEF Prospect
<1>3. r = [p EXCEPT ![k] = x]
  OBVIOUS
<1> HIDE DEF x, r
<1>4. /\ r \in Seq(Prospect) /\ Len(r) = Len(p) /\ DOMAIN r = DOMAIN p
      /\ r[k] = x /\ \A i \in DOMAIN p : i # k => r[i] = p[i]
  BY <1>2, <1>3, ExceptSeq
<1>5. \A i \in DOMAIN p : r[i].by = p[i].by /\ (i # k => r[i] = p[i])
  BY <1>2, <1>4
<1>6. \A i \in DOMAIN p : /\ AmountsIn(r)[i] = IF i = k THEN n ELSE AmountsIn(p)[i]
                          /\ AmountsIn(p)[i] = p[i].amount
                          /\ AmountsIn(p)[i] \in Int /\ AmountsIn(r)[i] \in Int
  <2>1. \A i \in DOMAIN p : AmountsIn(p)[i] = p[i].amount /\ p[i].amount \in Nat
    BY ProspectsTyped
  <2>2. \A i \in DOMAIN r : AmountsIn(r)[i] = r[i].amount
    BY DEF AmountsIn
  <2> QED BY <1>2, <1>4, <2>1, <2>2
<1>7. RecordedIn(r, a) = IF p[k].by = a THEN RecordedIn(p, a) - p[k].amount + n
                         ELSE RecordedIn(p, a)
  <2>1. PlacesOf(r, a) = PlacesOf(p, a) /\ PlacesOf(p, a) \subseteq DOMAIN p
    BY <1>4, <1>5 DEF PlacesOf
  <2>2. IsFiniteSet(PlacesOf(p, a))
    BY ProspectsTyped
  <2>3. CASE p[k].by = a
    <3>1. k \in PlacesOf(p, a)
      BY <2>3 DEF PlacesOf
    <3>2. SumFunctionOnSet(AmountsIn(r), PlacesOf(p, a)) =
              SumFunctionOnSet(AmountsIn(p), PlacesOf(p, a)) - AmountsIn(p)[k] + AmountsIn(r)[k]
      BY <1>6, <2>1, <2>2, <3>1, SumChanged
    <3> QED BY <1>6, <2>1, <2>3, <3>2 DEF RecordedIn
  <2>4. CASE p[k].by # a
    <3>1. \A i \in PlacesOf(p, a) : AmountsIn(r)[i] = AmountsIn(p)[i]
      BY <1>6, <2>4 DEF PlacesOf
    <3> QED BY <2>1, <2>2, <2>4, <3>1, SumSame DEF RecordedIn
  <2> QED BY <2>3, <2>4
<1>8. SumFunction(AmountsIn(r)) = SumFunction(AmountsIn(p)) - p[k].amount + n
  <2>1. IsFiniteSet(DOMAIN p)
    BY ProspectsTyped
  <2>2. SumFunctionOnSet(AmountsIn(r), DOMAIN p) =
            SumFunctionOnSet(AmountsIn(p), DOMAIN p) - AmountsIn(p)[k] + AmountsIn(r)[k]
    BY <1>6, <2>1, SumChanged
  <2> QED BY <1>4, <1>6, <2>2, ProspectsTyped
<1> QED BY <1>2, <1>4, <1>5, <1>7, <1>8 DEF r

\* The place of an account is that of its first prospect.
PlaceIn(read, a) ==
    IF PlacesOf(read, a) = {} THEN 0 ELSE Min(PlacesOf(read, a))

LEMMA FirstPlace ==
  ASSUME NEW read \in Seq(Prospect), NEW a
  PROVE  /\ PlaceIn(read, a) = 0 => \A i \in DOMAIN read : read[i].by # a
         /\ PlaceIn(read, a) # 0 =>
                /\ PlaceIn(read, a) \in DOMAIN read
                /\ read[PlaceIn(read, a)].by = a
                /\ \A i \in DOMAIN read : read[i].by = a => PlaceIn(read, a) <= i
<1> DEFINE places == PlacesOf(read, a)
<1>1. DOMAIN read = 1..Len(read) /\ Len(read) \in Nat
  OBVIOUS
<1>2. CASE places = {}
  BY <1>1, <1>2 DEF PlaceIn, PlacesOf
<1>3. CASE places # {}
  <2>1. places \subseteq Nat /\ \A i \in places : i # 0
    BY <1>1 DEF PlacesOf
  <2>2. \E x \in places : \A y \in places : x <= y
    <3> HIDE DEF places
    <3>1. PICK x \in places : \A y \in places : ~(y < x)
      BY <1>3, <2>1, LeastNumber
    <3> QED BY <2>1, <3>1
  <2>3. Min(places) \in places /\ \A y \in places : Min(places) <= y
    <3> HIDE DEF places
    <3> QED BY <2>2 DEF Min
  <2>4. PlaceIn(read, a) = Min(places)
    BY <1>3 DEF PlaceIn
  <2> QED BY <2>1, <2>3, <2>4 DEF PlacesOf
<1> QED BY <1>2, <1>3

LEMMA PlaceIs ==
  ASSUME InvestTypeOK, NEW q \in Order
  PROVE  LET read == order[q].prospects
         IN  /\ Place(q) = PlaceIn(read, order[q].by)
             /\ Place(q) = 0 => \A i \in DOMAIN read : read[i].by # order[q].by
             /\ Place(q) # 0 => /\ Place(q) \in DOMAIN read
                                /\ read[Place(q)].by = order[q].by
                                /\ \A i \in DOMAIN read :
                                       read[i].by = order[q].by => Place(q) <= i
<1>1. order[q].prospects \in Seq(Prospect)
  BY OrdersTyped DEF OrderState
<1>2. Place(q) = PlaceIn(order[q].prospects, order[q].by)
  BY DEF Place, PlaceIn, PlacesOf
<1> QED BY <1>1, <1>2, FirstPlace

\* What has been settled stays settled.
LEMMA SettledStays ==
  ASSUME InvestTypeOK, InvestTypeOK', NEW a,
         \A p \in SettledOf(a) : p \in SettledOf(a)' /\ AmountOf'[p] = AmountOf[p]
  PROVE  /\ SettledBy(a) \in Nat /\ SettledBy(a)' \in Nat
         /\ SettledBy(a) <= SettledBy(a)'
<1>1. \A p \in Order : AmountOf[p] \in Nat /\ AmountOf'[p] \in Nat
  <2>1. Amounts \cup {0} \subseteq Nat
    BY AmountAssumption
  <2>2. ASSUME NEW p \in Order PROVE AmountOf[p] \in Nat /\ AmountOf'[p] \in Nat
    <3>1. order[p].amount \in Amounts \cup {0} /\ order'[p].amount \in Amounts \cup {0}
      BY DEF InvestTypeOK
    <3> QED BY <2>1, <3>1 DEF AmountOf
  <2> QED BY <2>2
<1>2. SettledOf(a) \subseteq Order /\ SettledOf(a)' \subseteq Order
  BY DEF SettledOf, Over
<1>3. IsFiniteSet(SettledOf(a)) /\ IsFiniteSet(SettledOf(a)')
  BY <1>2, OrderAssumption, FS_Subset
<1>4. SettledOf(a) \in SUBSET SettledOf(a)'
  OBVIOUS
<1> DEFINE S == SettledOf(a)
           T == SettledOf(a)'
           f == AmountOf
           g == AmountOf'
<1>5. /\ \A p \in T : g[p] \in Nat
      /\ \A p \in S : f[p] \in Nat /\ f[p] <= g[p]
      /\ IsFiniteSet(S) /\ IsFiniteSet(T) /\ S \in SUBSET T
  BY <1>1, <1>2, <1>3, <1>4
<1>6. SettledBy(a) = SumFunctionOnSet(f, S) /\ SettledBy(a)' = SumFunctionOnSet(g, T)
  BY DEF SettledBy
<1> HIDE DEF S, T, f, g
<1>7. SumFunctionOnSet(f, S) <= SumFunctionOnSet(g, T)
  BY <1>5, SumGrows
<1>8. SumFunctionOnSet(f, S) \in Nat /\ SumFunctionOnSet(g, T) \in Nat
  BY <1>5, SumIsNat
<1> QED BY <1>6, <1>7, <1>8

LEMMA RecordedIs ==
  ASSUME NEW a
  PROVE  /\ RecordedFor(a) = RecordedIn(round.prospects, a)
         /\ Recorded = SumFunction(AmountsIn(round.prospects))
  BY DEF RecordedFor, Recorded, RecordedIn, AmountsIn, PlacesOf

LEMMA RoundTyped ==
  ASSUME InvestTypeOK
  PROVE  /\ round.prospects \in Seq(Prospect) /\ round.version \in Nat
         /\ DOMAIN round.prospects = 1..Len(round.prospects) /\ Len(round.prospects) \in Nat
         /\ \A i \in DOMAIN round.prospects :
                round.prospects[i].by \in Investor /\ round.prospects[i].amount \in Nat
         /\ \A a : RecordedFor(a) \in Nat
         /\ Recorded \in Nat
<1>1. round.prospects \in Seq(Prospect)
  BY OrdersTyped
<1>2. round.version \in Nat
  BY OrdersTyped, OrderAssumption, FS_CardinalityType
<1>3. \A i \in DOMAIN round.prospects :
          round.prospects[i].by \in Investor /\ round.prospects[i].amount \in Nat
  BY <1>1, ProspectsTyped
<1>4. \A a : RecordedFor(a) \in Nat
  BY <1>1, RecordedIs, ProspectsTyped
<1>5. Recorded \in Nat
  BY <1>1, RecordedIs, ProspectsTyped
<1> QED BY <1>1, <1>2, <1>3, <1>4, <1>5

LEMMA OrderTyped ==
  ASSUME InvestTypeOK, NEW q \in Order
  PROVE  /\ order[q] \in OrderState /\ order[q].amount \in Nat
         /\ order[q].prospects \in Seq(Prospect)
         /\ DOMAIN order[q].prospects = 1..Len(order[q].prospects)
         /\ Len(order[q].prospects) \in Nat
         /\ \A i \in DOMAIN order[q].prospects : order[q].prospects[i].amount \in Nat
         /\ order[q].base \in Int
<1>1. order[q] \in OrderState
  BY OrdersTyped
<1>2. order[q].prospects \in Seq(Prospect) /\ order[q].amount \in Nat /\ order[q].base \in Int
  <2>1. order[q].amount \in Amounts \cup {0}
    BY <1>1 DEF OrderState
  <2>2. order[q].amount \in Nat
    <3>1. Amounts \cup {0} \subseteq Nat
      BY AmountAssumption
    <3> QED BY <2>1, <3>1
  <2>3. order[q].base \in Int
    BY <1>1 DEF OrderState, NoMember
  <2>4. order[q].prospects \in Seq(Prospect)
    BY <1>1 DEF OrderState
  <2> QED BY <2>2, <2>3, <2>4
<1>3. \A i \in DOMAIN order[q].prospects : order[q].prospects[i].amount \in Nat
  BY <1>2, ProspectsTyped
<1> QED BY <1>1, <1>2, <1>3

(***************************************************************************)
(* Investments: the steps that record nothing.                             *)
(***************************************************************************)

\* What such a step makes of a request.
Quiet(p) ==
    /\ order'[p].by = order[p].by
    /\ order'[p].amount = order[p].amount
    /\ order'[p].prospects = order[p].prospects
    /\ order'[p].pc \in Investing => order[p].pc \in Investing
    /\ order[p].pc \in InvestEnded => order'[p].pc \in InvestEnded
    /\ transfer[p] = "landed" /\ order[p].pc \in InvestEnded => transfer'[p] = "landed"
    /\ order'[p].pc \in {"collect"} \cup InInvestRun => transfer'[p] = "landed"
    /\ receipt'[p] = "settled" => receipt[p] = "settled"
    /\ order'[p].pc \in {"write", "commit"} =>
           \/ order'[p].base = invested[order[p].by] /\ order[p].pc \in Investing
           \/ order'[p].base = order[p].base /\ order[p].pc \in {"write", "commit"}
    /\ order'[p].pc \in PastChecks =>
           order[p].pc \in PastChecks \/ (order[p].pc \in Investing /\ Fits(p))

\* A request that is alone has read all prospects, one of each account, so that the
\* amount that fits is within the offer.
LEMMA AloneFits ==
  ASSUME InvestInv, ~crowded, NEW q \in Order, order[q].pc \in Investing, Fits(q)
  PROVE  Recorded + order[q].amount <= Offered
<1> DEFINE read == order[q].prospects
           kept == {i \in DOMAIN read :
                       \A j \in DOMAIN read : j > i => read[j].by # read[i].by}
<1>1. read = round.prospects /\ read \in Seq(Prospect)
  BY OrderTyped DEF InvestInv, InvestsAlone
<1>2. \A i, j \in DOMAIN read : read[i].by = read[j].by => i = j
  BY <1>1 DEF InvestInv, InvestsAlone
<1>3. DOMAIN read = 1..Len(read) /\ Len(read) \in Nat
  BY <1>1
<1>4. kept = DOMAIN read
  BY <1>2, <1>3
<1>5. InvestedBefore(q) = SumFunctionOnSet(AmountsIn(read), DOMAIN read)
  BY <1>4 DEF InvestedBefore, AmountsIn
<1>6. InvestedBefore(q) = Recorded
  BY <1>1, <1>5, RecordedIs, ProspectsTyped
<1> QED BY <1>6 DEF Fits

LEMMA QuietInvest ==
  ASSUME InvestInv, InvestTypeOK', round'.prospects = round.prospects,
         round'.version = round.version, UNCHANGED invested, crowded => crowded',
         \A p \in Order : Quiet(p)
  PROVE  InvestInv'
<1> USE DEF InvestInv
<1>1. /\ Over \subseteq Over' /\ IsFiniteSet(Over) /\ IsFiniteSet(Over')
      /\ Cardinality(Over) \in Nat /\ Cardinality(Over') \in Nat
      /\ Cardinality(Over) <= Cardinality(Over')
  <2>1. Over \subseteq Over' /\ Over' \subseteq Order /\ Over \subseteq Order
    BY DEF Over, Quiet
  <2>2. IsFiniteSet(Over) /\ IsFiniteSet(Over')
    BY <2>1, OrderAssumption, FS_Subset
  <2> QED BY <2>1, <2>2, FS_Subset, FS_CardinalityType
<1>2. \A a : /\ SettledBy(a) \in Nat /\ SettledBy(a)' \in Nat
             /\ SettledBy(a) <= SettledBy(a)'
  <2> TAKE a
  <2>1. \A p \in SettledOf(a) : p \in SettledOf(a)' /\ AmountOf'[p] = AmountOf[p]
    BY <1>1 DEF SettledOf, Over, Quiet, AmountOf
  <2> QED BY <2>1, SettledStays
<1>3. /\ \A a : RecordedFor(a)' = RecordedFor(a)
      /\ Recorded' = Recorded
  BY DEF RecordedFor, Recorded
<1>4. \A p \in Order : Place(p)' = Place(p)
  BY DEF Place, Quiet
<1>5. PaidFirst'
  <2> SUFFICES ASSUME NEW p \in Order
               PROVE  /\ order'[p].pc \in Investing => order'[p].by \in Investor
                      /\ order'[p].pc \in {"collect"} \cup InInvestRun =>
                             transfer'[p] = "landed"
                      /\ receipt'[p] = "settled" => transfer'[p] = "landed" /\ p \in Over'
    BY DEF PaidFirst
  <2> QED BY <1>1 DEF PaidFirst, Quiet, Over
<1>6. VersionsCount'
  BY <1>1, RoundTyped DEF VersionsCount
<1>7. ReadsPrefix'
  BY DEF ReadsPrefix, Quiet
<1>8. RecordsCovered'
  <2>1. \A a \in Investor : RecordedFor(a)' <= SettledBy(a)' /\ invested'[a] <= SettledBy(a)'
    <3> TAKE a \in Investor
    <3>1. RecordedFor(a) \in Nat /\ invested[a] \in Int
      BY RoundTyped DEF InvestTypeOK, NoMember
    <3> QED BY <1>2, <1>3, <3>1 DEF RecordsCovered
  <2>2. ASSUME NEW q \in Order, order'[q].pc \in Investing, Place(q)' # 0
        PROVE  (RecordedFor(order[q].by) - round.prospects[Place(q)].amount
                   + order[q].prospects[Place(q)].amount <= SettledBy(order[q].by))'
    <3> DEFINE k == Place(q)
               a == order[q].by
               m == round.prospects[k].amount
               n == order[q].prospects[k].amount
    <3>1. order[q].pc \in Investing /\ k # 0 /\ Place(q)' = k
      BY <1>4, <2>2 DEF Quiet
    <3>2. RecordedFor(a) - m + n <= SettledBy(a)
      BY <3>1 DEF RecordsCovered
    <3>3. k \in DOMAIN order[q].prospects
      BY <3>1, PlaceIs
    <3>4. k \in DOMAIN round.prospects
      BY <3>1, <3>3, OrderTyped, RoundTyped DEF ReadsPrefix
    <3>5. m \in Nat /\ n \in Nat /\ RecordedFor(a) \in Nat
      BY <3>3, <3>4, OrderTyped, RoundTyped
    <3>6. /\ order'[q].by = a /\ round'.prospects[Place(q)'].amount = m
          /\ order'[q].prospects[Place(q)'].amount = n
      BY <3>1 DEF Quiet
    <3>7. /\ RecordedFor(order[q].by)' = RecordedFor(order[q].by)
          /\ SettledBy(order[q].by)' = SumFunctionOnSet(AmountOf', {p \in Over' :
                 order'[p].by = order[q].by /\ transfer'[p] = "landed"})
      BY <3>6 DEF RecordedFor, SettledBy, SettledOf
    <3>8. \A b : SettledBy(b)' = SumFunctionOnSet(AmountOf', {p \in Over' :
                 order'[p].by = b /\ transfer'[p] = "landed"})
      BY DEF SettledBy, SettledOf
    <3>9. SettledBy(order[q].by)' \in Nat /\ SettledBy(order[q].by) \in Nat
          /\ SettledBy(order[q].by) <= SettledBy(order[q].by)'
      BY <1>2, <3>7, <3>8
    <3> QED BY <3>2, <3>5, <3>6, <3>7, <3>9
  <2>3. ASSUME NEW q \in Order, order'[q].pc \in {"write", "commit"}
        PROVE  (order[q].base <= SettledBy(order[q].by))'
    <3>1. order'[q].base <= SettledBy(order[q].by) /\ order'[q].base \in Int
      BY <2>3, OrdersTyped DEF RecordsCovered, Quiet, PaidFirst, OrderState, NoMember
    <3>2. order'[q].by = order[q].by
      BY DEF Quiet
    <3>3. SettledBy(order[q].by)' = SumFunctionOnSet(AmountOf', {p \in Over' :
              order'[p].by = order[q].by /\ transfer'[p] = "landed"})
      BY <3>2 DEF SettledBy, SettledOf
    <3>4. \A b : SettledBy(b)' = SumFunctionOnSet(AmountOf', {p \in Over' :
                 order'[p].by = b /\ transfer'[p] = "landed"})
      BY DEF SettledBy, SettledOf
    <3>5. SettledBy(order[q].by)' \in Nat /\ SettledBy(order[q].by) \in Nat
          /\ SettledBy(order[q].by) <= SettledBy(order[q].by)'
      BY <1>2, <3>3, <3>4
    <3> QED BY <3>1, <3>5
  <2> QED BY <2>1, <2>2, <2>3 DEF RecordsCovered
<1>9. InvestsAlone'
  <2> SUFFICES ASSUME ~crowded'
               PROVE  /\ \A i, j \in DOMAIN round'.prospects :
                            round'.prospects[i].by = round'.prospects[j].by => i = j
                      /\ \A q \in Order : order'[q].pc \in Investing =>
                            /\ order'[q].prospects = round'.prospects
                            /\ \A p \in Order : order'[p].pc \in Investing => p = q
                            /\ order'[q].pc \in {"write", "commit"} =>
                                   order'[q].base = invested'[order'[q].by]
                            /\ order'[q].pc \in PastChecks =>
                                   Recorded' + order'[q].amount <= Offered
    BY DEF InvestsAlone
  <2>1. \A i, j \in DOMAIN round'.prospects :
            round'.prospects[i].by = round'.prospects[j].by => i = j
    BY DEF InvestsAlone
  <2>2. ASSUME NEW q \in Order, order'[q].pc \in Investing
        PROVE  /\ order'[q].prospects = round'.prospects
               /\ \A p \in Order : order'[p].pc \in Investing => p = q
               /\ order'[q].pc \in {"write", "commit"} =>
                      order'[q].base = invested'[order'[q].by]
    BY <2>2 DEF InvestsAlone, Quiet
  <2>3. ASSUME NEW q \in Order, order'[q].pc \in PastChecks
        PROVE  Recorded' + order'[q].amount <= Offered
    <3>1. order[q].pc \in PastChecks \/ (order[q].pc \in Investing /\ Fits(q))
      BY <2>3 DEF Quiet
    <3>2. order'[q].amount = order[q].amount
      BY DEF Quiet
    <3>3. CASE order[q].pc \in PastChecks
      BY <1>3, <3>2, <3>3 DEF InvestsAlone, PastChecks, Investing
    <3>4. CASE order[q].pc \in Investing /\ Fits(q)
      BY <1>3, <3>2, <3>4, AloneFits
    <3> QED BY <3>1, <3>3, <3>4
  <2> QED BY <2>1, <2>2, <2>3
<1>10. MembersCoverOffer' /\ InvestedWithinOffer'
  BY <1>3 DEF MembersCoverOffer, InvestedWithinOffer
<1> QED BY <1>5, <1>6, <1>7, <1>8, <1>9, <1>10

\* A request that has read the offer goes on, to a state and with a member.
Moves(q, to, base) ==
    /\ order' \in [Order -> OrderState]
    /\ \A p \in Order : p # q => order'[p] = order[p]
    /\ order'[q].pc = to /\ order'[q].base = base
    /\ order'[q].by = order[q].by /\ order'[q].amount = order[q].amount
    /\ order'[q].prospects = order[q].prospects

LEMMA OrderMoves ==
  ASSUME InvestTypeOK, NEW q \in Order, NEW new \in OrderState, order' = [order EXCEPT ![q] = new],
         new.by = order[q].by, new.amount = order[q].amount, new.prospects = order[q].prospects
  PROVE  Moves(q, new.pc, new.base)
<1>1. order \in [Order -> OrderState]
  BY OrdersTyped
<1> QED BY <1>1 DEF Moves

LEMMA InvestGoesMoves ==
  ASSUME InvestTypeOK, NEW q \in Order, NEW to \in Investing \cup InvestEnded, InvestGoes(q, to)
  PROVE  Moves(q, to, order[q].base)
<1>1. order[q] \in OrderState
  BY OrderTyped
<1> DEFINE new == [order[q] EXCEPT !.pc = to]
<1>2. /\ new \in OrderState /\ new.pc = to /\ new.base = order[q].base
      /\ new.by = order[q].by /\ new.amount = order[q].amount
      /\ new.prospects = order[q].prospects
  BY <1>1 DEF OrderState
<1>3. order' = [order EXCEPT ![q] = new]
  BY DEF InvestGoes
<1> HIDE DEF new
<1> QED BY <1>2, <1>3, OrderMoves

LEMMA CollectsMoves ==
  ASSUME InvestTypeOK, NEW q \in Order, CollectsEquity(q)
  PROVE  Moves(q, "find", order[q].base)
<1>1. order[q] \in OrderState /\ 1 \in 0..MaxInvestRun
  BY OrderTyped, InvestBoundAssumption
<1> DEFINE new == [order[q] EXCEPT !.pc = "find", !.run = 1,
                                   !.paymentDirty = TRUE, !.offerDirty = TRUE]
<1>2. /\ new \in OrderState /\ new.pc = "find" /\ new.base = order[q].base
      /\ new.by = order[q].by /\ new.amount = order[q].amount
      /\ new.prospects = order[q].prospects
  BY <1>1 DEF OrderState, Investing, InInvestRun
<1>3. order' = [order EXCEPT ![q] = new]
  BY DEF CollectsEquity
<1> HIDE DEF new
<1> QED BY <1>2, <1>3, OrderMoves

LEMMA FindsMoves ==
  ASSUME InvestInv, NEW q \in Order, FindsInvestor(q)
  PROVE  Moves(q, "write", invested[order[q].by])
<1> DEFINE found == invested[order[q].by]
           new == [order[q] EXCEPT !.base = found, !.pc = "write"]
<1>1. order[q] \in OrderState /\ order[q].by \in Investor
  BY OrderTyped DEF InvestInv, PaidFirst, FindsInvestor, Investing, InInvestRun
<1>2. found \in Nat \cup {NoMember}
  BY <1>1 DEF InvestInv, InvestTypeOK
<1>3. order' = [order EXCEPT ![q] = new]
  BY <1>1, OrdersTyped DEF FindsInvestor, InvestInv, OrderState
<1> HIDE DEF found
<1>4. /\ new \in OrderState /\ new.pc = "write" /\ new.base = found
      /\ new.by = order[q].by /\ new.amount = order[q].amount
      /\ new.prospects = order[q].prospects
  BY <1>1, <1>2 DEF OrderState, Investing, InInvestRun
<1> HIDE DEF new
<1>5. Moves(q, "write", found)
  BY <1>3, <1>4, OrderMoves DEF InvestInv
<1> QED BY <1>5 DEF found

LEMMA RerunsMoves ==
  ASSUME InvestTypeOK, NEW q \in Order, NEW paymentDirty \in BOOLEAN,
         NEW offerDirty \in BOOLEAN, InvestReruns(q, paymentDirty, offerDirty)
  PROVE  \E to \in {"find", "failed"} : Moves(q, to, order[q].base)
<1>1. order[q] \in OrderState
  BY OrderTyped
<1>2. CASE order[q].run < MaxInvestRun
  <2> DEFINE new == [order[q] EXCEPT !.pc = "find", !.run = order[q].run + 1,
                                     !.paymentDirty = paymentDirty, !.offerDirty = offerDirty]
  <2>1. order[q].run + 1 \in 0..MaxInvestRun
    BY <1>1, <1>2, InvestBoundAssumption DEF OrderState
  <2>2. /\ new \in OrderState /\ new.pc = "find" /\ new.base = order[q].base
        /\ new.by = order[q].by /\ new.amount = order[q].amount
        /\ new.prospects = order[q].prospects
    BY <1>1, <2>1 DEF OrderState, Investing, InInvestRun
  <2>3. order' = [order EXCEPT ![q] = new]
    BY <1>2 DEF InvestReruns
  <2> HIDE DEF new
  <2> QED BY <2>2, <2>3, OrderMoves
<1>3. CASE ~(order[q].run < MaxInvestRun)
  <2>1. InvestGoes(q, "failed") /\ "failed" \in Investing \cup InvestEnded
    BY <1>3 DEF InvestReruns, InvestGoes, InvestEnded
  <2> QED BY <2>1, InvestGoesMoves
<1> QED BY <1>2, <1>3

\* A request moves on, and what it does to its transfer and its receipt is in order.
LEMMA QuietMove ==
  ASSUME InvestInv, NEW q \in Order, NEW to, NEW base, Moves(q, to, base),
         order[q].pc \in Investing, to \in Investing \cup InvestEnded,
         \A p \in Order : p # q => transfer'[p] = transfer[p] /\ receipt'[p] = receipt[p],
         to \in {"collect"} \cup InInvestRun => transfer'[q] = "landed",
         receipt'[q] = "settled" => receipt[q] = "settled",
         to \in {"write", "commit"} =>
             \/ base = invested[order[q].by]
             \/ base = order[q].base /\ order[q].pc \in {"write", "commit"},
         to \in PastChecks => order[q].pc \in PastChecks \/ Fits(q),
         transfer' \in [Order -> {"unsent", "inflight", "landed", "failed", "expired"}],
         receipt' \in [Order -> {"none", "open", "settled"}],
         round' \in [status : {"pending", "approved", "declined"}, prospects : Seq(Prospect),
                     version : 0..Cardinality(Order)],
         round'.prospects = round.prospects, round'.version = round.version,
         collected' \in [Order -> SUBSET (1..Batches)], UNCHANGED <<invested, crowded, outages>>
  PROVE  InvestInv'
<1>1. InvestTypeOK'
  <2>1. order' \in [Order -> OrderState]
    BY DEF Moves
  <2>2. /\ invested' \in [Investor -> Nat \cup {NoMember}] /\ crowded' \in BOOLEAN
        /\ outages' \in 0..MaxInvestCrash
    BY DEF InvestInv, InvestTypeOK
  <2> QED BY <2>1, <2>2 DEF InvestTypeOK, OrderState
<1>2. ASSUME NEW p \in Order PROVE Quiet(p)
  <2>1. CASE p = q
    BY <2>1 DEF Quiet, Moves, Investing, InvestEnded, InInvestRun
  <2>2. CASE p # q
    BY <2>2 DEF Quiet, Moves, InvestInv, PaidFirst
  <2> QED BY <2>1, <2>2
<1> QED BY <1>1, <1>2, QuietInvest

LEMMA QuietStepsInvest ==
  ASSUME InvestInv, NEW q \in Order,
         \/ InvestCheckFails(q) \/ StoresPayment(q) \/ InvestDeclines(q) \/ SavesDecline(q)
         \/ SendsCredits(q) \/ TransferReturns(q) \/ TransferThrows(q) \/ CollectsEquity(q)
         \/ CollectThrows(q) \/ FindsInvestor(q) \/ Writes(q) \/ WriteThrows(q)
         \/ WriteConflicts(q) \/ AbortsInvest(q)
  PROVE  InvestInv'
<1>1. /\ InvestTypeOK
      /\ transfer \in [Order -> {"unsent", "inflight", "landed", "failed", "expired"}]
      /\ receipt \in [Order -> {"none", "open", "settled"}]
      /\ round \in [status : {"pending", "approved", "declined"}, prospects : Seq(Prospect),
                    version : 0..Cardinality(Order)]
      /\ collected \in [Order -> SUBSET (1..Batches)]
      /\ order[q].pc \in {"collect"} \cup InInvestRun => transfer[q] = "landed"
  BY OrdersTyped DEF InvestInv, PaidFirst
<1>2. \A to : to \in Investing \cup InvestEnded /\ InvestGoes(q, to) =>
          Moves(q, to, order[q].base)
  BY <1>1, InvestGoesMoves
<1>3. CASE InvestCheckFails(q)
  <2>1. InvestGoes(q, "failed") /\ order[q].pc = "check"
    BY <1>3 DEF InvestCheckFails
  <2>2. Moves(q, "failed", order[q].base)
    BY <1>2, <2>1 DEF InvestEnded
  <2> QED BY <1>1, <1>3, <2>1, <2>2, QuietMove
          DEF InvestCheckFails, Investing, InvestEnded, InInvestRun, PastChecks
<1>4. CASE StoresPayment(q)
  <2>1. /\ InvestGoes(q, "transfer") /\ order[q].pc = "check" /\ Fits(q)
        /\ receipt' = [receipt EXCEPT ![q] = "open"]
    BY <1>4 DEF StoresPayment
  <2>2. Moves(q, "transfer", order[q].base)
    BY <1>2, <2>1 DEF Investing
  <2> QED BY <1>1, <1>4, <2>1, <2>2, QuietMove
          DEF StoresPayment, Investing, InvestEnded, InInvestRun, PastChecks
<1>5. CASE InvestDeclines(q)
  <2>1. InvestGoes(q, "decline") /\ order[q].pc = "check"
    BY <1>5 DEF InvestDeclines
  <2>2. Moves(q, "decline", order[q].base)
    BY <1>2, <2>1 DEF Investing
  <2> QED BY <1>1, <1>5, <2>1, <2>2, QuietMove
          DEF InvestDeclines, Investing, InvestEnded, InInvestRun, PastChecks
<1>6. CASE SavesDecline(q)
  <2>1. /\ InvestGoes(q, "done") /\ order[q].pc = "decline"
        /\ round' = [round EXCEPT !.status = "declined"]
    BY <1>6 DEF SavesDecline
  <2>2. Moves(q, "done", order[q].base)
    BY <1>2, <2>1 DEF InvestEnded
  <2> QED BY <1>1, <1>6, <2>1, <2>2, QuietMove
          DEF SavesDecline, Investing, InvestEnded, InInvestRun, PastChecks
<1>7. CASE SendsCredits(q)
  <2>1. /\ InvestGoes(q, "await") /\ order[q].pc = "transfer"
        /\ transfer' = [transfer EXCEPT ![q] = "inflight"]
    BY <1>7 DEF SendsCredits
  <2>2. Moves(q, "await", order[q].base)
    BY <1>2, <2>1 DEF Investing
  <2> QED BY <1>1, <1>7, <2>1, <2>2, QuietMove
          DEF SendsCredits, Investing, InvestEnded, InInvestRun, PastChecks
<1>8. CASE TransferReturns(q)
  <2>1. InvestGoes(q, "collect") /\ order[q].pc = "await" /\ transfer[q] = "landed"
    BY <1>8 DEF TransferReturns
  <2>2. Moves(q, "collect", order[q].base)
    BY <1>2, <2>1 DEF Investing
  <2> QED BY <1>1, <1>8, <2>1, <2>2, QuietMove
          DEF TransferReturns, Investing, InvestEnded, InInvestRun, PastChecks
<1>9. CASE TransferThrows(q)
  <2>1. InvestGoes(q, "failed") /\ order[q].pc \in {"transfer", "await"}
    BY <1>9 DEF TransferThrows
  <2>2. Moves(q, "failed", order[q].base)
    BY <1>2, <2>1 DEF InvestEnded
  <2> QED BY <1>1, <1>9, <2>1, <2>2, QuietMove
          DEF TransferThrows, Investing, InvestEnded, InInvestRun, PastChecks
<1>10. CASE CollectsEquity(q)
  <2>1. /\ Moves(q, "find", order[q].base) /\ order[q].pc = "collect"
        /\ collected' \in [Order -> SUBSET (1..Batches)]
    BY <1>1, <1>10, CollectsMoves DEF CollectsEquity
  <2> QED BY <1>1, <1>10, <2>1, QuietMove
          DEF CollectsEquity, Investing, InvestEnded, InInvestRun, PastChecks
<1>11. CASE CollectThrows(q)
  <2>1. /\ InvestGoes(q, "failed") /\ order[q].pc = "collect"
        /\ collected' \in [Order -> SUBSET (1..Batches)]
    BY <1>1, <1>11 DEF CollectThrows
  <2>2. Moves(q, "failed", order[q].base)
    BY <1>2, <2>1 DEF InvestEnded
  <2> QED BY <1>1, <1>11, <2>1, <2>2, QuietMove
          DEF CollectThrows, Investing, InvestEnded, InInvestRun, PastChecks
<1>12. CASE FindsInvestor(q)
  <2>1. Moves(q, "write", invested[order[q].by]) /\ order[q].pc = "find"
    BY <1>12, FindsMoves DEF FindsInvestor
  <2> QED BY <1>1, <1>12, <2>1, QuietMove
          DEF FindsInvestor, Investing, InvestEnded, InInvestRun, PastChecks
<1>13. CASE Writes(q)
  <2>1. InvestGoes(q, "commit") /\ order[q].pc = "write"
    BY <1>13 DEF Writes
  <2>2. Moves(q, "commit", order[q].base)
    BY <1>2, <2>1 DEF Investing, InInvestRun
  <2> QED BY <1>1, <1>13, <2>1, <2>2, QuietMove
          DEF Writes, Investing, InvestEnded, InInvestRun, PastChecks
<1>14. CASE WriteThrows(q)
  <2>1. InvestGoes(q, "failed") /\ order[q].pc \in {"find", "write"}
    BY <1>14 DEF WriteThrows
  <2>2. Moves(q, "failed", order[q].base)
    BY <1>2, <2>1 DEF InvestEnded
  <2> QED BY <1>1, <1>14, <2>1, <2>2, QuietMove
          DEF WriteThrows, Investing, InvestEnded, InInvestRun, PastChecks
<1>15. CASE WriteConflicts(q) \/ AbortsInvest(q)
  <2>1. /\ \E paymentDirty, offerDirty \in BOOLEAN : InvestReruns(q, paymentDirty, offerDirty)
        /\ order[q].pc \in {"write", "commit"}
        /\ UNCHANGED <<round, receipt, invested, transfer, collected, crowded, outages>>
    BY <1>15, OrderTyped DEF WriteConflicts, AbortsInvest, InvestInv, OrderState
  <2>2. PICK to \in {"find", "failed"} : Moves(q, to, order[q].base)
    BY <1>1, <2>1, RerunsMoves
  <2> QED BY <1>1, <2>1, <2>2, QuietMove
          DEF Investing, InvestEnded, InInvestRun, PastChecks
<1> QED BY <1>3, <1>4, <1>5, <1>6, <1>7, <1>8, <1>9, <1>10, <1>11, <1>12, <1>13, <1>14, <1>15

\* A crash leaves the requests it ends in no memory; a transfer settles at any time.
LEMMA CrashInvest ==
  ASSUME InvestInv, InvestCrash PROVE InvestInv'
<1>1. InvestTypeOK'
  <2>1. order' \in [Order -> OrderState]
    <3> SUFFICES ASSUME NEW q \in Order
                 PROVE  (IF order[q].pc \in Investing THEN [order[q] EXCEPT !.pc = "dead"]
                         ELSE order[q]) \in OrderState
      BY DEF InvestCrash
    <3>1. order[q] \in OrderState
      BY OrderTyped DEF InvestInv
    <3> QED BY <3>1 DEF OrderState, InvestEnded
  <2>2. outages' \in 0..MaxInvestCrash
    BY InvestBoundAssumption DEF InvestCrash, InvestInv, InvestTypeOK
  <2> QED BY <2>1, <2>2 DEF InvestCrash, InvestInv, InvestTypeOK, OrderState
<1>2. ASSUME NEW p \in Order PROVE Quiet(p)
  <2>1. order[p] \in OrderState
    BY OrderTyped DEF InvestInv
  <2>2. order'[p] = IF order[p].pc \in Investing THEN [order[p] EXCEPT !.pc = "dead"]
                    ELSE order[p]
    BY DEF InvestCrash
  <2>3. CASE order[p].pc \in Investing
    <3>1. /\ order'[p].pc = "dead" /\ order'[p].by = order[p].by
          /\ order'[p].amount = order[p].amount /\ order'[p].prospects = order[p].prospects
      BY <2>1, <2>2, <2>3 DEF OrderState
    <3> QED BY <2>3, <3>1
            DEF Quiet, InvestCrash, Investing, InvestEnded, InInvestRun, PastChecks
  <2>4. CASE order[p].pc \notin Investing
    BY <2>2, <2>4 DEF Quiet, InvestCrash, Investing, InInvestRun, PastChecks
  <2> QED BY <2>3, <2>4
<1> QED BY <1>1, <1>2, QuietInvest DEF InvestCrash

LEMMA SettlesInvest ==
  ASSUME InvestInv, NEW q \in Order, TransferSettles(q) PROVE InvestInv'
<1>1. InvestTypeOK'
  BY DEF TransferSettles, InvestInv, InvestTypeOK
<1>2. ASSUME NEW p \in Order PROVE Quiet(p)
  <2>1. transfer'[p] = transfer[p] \/ transfer[p] = "inflight"
    BY DEF TransferSettles, InvestInv, InvestTypeOK
  <2> QED BY <2>1 DEF Quiet, TransferSettles, InvestInv, PaidFirst, PastChecks, Investing,
                      InInvestRun
<1> QED BY <1>1, <1>2, QuietInvest DEF TransferSettles

(***************************************************************************)
(* Investments: the offer is read.                                         *)
(***************************************************************************)

LEMMA RefusedInvest ==
  ASSUME InvestInv, NEW q \in Order, NEW account \in Investor, NEW amount \in Amounts,
         ReadsInvestOffer(q, account, amount), round.status # "pending"
  PROVE  InvestInv'
<1>1. /\ order[q].pc = "idle" /\ InvestGoes(q, "refused")
      /\ crowded' \in BOOLEAN
      /\ crowded => crowded'
      /\ UNCHANGED <<round, receipt, invested, transfer, collected, outages>>
  BY DEF ReadsInvestOffer, InvestGoes, InvestInv, InvestTypeOK
<1>2. Moves(q, "refused", order[q].base)
  <2>1. InvestTypeOK /\ "refused" \in Investing \cup InvestEnded
    BY DEF InvestInv, InvestEnded
  <2> QED BY <1>1, <2>1, InvestGoesMoves
<1>3. InvestTypeOK'
  BY <1>1, <1>2 DEF Moves, InvestInv, InvestTypeOK, OrderState
<1>4. ASSUME NEW p \in Order PROVE Quiet(p)
  <2>1. CASE p = q
    BY <1>1, <1>2, <2>1 DEF Quiet, Moves, Investing, InvestEnded, InInvestRun, PastChecks
  <2>2. CASE p # q
    BY <1>1, <1>2, <2>2 DEF Quiet, Moves, InvestInv, PaidFirst, Investing, InInvestRun, PastChecks
  <2> QED BY <2>1, <2>2
<1>5. round' = round /\ invested' = invested /\ (crowded => crowded')
  BY <1>1
<1> QED BY <1>3, <1>4, <1>5, QuietInvest

LEMMA ReadsInvest ==
  ASSUME InvestInv, NEW q \in Order, NEW account \in Investor, NEW amount \in Amounts,
         ReadsInvestOffer(q, account, amount), round.status = "pending"
  PROVE  InvestInv'
<1> DEFINE new == [order[q] EXCEPT !.pc = "check", !.by = account, !.amount = amount,
                                   !.prospects = round.prospects, !.version = round.version]
<1> USE DEF InvestInv
<1>1. /\ order[q].pc = "idle" /\ order' = [order EXCEPT ![q] = new]
      /\ UNCHANGED <<round, receipt, invested, transfer, collected, outages>>
      /\ crowded' \in BOOLEAN
      /\ ~crowded' => ~crowded /\ \A p \in Order : order[p].pc \in Investing => p = q
  BY DEF ReadsInvestOffer, InvestTypeOK
<1>2. order[q] \in OrderState /\ round.prospects \in Seq(Prospect)
      /\ round.version \in 0..Cardinality(Order)
  BY OrderTyped, OrdersTyped
<1>3. /\ new \in OrderState /\ new.pc = "check" /\ new.by = account /\ new.amount = amount
      /\ new.prospects = round.prospects
  BY <1>2 DEF OrderState, Investing
<1> HIDE DEF new
<1>4. /\ order' \in [Order -> OrderState] /\ order'[q] = new
      /\ \A p \in Order : p # q => order'[p] = order[p]
  BY <1>1, <1>3, OrdersTyped
<1>5. InvestTypeOK'
  BY <1>1, <1>4 DEF InvestTypeOK, OrderState
<1>6. Over' = Over /\ q \notin Over
  BY <1>1, <1>3, <1>4 DEF Over, InvestEnded
<1>7. \A a : /\ SettledBy(a) \in Nat /\ SettledBy(a)' \in Nat
             /\ SettledBy(a) <= SettledBy(a)'
  <2> TAKE a
  <2>1. \A p \in SettledOf(a) : p \in SettledOf(a)' /\ AmountOf'[p] = AmountOf[p]
    BY <1>1, <1>4, <1>6 DEF SettledOf, Over, AmountOf
  <2> QED BY <1>5, <2>1, SettledStays
<1>8. /\ \A a : RecordedFor(a)' = RecordedFor(a)
      /\ Recorded' = Recorded
  BY <1>1 DEF RecordedFor, Recorded
<1>9. \A p \in Order : p # q => Place(p)' = Place(p)
  BY <1>4 DEF Place
<1>10. PaidFirst'
  BY <1>1, <1>3, <1>4, <1>6 DEF PaidFirst, InInvestRun, Over
<1>11. VersionsCount'
  BY <1>1, <1>6 DEF VersionsCount
<1>12. ReadsPrefix'
  BY <1>1, <1>2, <1>3, <1>4 DEF ReadsPrefix
<1>13. RecordsCovered'
  <2>1. \A a \in Investor : RecordedFor(a)' <= SettledBy(a)' /\ invested'[a] <= SettledBy(a)'
    <3> TAKE a \in Investor
    <3>1. RecordedFor(a) \in Nat /\ invested[a] \in Int
      BY RoundTyped DEF InvestTypeOK, NoMember
    <3> QED BY <1>1, <1>7, <1>8, <3>1 DEF RecordsCovered
  <2>2. \A b : /\ RecordedFor(b)' = RecordedIn(round.prospects, b)
               /\ RecordedIn(round.prospects, b) \in Nat
               /\ RecordedIn(round.prospects, b) = RecordedFor(b)
               /\ SettledBy(b)' = SumFunctionOnSet(AmountOf', {p \in Over' :
                                     order'[p].by = b /\ transfer'[p] = "landed"})
    BY <1>1, <1>2, ProspectsTyped DEF RecordedFor, RecordedIn, AmountsIn, PlacesOf,
                                      SettledBy, SettledOf
  <2>3. ASSUME NEW p \in Order
        PROVE  /\ RecordedFor(order[p].by)' = RecordedIn(round.prospects, order'[p].by)
               /\ SettledBy(order[p].by)' = SumFunctionOnSet(AmountOf', {r \in Over' :
                                     order'[r].by = order'[p].by /\ transfer'[r] = "landed"})
    BY <1>1 DEF RecordedFor, RecordedIn, AmountsIn, PlacesOf, SettledBy, SettledOf
  <2>4. ASSUME NEW p \in Order, order'[p].pc \in Investing, Place(p)' # 0
        PROVE  (RecordedFor(order[p].by) - round.prospects[Place(p)].amount
                   + order[p].prospects[Place(p)].amount <= SettledBy(order[p].by))'
    <3>1. CASE p = q
      <4>1. order'[p].prospects = round.prospects /\ order'[p].by = account
        BY <1>3, <1>4, <3>1
      <4>2. Place(p)' = PlaceIn(round.prospects, account)
        BY <4>1 DEF Place, PlaceIn, PlacesOf
      <4>3. round.prospects[Place(p)'].amount \in Nat
        BY <1>2, <2>4, <4>2, FirstPlace, RoundTyped
      <4>4. RecordedFor(order[p].by)' \in Nat /\ SettledBy(order[p].by)' \in Nat
            /\ RecordedFor(order[p].by)' <= SettledBy(order[p].by)'
        BY <1>7, <2>1, <2>2, <2>3, <4>1
      <4> QED BY <1>1, <4>1, <4>3, <4>4
    <3>2. CASE p # q
      <4> DEFINE k == Place(p)
                 m == round.prospects[k].amount
                 n == order[p].prospects[k].amount
      <4>1. order'[p] = order[p] /\ Place(p)' = k
        BY <1>4, <1>9, <3>2
      <4>2. RecordedFor(order[p].by) - m + n <= SettledBy(order[p].by)
        BY <2>4, <4>1 DEF RecordsCovered
      <4>3. k \in DOMAIN order[p].prospects /\ k \in DOMAIN round.prospects
        BY <2>4, <4>1, PlaceIs, OrderTyped, RoundTyped DEF ReadsPrefix
      <4>4. m \in Nat /\ n \in Nat
        BY <4>3, OrderTyped, RoundTyped
      <4>5. RecordedFor(order[p].by)' = RecordedFor(order[p].by)
            /\ RecordedFor(order[p].by) \in Nat
        BY <2>2, <2>3, <4>1
      <4>6. SettledBy(order[p].by)' \in Nat /\ SettledBy(order[p].by) \in Nat
            /\ SettledBy(order[p].by) <= SettledBy(order[p].by)'
        BY <1>7, <2>2, <2>3, <4>1
      <4> QED BY <1>1, <4>1, <4>2, <4>4, <4>5, <4>6
    <3> QED BY <3>1, <3>2
  <2>5. ASSUME NEW p \in Order, order'[p].pc \in {"write", "commit"}
        PROVE  (order[p].base <= SettledBy(order[p].by))'
    <3>1. p # q
      BY <1>3, <1>4, <2>5
    <3>2. order'[p] = order[p] /\ order[p].base \in Int
      BY <1>4, <3>1, OrderTyped
    <3>3. SettledBy(order[p].by)' \in Nat /\ SettledBy(order[p].by) \in Nat
          /\ SettledBy(order[p].by) <= SettledBy(order[p].by)'
      BY <1>7, <2>2, <2>3, <3>2
    <3> QED BY <2>5, <3>2, <3>3 DEF RecordsCovered
  <2> QED BY <2>1, <2>4, <2>5 DEF RecordsCovered
<1>14. InvestsAlone'
  BY <1>1, <1>3, <1>4 DEF InvestsAlone, PastChecks, InInvestRun
<1>15. MembersCoverOffer' /\ InvestedWithinOffer'
  BY <1>1, <1>8 DEF MembersCoverOffer, InvestedWithinOffer
<1> QED BY <1>5, <1>10, <1>11, <1>12, <1>13, <1>14, <1>15

(***************************************************************************)
(* Investments: a transaction commits.                                     *)
(***************************************************************************)

\* Requests that have read prospects of one account are to write them at one place.
LEMMA SamePlace ==
  ASSUME InvestInv, NEW p \in Order, NEW q \in Order, order[p].pc \in Investing,
         order[q].pc \in Investing, order[p].by = order[q].by, Place(p) # 0, Place(q) # 0
  PROVE  Place(p) = Place(q)
<1> DEFINE i == Place(p)
           j == Place(q)
<1>1. InvestTypeOK /\ ReadsPrefix
  BY DEF InvestInv
<1>2. /\ DOMAIN order[p].prospects = 1..Len(order[p].prospects)
      /\ DOMAIN order[q].prospects = 1..Len(order[q].prospects)
      /\ Len(order[p].prospects) \in Nat /\ Len(order[q].prospects) \in Nat
  BY <1>1, OrderTyped
<1>3. /\ i \in DOMAIN order[p].prospects /\ order[p].prospects[i].by = order[p].by
      /\ j \in DOMAIN order[q].prospects /\ order[q].prospects[j].by = order[q].by
      /\ \A n \in DOMAIN order[p].prospects : order[p].prospects[n].by = order[p].by => i <= n
      /\ \A n \in DOMAIN order[q].prospects : order[q].prospects[n].by = order[q].by => j <= n
  BY <1>1, PlaceIs
<1> HIDE DEF i, j
<1>4. /\ \A n \in DOMAIN order[p].prospects :
             order[p].prospects[n].by = round.prospects[n].by
      /\ \A n \in DOMAIN order[q].prospects :
             order[q].prospects[n].by = round.prospects[n].by
  BY <1>1 DEF ReadsPrefix
<1>5. ~(i < j)
  BY <1>2, <1>3, <1>4
<1>6. ~(j < i)
  BY <1>2, <1>3, <1>4
<1>7. i \in Nat /\ j \in Nat
  BY <1>2, <1>3
<1> QED BY <1>5, <1>6, <1>7 DEF i, j

\* What a request that commits adds to what is settled, and to what is recorded.
LEMMA CommitSettles ==
  ASSUME InvestInv, InvestTypeOK', NEW q \in Order, NEW to \in InvestEnded,
         order[q].pc = "commit", Moves(q, to, order[q].base), transfer' = transfer, NEW a
  PROVE  /\ SettledBy(a) \in Nat
         /\ SettledBy(a)' = SettledBy(a) + (IF a = order[q].by THEN order[q].amount ELSE 0)
<1>1. /\ \A p \in Order : AmountOf[p] \in Nat /\ AmountOf'[p] = AmountOf[p]
      /\ AmountOf[q] = order[q].amount
  BY OrderTyped DEF InvestInv, AmountOf, Moves
<1>2. Over' = Over \cup {q} /\ q \notin Over /\ transfer[q] = "landed"
  BY DEF Over, Moves, InvestInv, PaidFirst, InInvestRun, InvestEnded
<1>3. SettledOf(a)' = IF a = order[q].by THEN SettledOf(a) \cup {q} ELSE SettledOf(a)
  BY <1>2 DEF SettledOf, Over, Moves
<1>4. SettledOf(a) \subseteq Order /\ q \notin SettledOf(a)
  BY <1>2 DEF SettledOf, Over
<1>5. IsFiniteSet(SettledOf(a))
  BY <1>4, OrderAssumption, FS_Subset
<1> DEFINE S == SettledOf(a)
           f == AmountOf
           g == AmountOf'
<1>6. /\ SettledBy(a) = SumFunctionOnSet(f, S)
      /\ SettledBy(a)' = SumFunctionOnSet(g, SettledOf(a)')
  BY DEF SettledBy
<1>7. /\ \A p \in S : f[p] \in Nat /\ g[p] = f[p] /\ g[p] \in Int
      /\ g[q] = order[q].amount /\ g[q] \in Int /\ g[q] \in Nat
      /\ q \notin S /\ IsFiniteSet(S)
  BY <1>1, <1>4, <1>5
<1> HIDE DEF S, f, g
<1>8. SumFunctionOnSet(f, S) \in Nat /\ SumFunctionOnSet(g, S) = SumFunctionOnSet(f, S)
  BY <1>7, SumIsNat, SumSame
<1>9. SumFunctionOnSet(g, S \cup {q}) = g[q] + SumFunctionOnSet(g, S)
  BY <1>7, SumWith
<1> QED BY <1>3, <1>6, <1>7, <1>8, <1>9 DEF S

LEMMA CommitRecords ==
  ASSUME InvestInv, NEW q \in Order, order[q].pc = "commit", NEW a
  PROVE  LET was == round.prospects
             k == Place(q)
             p == ChangedProspects(q)
         IN  /\ p \in Seq(Prospect)
             /\ Len(was) <= Len(p) /\ \A i \in DOMAIN was : p[i].by = was[i].by
             /\ k # 0 => /\ k \in DOMAIN was /\ k \in DOMAIN order[q].prospects
                         /\ was[k].by = order[q].by /\ Len(p) = Len(was)
                         /\ p[k].amount = order[q].prospects[k].amount + order[q].amount
             /\ \A i \in DOMAIN was : i # k => p[i] = was[i]
             /\ k = 0 => Len(p) = Len(was) + 1 /\ p[Len(was) + 1].by = order[q].by
             /\ RecordedIn(p, a) =
                    IF a # order[q].by THEN RecordedIn(was, a)
                    ELSE IF k = 0 THEN RecordedIn(was, a) + order[q].amount
                    ELSE RecordedIn(was, a) - was[k].amount
                             + order[q].prospects[k].amount + order[q].amount
             /\ SumFunction(AmountsIn(p)) =
                    IF k = 0 THEN SumFunction(AmountsIn(was)) + order[q].amount
                    ELSE SumFunction(AmountsIn(was)) - was[k].amount
                             + (order[q].prospects[k].amount + order[q].amount)
<1> DEFINE was == round.prospects
           k == Place(q)
           p == ChangedProspects(q)
<1>1. /\ was \in Seq(Prospect) /\ order[q].amount \in Nat
      /\ DOMAIN was = 1..Len(was) /\ Len(was) \in Nat
      /\ RecordedIn(was, a) \in Nat /\ SumFunction(AmountsIn(was)) \in Nat
      /\ \A i \in DOMAIN was : was[i].amount \in Nat
  BY RoundTyped, OrderTyped, ProspectsTyped DEF InvestInv
<1>2. order[q].pc \in Investing /\ order[q].by \in Investor
  BY DEF InvestInv, PaidFirst, Investing, InInvestRun
<1>3. CASE k = 0
  <2> DEFINE x == [by |-> order[q].by, amount |-> order[q].amount]
  <2>1. x \in Prospect /\ x.by = order[q].by /\ x.amount = order[q].amount
    BY <1>1, <1>2 DEF Prospect
  <2>2. p = Append(was, x)
    BY <1>3 DEF ChangedProspects
  <2> HIDE DEF x
  <2>3. /\ p \in Seq(Prospect)
        /\ RecordedIn(p, a) = RecordedIn(was, a) + (IF x.by = a THEN x.amount ELSE 0)
        /\ SumFunction(AmountsIn(p)) = SumFunction(AmountsIn(was)) + x.amount
    BY <1>1, <2>1, <2>2, Pushed
  <2>4. /\ Len(p) = Len(was) + 1 /\ p[Len(was) + 1] = x
        /\ \A i \in DOMAIN was : p[i] = was[i]
    BY <1>1, <2>1, <2>2, AppendProperties
  <2> QED BY <1>1, <1>3, <2>1, <2>3, <2>4
<1>4. CASE k # 0
  <2> DEFINE n == order[q].prospects[k].amount + order[q].amount
  <2>1. k \in DOMAIN order[q].prospects /\ order[q].prospects[k].by = order[q].by
    BY <1>4, PlaceIs DEF InvestInv
  <2>2. k \in DOMAIN was /\ was[k].by = order[q].by
    BY <1>1, <1>2, <2>1, OrderTyped DEF InvestInv, ReadsPrefix
  <2>3. order[q].prospects[k].amount \in Nat /\ n \in Nat
    BY <1>1, <2>1, OrderTyped DEF InvestInv
  <2>4. p = [was EXCEPT ![k].amount = n]
    BY <1>4 DEF ChangedProspects
  <2> HIDE DEF n
  <2>5. /\ p \in Seq(Prospect) /\ Len(p) = Len(was) /\ p[k].amount = n
        /\ \A i \in DOMAIN was : p[i].by = was[i].by /\ (i # k => p[i] = was[i])
        /\ RecordedIn(p, a) = IF was[k].by = a THEN RecordedIn(was, a) - was[k].amount + n
                              ELSE RecordedIn(was, a)
        /\ SumFunction(AmountsIn(p)) = SumFunction(AmountsIn(was)) - was[k].amount + n
    <3> HIDE DEF was, k, p
    <3>1. \A b : LET r == [was EXCEPT ![k].amount = n]
               IN  /\ r \in Seq(Prospect) /\ Len(r) = Len(was) /\ r[k].amount = n
                   /\ \A i \in DOMAIN was :
                          r[i].by = was[i].by /\ (i # k => r[i] = was[i])
                   /\ RecordedIn(r, b) =
                          IF was[k].by = b THEN RecordedIn(was, b) - was[k].amount + n
                          ELSE RecordedIn(was, b)
                   /\ SumFunction(AmountsIn(r)) =
                          SumFunction(AmountsIn(was)) - was[k].amount + n
      BY <1>1, <2>2, <2>3, Raised
    <3> QED BY <2>4, <3>1
  <2>6. a = order[q].by => RecordedIn(p, a) = RecordedIn(was, a) - was[k].amount
                               + order[q].prospects[k].amount + order[q].amount
    <3> SUFFICES ASSUME a = order[q].by PROVE RecordedIn(p, a) = RecordedIn(was, a)
            - was[k].amount + order[q].prospects[k].amount + order[q].amount
      OBVIOUS
    <3>1. RecordedIn(p, a) = RecordedIn(was, a) - was[k].amount + n
      BY <2>2, <2>5
    <3>2. n = order[q].prospects[k].amount + order[q].amount /\ was[k].amount \in Nat
      BY <1>1, <2>2 DEF n
    <3> HIDE DEF was, k, p
    <3> QED BY <1>1, <2>3, <3>1, <3>2
  <2> QED BY <1>1, <1>4, <2>1, <2>2, <2>5, <2>6 DEF n
<1> QED BY <1>3, <1>4

LEMMA CommitTyped ==
  ASSUME InvestInv, NEW q \in Order, NEW to \in InvestEnded, order[q].pc = "commit",
         Moves(q, to, order[q].base), InvestCommitted(q),
         UNCHANGED <<transfer, collected, crowded, outages>>
  PROVE  InvestTypeOK' /\ VersionsCount'
<1>1. InvestTypeOK /\ order[q] \in OrderState /\ order[q].by \in Investor
  BY OrderTyped DEF InvestInv, PaidFirst, Investing, InInvestRun
<1>2. /\ Cardinality(Over') = Cardinality(Over) + 1 /\ Cardinality(Over) \in Nat
      /\ Cardinality(Over') <= Cardinality(Order) /\ Cardinality(Order) \in Nat
  <2>1. Over' = Over \cup {q} /\ q \notin Over /\ Over \subseteq Order /\ Over' \subseteq Order
    BY DEF Over, Moves, InvestEnded
  <2>2. IsFiniteSet(Over)
    BY <2>1, OrderAssumption, FS_Subset
  <2>3. Cardinality(Over') = Cardinality(Over) + 1 /\ Cardinality(Over) \in Nat
    BY <2>1, <2>2, FS_AddElement, FS_CardinalityType
  <2>4. Cardinality(Over') <= Cardinality(Order) /\ Cardinality(Order) \in Nat
    BY <2>1, OrderAssumption, FS_Subset, FS_CardinalityType
  <2> QED BY <2>3, <2>4
<1>3. round.version \in Nat /\ round.version <= Cardinality(Over)
  BY <1>1, RoundTyped DEF InvestInv, VersionsCount
<1>4. /\ round'.version \in Nat /\ round'.version <= round.version + 1
      /\ round' = [status |-> round'.status, prospects |-> round'.prospects,
                   version |-> round'.version]
      /\ round'.status \in {"pending", "approved", "declined"}
      /\ round'.prospects \in Seq(Prospect)
  <2>1. round \in [status : {"pending", "approved", "declined"}, prospects : Seq(Prospect),
                   version : 0..Cardinality(Order)]
    BY <1>1, OrdersTyped
  <2>2. CASE ~order[q].offerDirty
    BY <1>3, <2>1, <2>2 DEF InvestCommitted
  <2>3. CASE order[q].offerDirty
    <3>1. round' = [status |-> IF Full(q) THEN "approved" ELSE round.status,
                    prospects |-> ChangedProspects(q),
                    version |-> IF Place(q) = 0 THEN round.version + 1 ELSE round.version]
      BY <2>3 DEF InvestCommitted
    <3>2. ChangedProspects(q) \in Seq(Prospect)
      BY CommitRecords
    <3> QED BY <1>3, <2>1, <3>1, <3>2
  <2> QED BY <2>2, <2>3
<1>5. VersionsCount'
  BY <1>2, <1>3, <1>4 DEF VersionsCount
<1>6. round' \in [status : {"pending", "approved", "declined"}, prospects : Seq(Prospect),
                  version : 0..Cardinality(Order)]
  BY <1>2, <1>3, <1>4
<1>7. receipt' \in [Order -> {"none", "open", "settled"}]
  BY <1>1 DEF InvestCommitted, InvestTypeOK
<1>8. invested' \in [Investor -> Nat \cup {NoMember}]
  <2> DEFINE now == IF order[q].base = NoMember THEN order[q].amount
                    ELSE order[q].base + order[q].amount
  <2>1. now \in Nat
    BY <1>1, OrderTyped DEF OrderState
  <2>2. invested' = [invested EXCEPT ![order[q].by] = now]
    BY DEF InvestCommitted
  <2> QED BY <1>1, <2>1, <2>2 DEF InvestTypeOK
<1> QED BY <1>1, <1>5, <1>6, <1>7, <1>8 DEF InvestTypeOK, Moves, OrderState

LEMMA CommitInvest ==
  ASSUME InvestInv, NEW q \in Order, NEW to \in InvestEnded, order[q].pc = "commit",
         Moves(q, to, order[q].base), InvestCommitted(q),
         UNCHANGED <<transfer, collected, crowded, outages>>
  PROVE  InvestInv'
<1> DEFINE was == round.prospects
           now == round'.prospects
           read == order[q].prospects
           k == Place(q)
           b == order[q].by
           am == order[q].amount
<1>1. InvestTypeOK' /\ VersionsCount'
  BY CommitTyped
<1>2. /\ InvestTypeOK /\ order[q].pc \in Investing /\ order[q].pc \in PastChecks
      /\ b \in Investor /\ am \in Nat /\ transfer[q] = "landed"
  BY OrderTyped DEF InvestInv, PaidFirst, Investing, InInvestRun, PastChecks
<1>3. \A p \in Order : order'[p].pc \in Investing =>
          p # q /\ order'[p] = order[p] /\ order[p].pc \in Investing /\ Place(p)' = Place(p)
  BY DEF Moves, Investing, InInvestRun, InvestEnded, Place
<1>4. \A a : /\ SettledBy(a) \in Nat /\ SettledBy(a)' \in Nat
             /\ SettledBy(a)' = SettledBy(a) + (IF a = b THEN am ELSE 0)
  BY <1>1, <1>2, CommitSettles
<1>5. /\ \A a : RecordedFor(a) = RecordedIn(was, a) /\ RecordedIn(was, a) \in Nat
      /\ \A a : RecordedFor(a)' = RecordedIn(now, a)
      /\ Recorded = SumFunction(AmountsIn(was)) /\ Recorded \in Nat
      /\ Recorded' = SumFunction(AmountsIn(now))
      /\ was \in Seq(Prospect) /\ DOMAIN was = 1..Len(was) /\ Len(was) \in Nat
      /\ now \in Seq(Prospect) /\ DOMAIN now = 1..Len(now) /\ Len(now) \in Nat
      /\ \A i \in DOMAIN was : was[i].amount \in Nat
  <2>1. now \in Seq(Prospect)
    BY <1>1 DEF InvestTypeOK
  <2>2. was \in Seq(Prospect)
    BY <1>2, RoundTyped
  <2>3. /\ \A a : RecordedFor(a) = RecordedIn(was, a) /\ RecordedIn(was, a) \in Nat
        /\ Recorded = SumFunction(AmountsIn(was)) /\ Recorded \in Nat
        /\ \A i \in DOMAIN was : was[i].amount \in Nat
    BY <1>2, <2>2, RoundTyped, RecordedIs
  <2>4. /\ \A a : RecordedFor(a)' = RecordedIn(now, a)
        /\ Recorded' = SumFunction(AmountsIn(now))
    BY DEF RecordedFor, Recorded, RecordedIn, AmountsIn, PlacesOf
  <2> QED BY <2>1, <2>2, <2>3, <2>4
<1>6. k # 0 => /\ k \in DOMAIN read /\ k \in DOMAIN was /\ was[k].by = b
               /\ read[k].amount \in Nat /\ was[k].amount \in Nat
               /\ RecordedIn(was, b) - was[k].amount + read[k].amount <= SettledBy(b)
  BY <1>2, <1>5, CommitRecords, OrderTyped DEF InvestInv, RecordsCovered
<1>7. ~order[q].offerDirty => now = was
  BY DEF InvestCommitted
<1>8. order[q].offerDirty => now = ChangedProspects(q)
  BY DEF InvestCommitted
<1>9. order[q].offerDirty =>
          /\ Len(was) <= Len(now) /\ \A i \in DOMAIN was : now[i].by = was[i].by
          /\ k # 0 => Len(now) = Len(was) /\ now[k].amount = read[k].amount + am
          /\ \A i \in DOMAIN was : i # k => now[i] = was[i]
          /\ k = 0 => Len(now) = Len(was) + 1 /\ now[Len(was) + 1].by = b
          /\ \A a : RecordedIn(now, a) =
                        IF a # b THEN RecordedIn(was, a)
                        ELSE IF k = 0 THEN RecordedIn(was, a) + am
                        ELSE RecordedIn(was, a) - was[k].amount + read[k].amount + am
          /\ SumFunction(AmountsIn(now)) =
                 IF k = 0 THEN SumFunction(AmountsIn(was)) + am
                 ELSE SumFunction(AmountsIn(was)) - was[k].amount + (read[k].amount + am)
  BY <1>8, CommitRecords
<1>10. PaidFirst'
  BY <1>2 DEF InvestInv, PaidFirst, Moves, InvestCommitted, InvestTypeOK, Over, Investing,
              InInvestRun, InvestEnded
<1>11. ReadsPrefix'
  <2> SUFFICES ASSUME NEW p \in Order, order'[p].pc \in Investing
               PROVE  /\ Len(order'[p].prospects) <= Len(now)
                      /\ \A i \in DOMAIN order'[p].prospects :
                             order'[p].prospects[i].by = now[i].by
    BY DEF ReadsPrefix
  <2>1. /\ order'[p] = order[p] /\ Len(order[p].prospects) <= Len(was)
        /\ \A i \in DOMAIN order[p].prospects : order[p].prospects[i].by = was[i].by
        /\ DOMAIN order[p].prospects = 1..Len(order[p].prospects)
        /\ Len(order[p].prospects) \in Nat
    BY <1>2, <1>3, OrderTyped DEF InvestInv, ReadsPrefix
  <2>2. Len(was) <= Len(now) /\ \A i \in DOMAIN was : now[i].by = was[i].by
    BY <1>5, <1>7, <1>9
  <2> QED BY <1>5, <2>1, <2>2
<1>12. invested' = [invested EXCEPT ![b] = IF order[q].base = NoMember THEN am
                                           ELSE order[q].base + am]
       /\ order[q].base \in Nat \cup {NoMember} /\ order[q].base <= SettledBy(b)
  BY OrdersTyped DEF InvestCommitted, InvestInv, RecordsCovered, OrderState
<1>13. RecordsCovered'
  <2>1. ASSUME NEW a \in Investor PROVE RecordedIn(now, a) <= SettledBy(a)'
    <3>1. RecordedIn(was, a) <= SettledBy(a)
      BY <1>5 DEF InvestInv, RecordsCovered
    <3>2. CASE a # b \/ ~order[q].offerDirty
      BY <1>2, <1>4, <1>5, <1>7, <1>9, <3>1, <3>2
    <3>3. CASE a = b /\ order[q].offerDirty /\ k = 0
      BY <1>2, <1>4, <1>5, <1>9, <3>1, <3>3
    <3>4. CASE a = b /\ order[q].offerDirty /\ k # 0
      <4>1. RecordedIn(now, b) = RecordedIn(was, b) - was[k].amount + read[k].amount + am
        BY <1>9, <3>4
      <4> HIDE DEF was, now, read, k, am
      <4> QED BY <1>2, <1>4, <1>5, <1>6, <3>4, <4>1
    <3> QED BY <3>2, <3>3, <3>4
  <2>2. ASSUME NEW a \in Investor PROVE invested'[a] <= SettledBy(a)'
    <3>1. invested[a] <= SettledBy(a) /\ invested[a] \in Int
      BY <1>2 DEF InvestInv, RecordsCovered, InvestTypeOK, NoMember
    <3>2. CASE a # b
      BY <1>2, <1>4, <1>12, <3>1, <3>2 DEF InvestTypeOK
    <3>3. CASE a = b
      <4>1. invested'[a] = IF order[q].base = NoMember THEN am ELSE order[q].base + am
        BY <1>2, <1>12, <3>3 DEF InvestTypeOK
      <4> HIDE DEF am
      <4> QED BY <1>2, <1>4, <1>12, <3>3, <4>1
    <3> QED BY <3>2, <3>3
  <2>3. ASSUME NEW p \in Order, order'[p].pc \in Investing
        PROVE  /\ order'[p] = order[p] /\ order[p].pc \in Investing /\ Place(p)' = Place(p)
               /\ order[p].by \in Investor
               /\ RecordedFor(order[p].by)' = RecordedIn(now, order[p].by)
               /\ SettledBy(order[p].by)' = SettledBy(order[p].by)
                                             + (IF order[p].by = b THEN am ELSE 0)
               /\ SettledBy(order[p].by) \in Nat /\ SettledBy(order[p].by)' \in Nat
    <3>1. order'[p] = order[p] /\ order[p].pc \in Investing /\ Place(p)' = Place(p)
      BY <1>3, <2>3
    <3>2. order[p].by \in Investor
      BY <3>1 DEF InvestInv, PaidFirst
    <3>3. RecordedFor(order[p].by)' = RecordedIn(now, order[p].by)
      BY <3>1 DEF RecordedFor, RecordedIn, AmountsIn, PlacesOf
    <3>4. SettledBy(order[p].by)' = SumFunctionOnSet(AmountOf', {r \in Over' :
              order'[r].by = order[p].by /\ transfer'[r] = "landed"})
      BY <3>1 DEF SettledBy, SettledOf
    <3>5. \A a : SettledBy(a)' = SumFunctionOnSet(AmountOf', {r \in Over' :
                     order'[r].by = a /\ transfer'[r] = "landed"})
      BY DEF SettledBy, SettledOf
    <3> QED BY <1>4, <3>1, <3>2, <3>3, <3>4, <3>5
  <2>4. ASSUME NEW p \in Order, order'[p].pc \in Investing, Place(p)' # 0
        PROVE  (RecordedFor(order[p].by) - round.prospects[Place(p)].amount
                   + order[p].prospects[Place(p)].amount <= SettledBy(order[p].by))'
    <3> DEFINE j == Place(p)
               a == order[p].by
               n == order[p].prospects[j].amount
    <3>1. /\ order'[p] = order[p] /\ order[p].pc \in Investing /\ Place(p)' = j /\ j # 0
          /\ a \in Investor /\ RecordedFor(order[p].by)' = RecordedIn(now, a)
          /\ SettledBy(order[p].by)' = SettledBy(a) + (IF a = b THEN am ELSE 0)
          /\ SettledBy(a) \in Nat
      BY <2>3, <2>4
    <3>2. RecordedIn(was, a) - was[j].amount + n <= SettledBy(a)
      BY <1>5, <3>1 DEF InvestInv, RecordsCovered
    <3>3. /\ j \in DOMAIN order[p].prospects /\ order[p].prospects[j].by = a
          /\ n \in Nat
      BY <1>2, <3>1, PlaceIs, OrderTyped
    <3>4. j \in DOMAIN was /\ was[j].by = a
      BY <1>2, <1>5, <3>1, <3>3, OrderTyped DEF InvestInv, ReadsPrefix
    <3>5. was[j].amount \in Nat /\ RecordedIn(was, a) \in Nat
      BY <1>5, <3>4
    <3>6. RecordedIn(now, a) - now[j].amount + n <= SettledBy(a) + (IF a = b THEN am ELSE 0)
      <4>1. CASE ~order[q].offerDirty
        <5>1. now = was
          BY <1>7, <4>1
        <5> HIDE DEF was, now, j, a, n, am, b
        <5> QED BY <1>2, <3>1, <3>2, <3>3, <3>5, <5>1
      <4>2. CASE order[q].offerDirty /\ (k = 0 \/ a # b)
        <5>1. now[j] = was[j]
          BY <1>6, <1>9, <3>4, <4>2
        <5>2. RecordedIn(now, a) = RecordedIn(was, a) + (IF a = b THEN am ELSE 0)
          BY <1>2, <1>9, <3>5, <4>2
        <5> HIDE DEF was, now, j, a, n, am, b
        <5> QED BY <1>2, <3>1, <3>2, <3>3, <3>5, <5>1, <5>2
      <4>3. CASE order[q].offerDirty /\ k # 0 /\ a = b
        <5>1. j = k
          BY <1>2, <3>1, <4>3, SamePlace
        <5>2. /\ now[j].amount = read[k].amount + am
              /\ RecordedIn(now, a) = RecordedIn(was, a) - was[j].amount + read[k].amount + am
          BY <1>9, <4>3, <5>1
        <5>3. read[k].amount \in Nat
          BY <1>6, <4>3
        <5> HIDE DEF was, now, j, a, n, am, b, read, k
        <5>4. RecordedIn(now, a) - now[j].amount + n = RecordedIn(was, a) - was[j].amount + n
          BY <1>2, <3>3, <3>5, <5>2, <5>3
        <5> QED BY <1>2, <3>1, <3>2, <3>3, <3>5, <5>4
      <4> QED BY <4>1, <4>2, <4>3
    <3> QED BY <3>1, <3>6
  <2>5. ASSUME NEW p \in Order, order'[p].pc \in {"write", "commit"}
        PROVE  (order[p].base <= SettledBy(order[p].by))'
    <3>1. order'[p].pc \in Investing
      BY <2>5 DEF Investing, InInvestRun
    <3>2. /\ order'[p] = order[p]
          /\ SettledBy(order[p].by)' = SettledBy(order[p].by)
                                        + (IF order[p].by = b THEN am ELSE 0)
          /\ SettledBy(order[p].by) \in Nat
      BY <2>3, <3>1
    <3>3. order[p].base <= SettledBy(order[p].by) /\ order[p].base \in Int
      BY <1>2, <2>5, <3>2, OrderTyped DEF InvestInv, RecordsCovered
    <3> QED BY <1>2, <3>2, <3>3
  <2> QED BY <1>5, <2>1, <2>2, <2>4, <2>5 DEF RecordsCovered
<1>14. ASSUME ~crowded
       PROVE  /\ read = was
              /\ \A i, j \in DOMAIN was : was[i].by = was[j].by => i = j
              /\ \A p \in Order : order[p].pc \in Investing => p = q
              /\ order[q].base = invested[b] /\ Recorded + am <= Offered
  BY <1>2, <1>14 DEF InvestInv, InvestsAlone
<1>15. InvestsAlone'
  <2> SUFFICES ASSUME ~crowded, NEW i \in DOMAIN now, NEW j \in DOMAIN now,
                      now[i].by = now[j].by
               PROVE  i = j
    BY <1>3, <1>14 DEF InvestsAlone
  <2>1. CASE order[q].offerDirty /\ k = 0
    <3>1. \A n \in DOMAIN was : was[n].by # b
      BY <1>2, <1>14, <2>1, PlaceIs
    <3>2. \A n \in DOMAIN now : n \in DOMAIN was \/ n = Len(was) + 1
      BY <1>5, <1>9, <2>1
    <3> QED BY <1>9, <1>14, <2>1, <3>1, <3>2
  <2>2. CASE ~order[q].offerDirty \/ k # 0
    <3>1. DOMAIN now = DOMAIN was /\ \A n \in DOMAIN was : now[n].by = was[n].by
      BY <1>5, <1>7, <1>9, <2>2
    <3> QED BY <1>14, <3>1
  <2> QED BY <2>1, <2>2
<1>16. MembersCoverOffer'
  <2> SUFFICES ASSUME ~crowded, NEW a \in Investor, RecordedIn(now, a) > 0
               PROVE  RecordedIn(now, a) <= invested'[a]
    BY <1>5 DEF MembersCoverOffer
  <2>1. RecordedIn(was, a) > 0 => RecordedIn(was, a) <= invested[a]
    BY <1>5 DEF InvestInv, MembersCoverOffer
  <2>2. CASE a # b
    <3>1. RecordedIn(now, a) = RecordedIn(was, a)
      BY <1>7, <1>9, <2>2
    <3>2. invested'[a] = invested[a]
      BY <1>12, <2>2 DEF InvestInv, InvestTypeOK
    <3> QED BY <2>1, <3>1, <3>2
  <2>3. CASE a = b
    <3>1. invested'[a] = IF order[q].base = NoMember THEN am ELSE order[q].base + am
      BY <1>2, <1>12, <2>3 DEF InvestTypeOK
    <3>2. order[q].base = invested[a]
      BY <1>14, <2>3
    <3>3. RecordedIn(now, a) = RecordedIn(was, a) + am \/ RecordedIn(now, a) = RecordedIn(was, a)
      <4>1. CASE ~order[q].offerDirty
        BY <1>7, <4>1
      <4>2. CASE order[q].offerDirty /\ k = 0
        BY <1>9, <2>3, <4>2
      <4>3. CASE order[q].offerDirty /\ k # 0
        <5>1. read[k].amount = was[k].amount
          BY <1>14
        <5>2. RecordedIn(now, a) = RecordedIn(was, a) - was[k].amount + read[k].amount + am
          BY <1>9, <2>3, <4>3
        <5>3. was[k].amount \in Nat /\ RecordedIn(was, a) \in Nat
          BY <1>5, <1>6, <4>3
        <5> HIDE DEF was, now, read, k, am
        <5> QED BY <1>2, <5>1, <5>2, <5>3
      <4> QED BY <4>1, <4>2, <4>3
    <3>4. RecordedIn(was, a) \in Nat /\ am \in Nat
      BY <1>2, <1>5
    <3> HIDE DEF was, now, am
    <3> QED BY <1>12, <2>1, <3>1, <3>2, <3>3, <3>4 DEF NoMember
  <2> QED BY <2>2, <2>3
<1>17. InvestedWithinOffer'
  <2> SUFFICES ASSUME ~crowded PROVE SumFunction(AmountsIn(now)) <= Offered
    BY <1>5 DEF InvestedWithinOffer
  <2>1. Recorded + am <= Offered /\ Recorded <= Offered /\ read = was
    BY <1>14 DEF InvestInv, InvestedWithinOffer
  <2>2. SumFunction(AmountsIn(now)) = Recorded \/ SumFunction(AmountsIn(now)) = Recorded + am
    <3>1. CASE ~order[q].offerDirty
      BY <1>5, <1>7, <3>1
    <3>2. CASE order[q].offerDirty /\ k = 0
      BY <1>5, <1>9, <3>2
    <3>3. CASE order[q].offerDirty /\ k # 0
      <4>1. SumFunction(AmountsIn(now)) = Recorded - was[k].amount + (read[k].amount + am)
        BY <1>5, <1>9, <3>3
      <4>2. was[k].amount \in Nat /\ read[k].amount = was[k].amount
        BY <1>6, <2>1, <3>3
      <4> HIDE DEF was, now, read, k, am
      <4> QED BY <1>2, <1>5, <4>1, <4>2
    <3> QED BY <3>1, <3>2, <3>3
  <2> QED BY <2>1, <2>2
<1> QED BY <1>1, <1>10, <1>11, <1>13, <1>15, <1>16, <1>17 DEF InvestInv

(***************************************************************************)
(* Investments: theorems.                                                  *)
(***************************************************************************)

LEMMA InvestStarts == InvestInit => InvestInv
<1> SUFFICES ASSUME InvestInit PROVE InvestInv
  OBVIOUS
<1>1. <<>> \in Seq(Prospect) /\ Len(<<>>) = 0 /\ DOMAIN <<>> = {} /\ round.prospects = <<>>
  BY DEF InvestInit
<1>2. InvestTypeOK
  <2>1. 0 \in 0..Cardinality(Order) /\ 0 \in 0..MaxInvestRun /\ 0 \in 0..MaxInvestCrash
    BY OrderAssumption, FS_CardinalityType, InvestBoundAssumption
  <2>2. round \in [status : {"pending", "approved", "declined"}, prospects : Seq(Prospect),
                   version : 0..Cardinality(Order)]
    BY <1>1, <2>1 DEF InvestInit
  <2>3. order \in [Order -> OrderState]
    BY <1>1, <2>1 DEF InvestInit, OrderState
  <2>4. invested \in [Investor -> Nat \cup {NoMember}]
    BY DEF InvestInit
  <2> QED BY <2>1, <2>2, <2>3, <2>4, OrdersTyped DEF InvestInit
<1>3. \A q \in Order : order[q].pc = "idle" /\ order[q].by = NoInvestor
                        /\ receipt[q] = "none"
  BY DEF InvestInit
<1>4. Over = {}
  BY <1>3 DEF Over, InvestEnded
<1>5. \A a : SettledBy(a) = 0
  <2> TAKE a
  <2>1. SettledOf(a) = {}
    BY <1>4 DEF SettledOf
  <2> QED BY <2>1, SumOfNone DEF SettledBy
<1>6. (\A a : RecordedFor(a) = 0) /\ Recorded = 0
  <2>1. \A a : PlacesOf(round.prospects, a) = {}
    BY <1>1 DEF PlacesOf
  <2>2. \A a : RecordedFor(a) = SumFunctionOnSet(AmountsIn(round.prospects), {})
    BY <2>1, RecordedIs DEF RecordedIn
  <2>3. Recorded = SumFunctionOnSet(AmountsIn(round.prospects), {})
    BY <1>1, RecordedIs, ProspectsTyped
  <2> QED BY <2>2, <2>3, SumOfNone
<1>7. PaidFirst
  BY <1>3 DEF PaidFirst, Investing, InInvestRun
<1>8. VersionsCount
  BY <1>4, FS_EmptySet DEF VersionsCount, InvestInit
<1>9. ReadsPrefix
  BY <1>3 DEF ReadsPrefix, Investing, InInvestRun
<1>10. RecordsCovered
  BY <1>3, <1>5, <1>6 DEF RecordsCovered, Investing, InInvestRun, InvestInit, NoMember
<1>11. InvestsAlone
  BY <1>1, <1>3 DEF InvestsAlone, Investing, InInvestRun
<1>12. MembersCoverOffer /\ InvestedWithinOffer
  BY <1>6, AmountAssumption DEF MembersCoverOffer, InvestedWithinOffer
<1> QED BY <1>2, <1>7, <1>8, <1>9, <1>10, <1>11, <1>12 DEF InvestInv

LEMMA InvestSteps == InvestInv /\ [InvestNext]_investVars => InvestInv'
<1> SUFFICES ASSUME InvestInv, [InvestNext]_investVars PROVE InvestInv'
  OBVIOUS
<1>1. ASSUME NEW q \in Order, NEW account \in Investor, NEW amount \in Amounts,
             ReadsInvestOffer(q, account, amount)
      PROVE  InvestInv'
  BY <1>1, ReadsInvest, RefusedInvest
<1>2. ASSUME NEW q \in Order, CommitsInvest(q) PROVE InvestInv'
  <2>1. Moves(q, "done", order[q].base) /\ "done" \in InvestEnded
    BY <1>2, InvestGoesMoves DEF CommitsInvest, InvestInv, InvestEnded
  <2> QED BY <1>2, <2>1, CommitInvest DEF CommitsInvest
<1>3. ASSUME NEW q \in Order, InvestCommitFails(q) PROVE InvestInv'
  <2>1. /\ Moves(q, "failed", order[q].base) /\ "failed" \in InvestEnded
        /\ order[q].pc = "commit" /\ order[q].pc \in Investing
        /\ UNCHANGED <<transfer, collected, crowded, outages>>
    BY <1>3, InvestGoesMoves DEF InvestCommitFails, InvestInv, InvestEnded, Investing, InInvestRun
  <2>2. CASE InvestCommitted(q)
    BY <2>1, <2>2, CommitInvest
  <2>3. CASE UNCHANGED <<round, receipt, invested>>
    <3>1. /\ transfer \in [Order -> {"unsent", "inflight", "landed", "failed", "expired"}]
          /\ receipt \in [Order -> {"none", "open", "settled"}]
          /\ round \in [status : {"pending", "approved", "declined"},
                        prospects : Seq(Prospect), version : 0..Cardinality(Order)]
          /\ collected \in [Order -> SUBSET (1..Batches)]
      BY OrdersTyped DEF InvestInv
    <3> QED BY <2>1, <2>3, <3>1, QuietMove DEF InInvestRun, PastChecks
  <2> QED BY <1>3, <2>2, <2>3 DEF InvestCommitFails
<1>4. CASE InvestCrash
  BY <1>4, CrashInvest
<1>5. CASE UNCHANGED investVars
  <2>1. InvestTypeOK'
    BY <1>5 DEF investVars, InvestInv, InvestTypeOK
  <2>2. \A p \in Order : Quiet(p)
    BY <1>5 DEF investVars, Quiet, InvestInv, PaidFirst, PastChecks, Investing, InInvestRun
  <2> QED BY <1>5, <2>1, <2>2, QuietInvest DEF investVars
<1> QED BY <1>1, <1>2, <1>3, <1>4, <1>5, QuietStepsInvest, SettlesInvest DEF InvestNext

LEMMA InvestAlways == InvestSpec => []InvestInv
  BY InvestStarts, InvestSteps, PTL DEF InvestSpec

\* Every variable of an offer to investors keeps its type, for any investors, amounts,
\* requests, runs of the callback and restarts (updateInvestOfferStatus).
THEOREM InvestmentsTyped == InvestSpec => []InvestTypeOK
  BY InvestAlways, PTL DEF InvestInv

\* The offer and the members record no more than was paid, and a receipt that is
\* settled was paid, although both are written from documents that were read before
\* (updateInvestOfferStatus, handleInvestmentPayment).
THEOREM PaidInvestments == InvestSpec => []InvestmentsArePaid
<1>1. InvestInv => InvestmentsArePaid
  <2> SUFFICES ASSUME InvestInv PROVE InvestmentsArePaid
    OBVIOUS
  <2>1. ASSUME NEW a \in Investor PROVE RecordedFor(a) <= PaidBy(a) /\ invested[a] <= PaidBy(a)
    <3> DEFINE S == {q \in Order : order[q].by = a /\ transfer[q] = "landed"}
    <3>1. IsFiniteSet(S) /\ SettledOf(a) \in SUBSET S /\ IsFiniteSet(SettledOf(a))
      <4>1. S \subseteq Order /\ SettledOf(a) \subseteq S
        BY DEF SettledOf, Over
      <4> QED BY <4>1, OrderAssumption, FS_Subset
    <3>2. \A q \in S : AmountOf[q] \in Nat
      BY OrderTyped DEF AmountOf, InvestInv
    <3>3. PaidBy(a) = SumFunctionOnSet(AmountOf, S)
      BY DEF PaidBy
    <3> HIDE DEF S
    <3>4. SettledBy(a) <= PaidBy(a)
      BY <3>1, <3>2, <3>3, SumGrows DEF SettledBy
    <3>5. PaidBy(a) \in Nat /\ SettledBy(a) \in Nat
      BY <3>1, <3>2, <3>3, SumIsNat DEF SettledBy
    <3>6. RecordedFor(a) \in Nat /\ invested[a] \in Int
      BY RoundTyped DEF InvestInv, InvestTypeOK, NoMember
    <3>7. RecordedFor(a) <= SettledBy(a) /\ invested[a] <= SettledBy(a)
      BY DEF InvestInv, RecordsCovered
    <3> QED BY <3>4, <3>5, <3>6, <3>7
  <2> QED BY <2>1 DEF InvestmentsArePaid, InvestInv, PaidFirst
<1> QED BY <1>1, InvestAlways, PTL

\* A member has invested whatever the offer records for the account, unless two
\* requests were at work at once (updateInvestOfferStatus).
THEOREM MembersCover == InvestSpec => []MembersCoverOffer
  BY InvestAlways, PTL DEF InvestInv

\* No more is recorded than was offered, unless two requests were at work at once: the
\* check before anything is paid is enough for one (updateInvestOfferStatus).
THEOREM InvestedWithin == InvestSpec => []InvestedWithinOffer
  BY InvestAlways, PTL DEF InvestInv

(***************************************************************************)
(* Member offers: what batches take.                                       *)
(***************************************************************************)

\* What the first n items of a plan give.
GivenUpTo(gives, n) == SumFunctionOnSet(AmountsIn(gives), {i \in DOMAIN gives : i <= n})

\* The places of a plan are finitely many, and its amounts natural numbers.
LEMMA PlanTyped ==
  ASSUME NEW gives \in Seq(Give)
  PROVE  /\ DOMAIN gives = 1..Len(gives) /\ Len(gives) \in Nat
         /\ \A I \in SUBSET DOMAIN gives : IsFiniteSet(I)
         /\ DOMAIN AmountsIn(gives) = DOMAIN gives
         /\ \A i \in DOMAIN gives : /\ AmountsIn(gives)[i] = gives[i].amount
                                    /\ AmountsIn(gives)[i] \in Nat
<1>1. DOMAIN gives = 1..Len(gives) /\ Len(gives) \in Nat
  OBVIOUS
<1>2. IsFiniteSet(DOMAIN gives)
  BY <1>1, FS_Interval
<1>3. \A I \in SUBSET DOMAIN gives : IsFiniteSet(I)
  BY <1>2, FS_Subset
<1>4. ASSUME NEW i \in DOMAIN gives
      PROVE  AmountsIn(gives)[i] = gives[i].amount /\ AmountsIn(gives)[i] \in Nat
  <2>1. gives[i] \in Give
    BY <1>1
  <2>2. gives[i].amount \in Nat
    BY <2>1 DEF Give
  <2> QED BY <2>2 DEF AmountsIn
<1>5. DOMAIN AmountsIn(gives) = DOMAIN gives
  BY DEF AmountsIn
<1> QED BY <1>1, <1>3, <1>4, <1>5

\* The total of a plan is the sum of its amounts.
LEMMA TotalIs ==
  ASSUME NEW gives \in Seq(Give)
  PROVE  /\ Total(gives) = SumFunctionOnSet(AmountsIn(gives), DOMAIN gives)
         /\ Total(gives) \in Nat
<1>1. Total(gives) = SumFunction(AmountsIn(gives))
  BY DEF Total, AmountsIn
<1>2. SumFunction(AmountsIn(gives)) = SumFunctionOnSet(AmountsIn(gives), DOMAIN gives)
  BY PlanTyped DEF SumFunction
<1> QED BY <1>1, <1>2, GivenIsNat

\* Nothing is given by no items, and everything by all of them.
LEMMA GivenEnds ==
  ASSUME NEW gives \in Seq(Give), NEW n \in Nat
  PROVE  /\ GivenUpTo(gives, n) \in Nat
         /\ n = 0 => GivenUpTo(gives, n) = 0
         /\ n >= Len(gives) => GivenUpTo(gives, n) = Total(gives)
<1> DEFINE I == {i \in DOMAIN gives : i <= n}
<1>1. GivenUpTo(gives, n) \in Nat
  <2>1. I \in SUBSET DOMAIN gives
    OBVIOUS
  <2>2. IsFiniteSet(I)
    BY <2>1, PlanTyped
  <2>3. \A i \in I : AmountsIn(gives)[i] \in Nat
    BY PlanTyped
  <2>4. SumFunctionOnSet(AmountsIn(gives), I) \in Nat
    <3> HIDE DEF I
    <3> QED BY <2>2, <2>3, SumIsNat
  <2> QED BY <2>4 DEF GivenUpTo
<1>2. ASSUME n = 0 PROVE GivenUpTo(gives, n) = 0
  <2>1. I = {}
    BY <1>2, PlanTyped
  <2> QED BY <2>1, SumOfNone DEF GivenUpTo
<1>3. ASSUME n >= Len(gives) PROVE GivenUpTo(gives, n) = Total(gives)
  <2>1. \A i \in DOMAIN gives : i <= n
    <3>1. DOMAIN gives = 1..Len(gives) /\ Len(gives) \in Nat
      BY PlanTyped
    <3> QED BY <1>3, <3>1
  <2>2. I = DOMAIN gives
    BY <2>1
  <2> QED BY <2>2, TotalIs DEF GivenUpTo
<1> QED BY <1>1, <1>2, <1>3

\* A batch gives what the items after n give, up to its last one.
LEMMA GivenByBatch ==
  ASSUME NEW gives \in Seq(Give), NEW n \in Nat, NEW last \in Nat, n <= last,
         last <= Len(gives)
  PROVE  /\ SubSeq(gives, n + 1, last) \in Seq(Give)
         /\ GivenUpTo(gives, last) = GivenUpTo(gives, n) + Total(SubSeq(gives, n + 1, last))
<1> DEFINE batch == SubSeq(gives, n + 1, last)
           k == last - n
           g == AmountsIn(gives)
           f == AmountsIn(batch)
           I == {i \in DOMAIN gives : i <= n}
           J == (n + 1)..(n + k)
<1>1. k \in Nat /\ n + k = last
  OBVIOUS
<1>2. DOMAIN gives = 1..Len(gives) /\ Len(gives) \in Nat
  BY PlanTyped
<1>3. /\ batch \in Seq(Give) /\ Len(batch) = k
      /\ \A i \in 1..k : batch[i] = gives[n + i]
  <2>1. \A i \in (n + 1)..last : gives[i] \in Give
    BY <1>2
  <2>2. /\ SubSeq(gives, n + 1, last) \in Seq(Give)
        /\ Len(SubSeq(gives, n + 1, last)) =
               IF n + 1 <= last THEN last - (n + 1) + 1 ELSE 0
        /\ \A i \in 1..(last - (n + 1) + 1) : SubSeq(gives, n + 1, last)[i] = gives[n + 1 + i - 1]
    BY <2>1, SubSeqProperties
  <2>3. (IF n + 1 <= last THEN last - (n + 1) + 1 ELSE 0) = k /\ last - (n + 1) + 1 = k
    OBVIOUS
  <2>4. \A i \in 1..k : n + 1 + i - 1 = n + i
    OBVIOUS
  <2> HIDE DEF k
  <2> QED BY <2>2, <2>3, <2>4
<1>4. \A i \in 1..k : f[i] \in Int /\ f[i] = g[n + i]
  <2> SUFFICES ASSUME NEW i \in 1..k PROVE f[i] \in Int /\ f[i] = g[n + i]
    OBVIOUS
  <2>1. i \in DOMAIN batch /\ n + i \in DOMAIN gives
    BY <1>1, <1>2, <1>3
  <2>2. f[i] = batch[i].amount /\ f[i] \in Nat /\ g[n + i] = gives[n + i].amount
    BY <1>3, <2>1, PlanTyped
  <2> QED BY <1>3, <2>2
<1>5. Total(batch) = SumFunctionOnSet(f, 1..k)
  <2>1. DOMAIN batch = 1..k
    BY <1>3, PlanTyped
  <2> HIDE DEF k, batch
  <2>2. Total(batch) = SumFunctionOnSet(AmountsIn(batch), DOMAIN batch)
    BY <1>3, TotalIs
  <2> QED BY <2>1, <2>2
<1>6. SumFunctionOnSet(f, 1..k) = SumFunctionOnSet(g, J)
  <2>1. k \in Nat /\ Shifted(f, g, n, k)
    BY <1>1, <1>4 DEF Shifted
  <2> HIDE DEF f, g, k
  <2> QED BY <2>1, SumShifted
<1>7. /\ {i \in DOMAIN gives : i <= last} = I \cup J /\ I \cap J = {}
      /\ I \in SUBSET DOMAIN gives /\ J \in SUBSET DOMAIN gives
  BY <1>1, <1>2
<1>8. IsFiniteSet(I) /\ IsFiniteSet(J) /\ \A i \in I \cup J : g[i] \in Int
  BY <1>7, PlanTyped
<1>9. SumFunctionOnSet(g, I \cup J) = SumFunctionOnSet(g, I) + SumFunctionOnSet(g, J)
  <2> HIDE DEF I, J, g
  <2> QED BY <1>7, <1>8, SumOfUnion
<1> QED BY <1>3, <1>5, <1>6, <1>7, <1>9 DEF GivenUpTo

\* One item more gives what it gives.
LEMMA GivenOneMore ==
  ASSUME NEW gives \in Seq(Give), NEW give \in Give
  PROVE  Total(Append(gives, give)) = Total(gives) + give.amount
<1> DEFINE more == Append(gives, give)
           n == Len(gives) + 1
           f == AmountsIn(gives)
           g == AmountsIn(more)
<1>1. /\ more \in Seq(Give) /\ n \in Nat /\ DOMAIN gives = 1..Len(gives)
      /\ DOMAIN more = DOMAIN gives \cup {n} /\ n \notin DOMAIN gives
      /\ more[n] = give /\ \A i \in DOMAIN gives : more[i] = gives[i]
  <2>1. /\ more \in Seq(Give) /\ Len(more) = n /\ more[n] = give
        /\ \A i \in 1..Len(gives) : more[i] = gives[i]
    BY AppendProperties
  <2>2. DOMAIN more = 1..n /\ DOMAIN gives = 1..Len(gives) /\ Len(gives) \in Nat
    BY <2>1, PlanTyped
  <2>3. 1..n = (1..Len(gives)) \cup {n} /\ n \notin 1..Len(gives)
    BY <2>2, IntervalGrows
  <2> QED BY <2>1, <2>2, <2>3
<1>2. /\ \A i \in DOMAIN gives : g[i] \in Int /\ g[i] = f[i]
      /\ g[n] = give.amount /\ g[n] \in Int
  <2>1. \A i \in DOMAIN more : g[i] = more[i].amount /\ g[i] \in Nat
    BY <1>1, PlanTyped
  <2>2. \A i \in DOMAIN gives : f[i] = gives[i].amount
    BY PlanTyped
  <2> QED BY <1>1, <2>1, <2>2
<1>3. IsFiniteSet(DOMAIN gives)
  BY PlanTyped
<1> HIDE DEF more, n, f, g
<1>4. SumFunctionOnSet(g, DOMAIN gives \cup {n}) = g[n] + SumFunctionOnSet(g, DOMAIN gives)
  BY <1>1, <1>2, <1>3, SumWith
<1>5. SumFunctionOnSet(g, DOMAIN gives) = SumFunctionOnSet(f, DOMAIN gives)
  BY <1>2, <1>3, SumSame
<1>6. /\ Total(more) = SumFunctionOnSet(g, DOMAIN more)
      /\ Total(gives) = SumFunctionOnSet(f, DOMAIN gives) /\ Total(gives) \in Nat
  BY <1>1, TotalIs DEF f, g
<1>7. Total(more) = g[n] + Total(gives)
  BY <1>1, <1>4, <1>5, <1>6
<1> QED BY <1>2, <1>6, <1>7 DEF more

\* The batch whose turn it is gives what lies between one place and the next.
LEMMA BatchGives ==
  ASSUME MemberInv, NEW q \in Answer, answer[q].pos < Len(answer[q].plan)
  PROVE  /\ BatchOf(q) \in Seq(Give)
         /\ GivenUpTo(answer[q].plan, answer[q].pos + BatchSize)
                = GivenUpTo(answer[q].plan, answer[q].pos) + Total(BatchOf(q))
<1> DEFINE plan == answer[q].plan
           pos == answer[q].pos
           last == Min({pos + BatchSize, Len(plan)})
<1>1. plan \in Seq(Give) /\ pos \in Nat /\ pos < Len(plan) /\ Len(plan) \in Nat
  BY DEF MemberInv, MemberTypeOK, AnswerState
<1>2. BatchSize \in Nat
  BY MemberOfferAssumption
<1>3. BatchOf(q) = SubSeq(plan, pos + 1, last)
  BY DEF BatchOf
<1> HIDE DEF plan, pos
<1>4. \/ last = pos + BatchSize /\ pos + BatchSize <= Len(plan)
      \/ last = Len(plan) /\ Len(plan) <= pos + BatchSize
  <2> DEFINE a == pos + BatchSize
             b == Len(plan)
  <2>1. a \in Int /\ b \in Int
    BY <1>1, <1>2
  <2> HIDE DEF a, b
  <2>2. \E x \in {a, b} : \A y \in {a, b} : x <= y
    BY <2>1
  <2>3. last = Min({a, b})
    BY DEF a, b
  <2>4. last \in {a, b} /\ last <= a /\ last <= b
    BY <2>2, <2>3 DEF Min
  <2>5. \/ last = a /\ a <= b
        \/ last = b /\ b <= a
    BY <2>4
  <2> HIDE DEF last
  <2> QED BY <2>5 DEF a, b
<1> HIDE DEF last
<1>5. last \in Nat /\ pos <= last /\ last <= Len(plan) /\ pos + BatchSize \in Nat
  BY <1>1, <1>2, <1>4
<1>6. /\ SubSeq(plan, pos + 1, last) \in Seq(Give)
      /\ GivenUpTo(plan, last) = GivenUpTo(plan, pos) + Total(SubSeq(plan, pos + 1, last))
  BY <1>1, <1>5, GivenByBatch
<1>7. GivenUpTo(plan, pos + BatchSize) = GivenUpTo(plan, last)
  <2>1. CASE last = pos + BatchSize
    BY <2>1
  <2>2. CASE last = Len(plan) /\ Len(plan) <= pos + BatchSize
    BY <1>1, <1>5, <2>2, GivenEnds
  <2> QED BY <1>4, <2>1, <2>2
<1>8. /\ BatchOf(q) \in Seq(Give)
      /\ GivenUpTo(plan, pos + BatchSize) = GivenUpTo(plan, pos) + Total(BatchOf(q))
  BY <1>3, <1>6, <1>7
<1> QED BY <1>8 DEF plan, pos

(***************************************************************************)
(* Member offers: what is given and promised, request by request.          *)
(***************************************************************************)

\* Attempts of request q that may still land, and what they take if they do.
Sent(q) == {t \in inflight : t.by = q}

Due(q) == SumFunctionOnSet([t \in Sent(q) |-> Total(t.gives)], Sent(q))

\* The members whose balance was read.
Known(r, note) == DOMAIN note.base \ r.todo

\* The percentage of what the members D held, and what rounding may add or take.
Promised(note, D) == offer.equity * SumFunctionOnSet(note.base, D)
Rounding(D) == 50 * Cardinality(D)

Enough(note) ==
    100 * note.taken >= Promised(note, DOMAIN note.base) - Rounding(DOMAIN note.base)

NotMore(note, due) ==
    100 * (note.taken + due) <= Promised(note, DOMAIN note.base) + Rounding(DOMAIN note.base)

\* How far the plan was carried out: a batch counts from when it was found, and was
\* sent with its first broadcast.
Found(r) == GivenUpTo(r.plan, r.pos + IF r.found THEN BatchSize ELSE 0)
Broadcast(r) == GivenUpTo(r.plan, r.pos + IF r.sends = 0 THEN 0 ELSE BatchSize)

FirstRun(r) == r.run = 1 /\ r.pc = "collect"

\* The callback that took the equity ended with the member saved.
Carried(r) == r.pc = "commit" \/ (r.pc \in {"save", "done"} /\ r.accepts /\ r.lite)

\* What the callback computes belongs to it, and a batch is sent after all balances.
Orderly(r) ==
    /\ r.pc # "collect" => r.plan = <<>>
    /\ r.pc # "collect" \/ r.todo # {} => r.pos = 0 /\ r.sends = 0
    /\ r.sends > 0 => r.pos < Len(r.plan)
    /\ r.found => r.sends > 0
    /\ r.run >= 1 /\ (r.pc = "idle" => r.run = 1)
    /\ r.pc = "insert" => ~r.lite

\* Nothing was sent before all balances were read once.
BeforeSending(r) == r.run = 1 /\ (\/ r.pc \in {"idle", "read", "prepare"}
                                  \/ r.pc = "collect" /\ r.todo # {})

\* Balances that are still to be read are what they were.
Stands(r, note) ==
    FirstRun(r) => /\ r.todo \subseteq DOMAIN note.base
                   /\ \A m \in r.todo : shares[m] = note.base[m]

\* What was planned is enough, what was found to have landed was taken, and so what
\* the whole callback took is enough.
TakesEnough(r, note) ==
    ~note.short =>
        /\ FirstRun(r) =>
               /\ 100 * Total(r.plan) >= Promised(note, Known(r, note)) - Rounding(Known(r, note))
               /\ note.taken >= Found(r)
        /\ r.run > 1 \/ Carried(r) => Enough(note)

\* What was taken, may still be taken and is still to be sent is not too much.
TakesNoMore(r, note, due) ==
    ~note.resent /\ r.run = 1 =>
        /\ FirstRun(r) =>
               100 * (note.taken + due + Total(r.plan) - Broadcast(r))
                   <= Promised(note, Known(r, note)) + Rounding(Known(r, note))
        /\ Carried(r) => NotMore(note, due)

Fair(q) == /\ Stands(answer[q], noted[q])
           /\ TakesEnough(answer[q], noted[q])
           /\ TakesNoMore(answer[q], noted[q], Due(q))

EquityInv ==
    /\ IsFiniteSet(inflight)
    /\ \A q \in Answer : /\ Orderly(answer[q])
                         /\ answer[q].pc # "idle" => offer.status # "none"
                         /\ BeforeSending(answer[q]) => Sent(q) = {}
    /\ ~disturbed => \A q \in Answer : Fair(q)

(***************************************************************************)
(* Member offers: one request moves on.                                    *)
(***************************************************************************)

\* What is due is a sum of natural numbers.
LEMMA DueTyped ==
  ASSUME MemberInv, EquityInv, NEW q \in Answer
  PROVE  /\ IsFiniteSet(Sent(q)) /\ Due(q) \in Nat
         /\ \A t \in Sent(q) : Total(t.gives) \in Nat
<1>1. IsFiniteSet(Sent(q))
  <2>1. Sent(q) \subseteq inflight
    BY DEF Sent
  <2> QED BY <2>1, FS_Subset DEF EquityInv
<1>2. \A t \in Sent(q) : Total(t.gives) \in Nat
  <2> SUFFICES ASSUME NEW t \in Sent(q) PROVE Total(t.gives) \in Nat
    OBVIOUS
  <2>1. t.gives \in Seq(Give)
    BY DEF Sent, MemberInv, MemberTypeOK, AttemptState
  <2> QED BY <2>1, TotalIs
<1> DEFINE f == [t \in Sent(q) |-> Total(t.gives)]
<1>3. \A t \in Sent(q) : f[t] \in Nat
  BY <1>2
<1> HIDE DEF f
<1>4. SumFunctionOnSet(f, Sent(q)) \in Nat
  BY <1>1, <1>3, SumIsNat
<1> QED BY <1>1, <1>2, <1>4 DEF Due, f

\* What the members held is a function to natural numbers on a finite set.
LEMMA BaseTyped ==
  ASSUME NEW note \in NoteState, NEW D \in SUBSET DOMAIN note.base
  PROVE  /\ IsFiniteSet(D) /\ \A m \in D : note.base[m] \in Nat
         /\ SumFunctionOnSet(note.base, D) \in Nat /\ Cardinality(D) \in Nat
<1>1. PICK P \in SUBSET Party : note.base \in [P -> Nat]
  BY DEF NoteState
<1>2. IsFiniteSet(D)
  <2>1. D \subseteq Party
    BY <1>1
  <2> QED BY <2>1, MemberOfferAssumption, FS_Subset
<1>3. \A m \in D : note.base[m] \in Nat
  BY <1>1
<1>4. SumFunctionOnSet(note.base, D) \in Nat
  BY <1>2, <1>3, SumIsNat
<1> QED BY <1>2, <1>3, <1>4, FS_CardinalityType

\* What is promised does not change with what is not the equity.
LEMMA PromisedIs ==
  ASSUME MemberInv, NEW note \in NoteState, NEW D \in SUBSET DOMAIN note.base
  PROVE  /\ offer.equity \in Nat
         /\ Promised(note, D) = offer.equity * SumFunctionOnSet(note.base, D)
         /\ Promised(note, D) \in Nat /\ Rounding(D) \in Nat
<1>1. offer.equity \in Nat
  BY DEF MemberInv, MemberTypeOK, OfferState
<1>2. SumFunctionOnSet(note.base, D) \in Nat /\ Cardinality(D) \in Nat
  BY BaseTyped
<1>3. offer.equity * SumFunctionOnSet(note.base, D) \in Nat
  BY <1>1, <1>2
<1>4. 50 * Cardinality(D) \in Nat
  BY <1>2
<1> QED BY <1>1, <1>3, <1>4 DEF Promised, Rounding

\* A step of one request, which leaves the shares and the other requests as they
\* are, is to keep what holds of this one.
LEMMA OneMoves ==
  ASSUME MemberInv, EquityInv, NEW q \in Answer, NEW x,
         answer' = [answer EXCEPT ![q] = x],
         offer'.equity = offer.equity, offer.status # "none" => offer'.status # "none",
         answer[q].pc # "idle" \/ offer.status # "none",
         IsFiniteSet(inflight'), \A t \in inflight : t.by # q => t \in inflight',
         \A t \in inflight' : t.by # q => t \in inflight,
         disturbed' \in BOOLEAN, disturbed => disturbed',
         ~disturbed' => /\ \A p \in Answer : p # q => noted'[p] = noted[p]
                        /\ \A p \in AtWork : p # q => shares' = shares,
         Orderly(x), BeforeSending(x) => Sent(q)' = {},
         ~disturbed' => Fair(q)'
  PROVE  EquityInv'
<1>1. answer'[q] = x /\ \A p \in Answer : p # q => answer'[p] = answer[p]
  BY DEF MemberInv, MemberTypeOK
<1>2. \A p \in Answer : p # q => Sent(p)' = Sent(p)
  BY DEF Sent
<1>3. ASSUME NEW p \in Answer
      PROVE  /\ Orderly(answer'[p])
             /\ answer'[p].pc # "idle" => offer'.status # "none"
             /\ BeforeSending(answer'[p]) => Sent(p)' = {}
  <2>1. CASE p = q
    <3>1. offer.status # "none"
      BY DEF EquityInv
    <3> QED BY <1>1, <2>1, <3>1
  <2>2. CASE p # q
    BY <1>1, <1>2, <2>2 DEF EquityInv
  <2> QED BY <2>1, <2>2
<1>4. ASSUME ~disturbed', NEW p \in Answer PROVE Fair(p)'
  <2>1. CASE p = q
    BY <1>4, <2>1
  <2>2. CASE p # q
    <3>1. answer'[p] = answer[p] /\ noted'[p] = noted[p] /\ Sent(p)' = Sent(p)
      BY <1>1, <1>2, <1>4, <2>2
    <3>2. Due(p)' = Due(p)
      BY <3>1 DEF Due
    <3>3. Fair(p)
      BY <1>4 DEF EquityInv
    <3>4. \A note, D : Promised(note, D)' = Promised(note, D)
      BY DEF Promised
    <3>5. Stands(answer[p], noted[p])'
      <4>1. CASE FirstRun(answer[p])
        <5>1. p \in AtWork
          BY <4>1 DEF FirstRun, AtWork, Working
        <5>2. shares' = shares
          BY <1>4, <2>2, <5>1
        <5> QED BY <3>1, <3>3, <5>2 DEF Stands, Fair
      <4>2. CASE ~FirstRun(answer[p])
        BY <3>1, <4>2 DEF Stands
      <4> QED BY <4>1, <4>2
    <3>6. TakesEnough(answer[p], noted[p])'
      BY <3>1, <3>3, <3>4 DEF TakesEnough, Enough, Fair
    <3>7. TakesNoMore(answer[p], noted[p], Due(p))'
      BY <3>1, <3>2, <3>3, <3>4 DEF TakesNoMore, NotMore, Fair
    <3> QED BY <3>5, <3>6, <3>7 DEF Fair
  <2> QED BY <2>1, <2>2
<1> QED BY <1>3, <1>4 DEF EquityInv

\* What is made of a request that goes on or ends.
LEMMA FreshIs ==
  ASSUME NEW r \in AnswerState
  PROVE  /\ Fresh(r) \in AnswerState /\ Fresh(r).pc = r.pc /\ Fresh(r).run = r.run
         /\ Fresh(r).accepts = r.accepts /\ Fresh(r).lite = r.lite
         /\ Fresh(r).plan = <<>> /\ Fresh(r).pos = 0 /\ Fresh(r).sends = 0
         /\ Fresh(r).todo = {} /\ ~Fresh(r).found
         /\ Failed(r).pc = "failed" /\ Failed(r).run = 1
         /\ Failed(r).plan = <<>> /\ Failed(r).pos = 0 /\ Failed(r).sends = 0
         /\ ~Failed(r).found
<1>1. Fresh(r) \in AnswerState
  BY FreshTyped
<1>2. /\ Fresh(r).pc = r.pc /\ Fresh(r).run = r.run
      /\ Fresh(r).accepts = r.accepts /\ Fresh(r).lite = r.lite
      /\ Fresh(r).plan = <<>> /\ Fresh(r).pos = 0 /\ Fresh(r).sends = 0
      /\ Fresh(r).todo = {} /\ ~Fresh(r).found
  BY DEF Fresh, AnswerState
<1>3. /\ Failed(r).pc = "failed" /\ Failed(r).run = 1
      /\ Failed(r).plan = <<>> /\ Failed(r).pos = 0 /\ Failed(r).sends = 0
      /\ ~Failed(r).found
  BY DEF Failed, IdleAnswer
<1> QED BY <1>1, <1>2, <1>3

\* A request that is not in the callback's collection after the step, of which
\* nothing is noted by the step.
LEMMA QuietEquity ==
  ASSUME MemberInv, EquityInv, NEW q \in Answer, NEW x,
         answer' = [answer EXCEPT ![q] = x],
         offer'.equity = offer.equity, offer.status # "none" => offer'.status # "none",
         answer[q].pc # "idle",
         UNCHANGED <<shares, inflight, noted, disturbed>>,
         x.pc \notin {"idle", "collect"},
         x.run >= 1, x.plan = <<>>, x.pos = 0, x.sends = 0, ~x.found,
         x.pc = "insert" => ~x.lite,
         x.run = 1 /\ x.pc \in {"read", "prepare"} => BeforeSending(answer[q]),
         ~disturbed /\ ~noted[q].short /\ (x.run > 1 \/ Carried(x)) => Enough(noted[q]),
         ~disturbed /\ ~noted[q].resent /\ x.run = 1 /\ Carried(x) => NotMore(noted[q], Due(q))
  PROVE  EquityInv'
<1>1. answer'[q] = x
  BY DEF MemberInv, MemberTypeOK
<1>2. IsFiniteSet(inflight) /\ disturbed \in BOOLEAN
  BY DEF MemberInv, MemberTypeOK, EquityInv
<1>3. Orderly(x)
  BY DEF Orderly
<1>4. Sent(q)' = Sent(q)
  BY DEF Sent
<1>5. BeforeSending(x) => Sent(q)' = {}
  BY <1>4 DEF BeforeSending, EquityInv
<1>6. ASSUME ~disturbed PROVE Fair(q)'
  <2>1. noted'[q] = noted[q] /\ Due(q)' = Due(q)
    BY <1>4 DEF Due
  <2>2. \A note, D : Promised(note, D)' = Promised(note, D)
    BY DEF Promised
  <2>3. ~FirstRun(x)
    BY DEF FirstRun
  <2>4. Stands(answer[q], noted[q])'
    BY <1>1, <2>3 DEF Stands
  <2>5. TakesEnough(answer[q], noted[q])'
    BY <1>1, <1>6, <2>1, <2>2, <2>3 DEF TakesEnough, Enough
  <2>6. TakesNoMore(answer[q], noted[q], Due(q))'
    BY <1>1, <1>6, <2>1, <2>2, <2>3 DEF TakesNoMore, NotMore
  <2> QED BY <2>4, <2>5, <2>6 DEF Fair
<1> QED BY <1>2, <1>3, <1>5, <1>6, OneMoves

\* Steps after which a request has what it had of the callback, or has failed.
LEMMA GoesEquity ==
  ASSUME MemberInv, EquityInv, NEW q \in Answer,
         \/ Decides(q) \/ CallbackThrows(q) \/ InsertThrows(q) \/ OfferSaveFails(q)
         \/ CommitsMember(q) \/ CommitLost(q) \/ InsertsNewMember(q) \/ SavesOffer(q)
  PROVE  EquityInv'
<1> DEFINE r == answer[q]
<1>1. r \in AnswerState
  BY DEF MemberInv, MemberTypeOK
<1>2. /\ r.pc # "idle" /\ UNCHANGED <<shares, inflight, noted, disturbed>>
      /\ offer'.equity = offer.equity /\ (offer.status # "none" => offer'.status # "none")
  <2>1. offer \in OfferState
    BY DEF MemberInv, MemberTypeOK
  <2>2. CASE SavesOffer(q)
    <3>1. offer' = [offer EXCEPT !.status = "approved", !.by = answer[q].by]
            \/ offer' = [offer EXCEPT !.status = "declined"]
      BY <2>2 DEF SavesOffer
    <3> QED BY <2>1, <2>2, <3>1 DEF SavesOffer, OfferState
  <2>3. CASE ~SavesOffer(q)
    BY <2>3 DEF Decides, CallbackThrows, InsertThrows, OfferSaveFails, CommitsMember, CommitLost,
         InsertsNewMember
  <2> QED BY <2>2, <2>3
<1>3. PICK to \in {"failed", "save", "prepare", "insert", "done"} :
          /\ AnswerGoes(q, to)
          /\ to = "prepare" => r.pc = "read"
          /\ to = "insert" => ~r.lite
          /\ to = "done" => r.pc = "save"
          /\ to = "save" => \/ r.pc = "read" /\ ~r.accepts
                            \/ r.pc = "commit"
                            \/ r.pc = "insert"
  <2>1. CASE Decides(q)
    BY <2>1 DEF Decides
  <2>2. CASE CallbackThrows(q) \/ InsertThrows(q) \/ OfferSaveFails(q) \/ CommitLost(q)
    BY <2>2 DEF CallbackThrows, InsertThrows, OfferSaveFails, CommitLost
  <2>3. CASE CommitsMember(q) \/ InsertsNewMember(q) \/ SavesOffer(q)
    BY <2>3 DEF CommitsMember, InsertsNewMember, SavesOffer
  <2> QED BY <2>1, <2>2, <2>3
<1>4. Orderly(r) /\ (~disturbed => Fair(q))
  BY DEF EquityInv
<1>5. CASE to = "failed"
  <2> DEFINE x == Failed(r)
  <2>1. answer' = [answer EXCEPT ![q] = x]
    BY <1>3, <1>5 DEF AnswerGoes
  <2>2. /\ x.pc = "failed" /\ x.run = 1 /\ x.plan = <<>> /\ x.pos = 0 /\ x.sends = 0
        /\ ~x.found
    BY <1>1, FreshIs
  <2>3. ~Carried(x) /\ ~(x.run > 1) /\ x.run >= 1
    BY <2>2 DEF Carried
  <2>4. x.pc \notin {"idle", "collect", "insert", "read", "prepare"}
    BY <2>2
  <2> HIDE DEF x
  <2> QED BY <1>2, <2>1, <2>2, <2>3, <2>4, QuietEquity
<1>6. CASE to # "failed"
  <2> DEFINE x == [Fresh(r) EXCEPT !.pc = to]
  <2>1. answer' = [answer EXCEPT ![q] = x]
    BY <1>3, <1>6 DEF AnswerGoes
  <2>2. /\ x.pc = to /\ x.run = r.run /\ x.plan = <<>> /\ x.pos = 0 /\ x.sends = 0
        /\ ~x.found /\ x.lite = r.lite /\ x.accepts = r.accepts
    <3>1. /\ Fresh(r) \in AnswerState /\ Fresh(r).run = r.run
          /\ Fresh(r).accepts = r.accepts /\ Fresh(r).lite = r.lite
          /\ Fresh(r).plan = <<>> /\ Fresh(r).pos = 0 /\ Fresh(r).sends = 0
          /\ ~Fresh(r).found
      BY <1>1, FreshIs
    <3> QED BY <3>1 DEF AnswerState
  <2> HIDE DEF x
  <2>3. x.pc \notin {"idle", "collect"} /\ (x.pc = "insert" => ~x.lite) /\ x.run >= 1
    BY <1>3, <1>4, <1>6, <2>2 DEF Orderly
  <2>4. x.run = 1 /\ x.pc \in {"read", "prepare"} => BeforeSending(r)
    BY <1>3, <2>2 DEF BeforeSending
  <2>5. Carried(x) => Carried(r)
    BY <1>3, <1>4, <2>2 DEF Carried, Orderly
  <2>6. ~disturbed /\ ~noted[q].short /\ (x.run > 1 \/ Carried(x)) => Enough(noted[q])
    BY <1>4, <2>2, <2>5 DEF Fair, TakesEnough
  <2>7. ~disturbed /\ ~noted[q].resent /\ x.run = 1 /\ Carried(x) => NotMore(noted[q], Due(q))
    BY <1>4, <2>2, <2>5 DEF Fair, TakesNoMore
  <2> QED BY <1>2, <2>1, <2>2, <2>3, <2>4, <2>6, <2>7, QuietEquity
<1> QED BY <1>5, <1>6

\* When all batches were sent, what was planned was taken, or is due.
LEMMA CollectedFair ==
  ASSUME MemberInv, EquityInv, NEW q \in Answer, Collected(q), ~disturbed, answer[q].run = 1
  PROVE  /\ ~noted[q].short => Enough(noted[q])
         /\ ~noted[q].resent => NotMore(noted[q], Due(q))
<1> DEFINE r == answer[q]
           note == noted[q]
           D == DOMAIN note.base
           P == Promised(note, D)
           R == Rounding(D)
           d == Due(q)
           T == Total(r.plan)
<1>1. /\ r \in AnswerState /\ note \in NoteState /\ r.plan \in Seq(Give) /\ r.pos \in Nat
      /\ note.taken \in Nat /\ Len(r.plan) \in Nat
  BY DEF MemberInv, MemberTypeOK, AnswerState, NoteState
<1>2. BatchSize \in Nat
  BY MemberOfferAssumption
<1>3. FirstRun(r) /\ r.pos >= Len(r.plan) /\ r.todo = {}
  BY DEF FirstRun, Collected
<1>4. Fair(q)
  BY DEF EquityInv
<1>5. Known(r, note) = D
  BY <1>3 DEF Known
<1>6. Found(r) = T /\ Broadcast(r) = T /\ T \in Nat
  <2>1. \A n \in Nat : r.pos + n \in Nat /\ r.pos + n >= Len(r.plan)
    BY <1>1, <1>3
  <2>2. GivenUpTo(r.plan, r.pos + BatchSize) = T /\ GivenUpTo(r.plan, r.pos + 0) = T
    <3> HIDE DEF r
    <3> QED BY <1>1, <1>2, <2>1, GivenEnds
  <2> QED BY <1>1, <2>2, TotalIs DEF Found, Broadcast
<1>7. P \in Nat /\ R \in Nat
  BY <1>1, PromisedIs
<1>8. d \in Nat
  BY DueTyped
<1>9. ASSUME ~note.short PROVE Enough(note)
  <2>1. 100 * T >= P - R /\ note.taken >= T
    BY <1>3, <1>4, <1>5, <1>6, <1>9 DEF Fair, TakesEnough
  <2> HIDE DEF P, R, T, note
  <2>2. 100 * note.taken >= P - R
    BY <1>1, <1>6, <1>7, <2>1
  <2> QED BY <2>2 DEF Enough, P, R, note
<1>10. ASSUME ~note.resent PROVE NotMore(note, d)
  <2>1. 100 * (note.taken + d + T - Broadcast(r)) <= P + R
    BY <1>3, <1>4, <1>5, <1>10 DEF Fair, TakesNoMore
  <2> HIDE DEF P, R, T, d, note
  <2>2. note.taken + d + T - T = note.taken + d
    BY <1>1, <1>6, <1>8
  <2>3. 100 * (note.taken + d) <= P + R
    BY <1>6, <2>1, <2>2
  <2> QED BY <2>3 DEF NotMore, P, R, note
<1> QED BY <1>9, <1>10

\* The member is saved, or the callback is run again, when all batches were sent.
LEMMA EndsEquity ==
  ASSUME MemberInv, EquityInv, NEW q \in Answer, SavesNewMember(q) \/ AbortsAnswer(q)
  PROVE  EquityInv'
<1> DEFINE r == answer[q]
<1>1. /\ r \in AnswerState /\ r.run \in Nat
      /\ UNCHANGED <<offer, shares, inflight, noted, disturbed>>
      /\ Collected(q) \/ r.pc = "commit"
  BY DEF MemberInv, MemberTypeOK, AnswerState, SavesNewMember, AbortsAnswer
<1>2. r.pc \in {"collect", "commit"}
  BY <1>1 DEF Collected
<1>3. PICK x : /\ answer' = [answer EXCEPT ![q] = x]
               /\ \/ x = [Fresh(r) EXCEPT !.pc = "commit", !.saved = TRUE] /\ Collected(q)
                  \/ x = Rerun(r)
                  \/ x = Failed(r)
  <2>1. CASE SavesNewMember(q)
    BY <2>1 DEF SavesNewMember, MemberInv, MemberTypeOK
  <2>2. CASE AbortsAnswer(q)
    <3> DEFINE more == SumFunction([p \in Answer |-> answer[p].run]) < MaxRuns
    <3>1. answer' = [answer EXCEPT ![q] = IF more THEN Rerun(r) ELSE Failed(r)]
      BY <2>2 DEF AbortsAnswer, RunsAgain
    <3> HIDE DEF more
    <3> QED BY <3>1
  <2> QED BY <2>1, <2>2
<1>4. /\ x.plan = <<>> /\ x.pos = 0 /\ x.sends = 0 /\ ~x.found
      /\ \/ x.pc = "commit" /\ x.run = r.run /\ Collected(q)
         \/ x.pc = "prepare" /\ x.run = r.run + 1
         \/ x.pc = "failed" /\ x.run = 1
  <2>1. /\ Fresh(r) \in AnswerState /\ Fresh(r).run = r.run
        /\ Fresh(r).plan = <<>> /\ Fresh(r).pos = 0 /\ Fresh(r).sends = 0
        /\ ~Fresh(r).found
    BY <1>1, FreshIs
  <2>2. CASE x = [Fresh(r) EXCEPT !.pc = "commit", !.saved = TRUE] /\ Collected(q)
    BY <2>1, <2>2 DEF AnswerState
  <2>3. CASE x = Rerun(r)
    BY <2>1, <2>3 DEF Rerun, AnswerState
  <2>4. CASE x = Failed(r)
    BY <1>1, <2>4, FreshIs
  <2> QED BY <1>3, <2>2, <2>3, <2>4
<1>5. /\ x.pc \notin {"idle", "collect", "insert"} /\ r.pc # "idle" /\ offer.status # "none"
      /\ x.run >= 1
  <2>1. r.run >= 1
    BY DEF EquityInv, Orderly
  <2> QED BY <1>1, <1>2, <1>4, <2>1 DEF EquityInv
<1>6. x.run = 1 => x.pc \notin {"read", "prepare"}
  <2>1. Orderly(r)
    BY DEF EquityInv
  <2>2. CASE x.pc = "prepare" /\ x.run = r.run + 1
    <3>1. r.run # 0
      BY <1>1, <2>1 DEF Orderly
    <3> QED BY <1>1, <2>2, <3>1
  <2> QED BY <1>4, <2>2
<1>7. ASSUME ~disturbed, ~noted[q].short, x.run > 1 \/ Carried(x) PROVE Enough(noted[q])
  <2>1. Fair(q)
    BY <1>7 DEF EquityInv
  <2>2. CASE Collected(q) /\ r.run = 1
    BY <1>7, <2>2, CollectedFair
  <2>3. CASE r.run > 1 \/ r.pc = "commit"
    BY <1>7, <2>1, <2>3 DEF Fair, TakesEnough, Carried
  <2>4. r.run >= 1
    BY DEF EquityInv, Orderly
  <2> QED BY <1>1, <2>2, <2>3, <2>4
<1>8. ASSUME ~disturbed, ~noted[q].resent, x.run = 1, Carried(x) PROVE NotMore(noted[q], Due(q))
  <2>1. x.pc = "commit" /\ x.run = r.run /\ Collected(q)
    BY <1>4, <1>8 DEF Carried
  <2> QED BY <1>8, <2>1, CollectedFair
<1> QED BY <1>1, <1>3, <1>4, <1>5, <1>6, <1>7, <1>8, QuietEquity

\* A batch was found to have landed, or given up: it counts as processed.
LEMMA BatchEndsEquity ==
  ASSUME MemberInv, MemberInv', EquityInv, NEW q \in Answer, BatchConfirmed(q) \/ BatchFails(q)
  PROVE  EquityInv'
<1> DEFINE r == answer[q]
           x == NextBatch(q)
           note == noted[q]
           new == noted[q]'
           D == Known(r, note)
<1>1. /\ r \in AnswerState /\ note \in NoteState /\ r.plan \in Seq(Give) /\ r.pos \in Nat
      /\ r.sends \in Nat /\ r.found \in BOOLEAN /\ note.taken \in Nat
      /\ noted \in [Answer -> NoteState] /\ disturbed \in BOOLEAN
  BY DEF MemberInv, MemberTypeOK, AnswerState, NoteState
<1>2. BatchSize \in Nat /\ BatchSize # 0
  BY MemberOfferAssumption
<1>3. /\ Collecting(q) /\ answer' = [answer EXCEPT ![q] = x]
      /\ UNCHANGED <<offer, shares, inflight, disturbed>>
      /\ \/ r.found /\ noted' = noted
         \/ Notes(q, [noted[q] EXCEPT !.short = TRUE])
  BY DEF BatchConfirmed, BatchFails
<1>4. /\ x.pc = "collect" /\ x.run = r.run /\ x.todo = {} /\ x.plan = r.plan
      /\ x.pos = r.pos + BatchSize /\ x.sends = 0 /\ ~x.found
      /\ r.pc = "collect" /\ r.todo = {} /\ r.pos < Len(r.plan)
  BY <1>1, <1>3 DEF NextBatch, AnswerState, Collecting
<1>5. Orderly(r) /\ Orderly(x)
  BY <1>4 DEF EquityInv, Orderly
<1>6. Sent(q)' = Sent(q) /\ ~BeforeSending(x)
  BY <1>3, <1>4 DEF Sent, BeforeSending
<1>7. ASSUME ~disturbed PROVE /\ \A p \in Answer : p # q => noted'[p] = noted[p]
                              /\ new.base = note.base /\ new.taken = note.taken
                              /\ new.resent = note.resent
                              /\ \/ new.short
                                 \/ r.found /\ new.short = note.short
  BY <1>1, <1>3, <1>7 DEF Notes, NoteState
<1>8. ASSUME ~disturbed PROVE Fair(q)'
  <2> DEFINE T == Total(r.plan)
             d == Due(q)
             P == Promised(note, D)
             R == Rounding(D)
             u == Total(BatchOf(q))
             g == GivenUpTo(r.plan, r.pos)
             h == GivenUpTo(r.plan, r.pos + BatchSize)
  <2>1. Fair(q) /\ answer'[q] = x /\ Due(q)' = d
    BY <1>1, <1>3, <1>6, <1>8 DEF EquityInv, MemberInv, MemberTypeOK, Due
  <2>2. Known(x, new) = D /\ DOMAIN new.base = DOMAIN note.base
    BY <1>4, <1>7, <1>8 DEF Known
  <2>3. /\ \A n, A : Promised(n, A)' = Promised(n, A)
        /\ \A A : Promised(new, A) = Promised(note, A)
    BY <1>3, <1>7, <1>8 DEF Promised
  <2>4. Found(x) = h /\ Broadcast(x) = h
    BY <1>1, <1>2, <1>4 DEF Found, Broadcast
  <2>5. h = g + u /\ g \in Nat /\ u \in Nat
    <3>1. h = g + u /\ BatchOf(q) \in Seq(Give)
      BY <1>4, BatchGives
    <3> QED BY <1>1, <3>1, GivenEnds, TotalIs
  <2>6. /\ r.found => Found(r) = h
        /\ Broadcast(r) = IF r.sends = 0 THEN g ELSE h
    BY <1>1 DEF Found, Broadcast
  <2>7. T \in Nat /\ d \in Nat /\ P \in Nat /\ R \in Nat
    <3>1. D \in SUBSET DOMAIN note.base
      BY DEF Known
    <3> QED BY <1>1, <3>1, TotalIs, DueTyped, PromisedIs
  <2>8. Stands(answer[q], noted[q])'
    BY <1>4, <2>1 DEF Stands
  <2>9. TakesEnough(answer[q], noted[q])'
    <3> SUFFICES ASSUME ~new.short
                 PROVE  /\ FirstRun(x) => /\ 100 * Total(x.plan) >= P - R
                                          /\ note.taken >= Found(x)
                        /\ x.run > 1 \/ Carried(x) => Enough(note)
      BY <1>7, <1>8, <2>1, <2>2, <2>3 DEF TakesEnough, Enough
    <3>1. r.found /\ ~note.short
      BY <1>7, <1>8
    <3>2. Carried(x) => Carried(r)
      BY <1>4 DEF Carried
    <3>3. FirstRun(x) => FirstRun(r)
      BY <1>4 DEF FirstRun
    <3> QED BY <1>4, <2>1, <2>4, <2>6, <3>1, <3>2, <3>3 DEF Fair, TakesEnough
  <2>10. TakesNoMore(answer[q], noted[q], Due(q))'
    <3> SUFFICES ASSUME ~note.resent, x.run = 1
                 PROVE  /\ 100 * (note.taken + d + T - Broadcast(x)) <= P + R
                        /\ ~Carried(x)
      BY <1>4, <1>7, <1>8, <2>1, <2>2, <2>3 DEF TakesNoMore
    <3>1. FirstRun(r) /\ ~Carried(x)
      BY <1>4 DEF FirstRun, Carried
    <3>2. 100 * (note.taken + d + T - Broadcast(r)) <= P + R
      BY <1>4, <2>1, <3>1 DEF Fair, TakesNoMore
    <3> DEFINE k == note.taken
               b == Broadcast(r)
    <3>3. k \in Nat /\ b \in Nat /\ b <= h /\ h \in Nat
      BY <1>1, <2>5, <2>6
    <3>4. 100 * (k + d + T - b) <= P + R
      BY <3>2
    <3> HIDE DEF k, b, d, T, P, R, h
    <3>5. 100 * (k + d + T - h) <= P + R
      BY <2>7, <3>3, <3>4
    <3> QED BY <2>4, <3>1, <3>5 DEF k
  <2> QED BY <2>8, <2>9, <2>10 DEF Fair
<1> QED BY <1>1, <1>3, <1>4, <1>5, <1>6, <1>7, <1>8, OneMoves DEF EquityInv

\* The members are queried, and in the first run what they hold is noted: nothing
\* was taken yet, and all of it is still to be read.
LEMMA PreparesEquity ==
  ASSUME MemberInv, MemberInv', EquityInv, NEW q \in Answer, PreparesAccount(q)
  PROVE  EquityInv'
<1> DEFINE r == answer[q]
           todo == IF offer.equity = 0 THEN {} ELSE members
           x == [r EXCEPT !.pc = "collect", !.todo = todo]
           note == noted[q]
           base == [m \in members |-> shares[m]]
           first == [NothingNoted EXCEPT !.base = base]
<1>1. /\ r \in AnswerState /\ note \in NoteState /\ noted \in [Answer -> NoteState]
      /\ disturbed \in BOOLEAN /\ offer.status # "none" /\ Orderly(r) /\ offer.equity \in Nat
      /\ r.pc = "prepare" /\ r.run \in Nat
  <2>1. r.pc = "prepare"
    BY DEF PreparesAccount
  <2>2. offer.status # "none" /\ Orderly(r)
    BY <2>1 DEF EquityInv
  <2>3. /\ r \in AnswerState /\ note \in NoteState /\ noted \in [Answer -> NoteState]
        /\ disturbed \in BOOLEAN /\ offer \in OfferState
    BY DEF MemberInv, MemberTypeOK
  <2>4. offer.equity \in Nat
    BY <2>3 DEF OfferState
  <2>5. r.run \in Nat
    BY <2>3 DEF AnswerState
  <2> QED BY <2>1, <2>2, <2>3, <2>4, <2>5
<1>2. /\ answer' = [answer EXCEPT ![q] = x]
      /\ UNCHANGED <<offer, shares, inflight, disturbed>>
      /\ Notes(q, IF r.run > 1 THEN note ELSE first)
  BY DEF PreparesAccount
<1>3. first.base = base /\ first.taken = 0
  BY DEF NothingNoted
<1> HIDE DEF first, base, todo
<1>4. /\ x.pc = "collect" /\ x.run = r.run /\ x.todo = todo /\ x.plan = <<>> /\ x.pos = 0
      /\ x.sends = 0 /\ ~x.found
  BY <1>1 DEF AnswerState, Orderly
<1> HIDE DEF x
<1>5. Orderly(x)
  BY <1>1, <1>4 DEF Orderly
<1>6. Sent(q)' = Sent(q)
  BY <1>2 DEF Sent
<1>7. BeforeSending(x) => Sent(q)' = {}
  <2>1. BeforeSending(x) => BeforeSending(r)
    BY <1>1, <1>4 DEF BeforeSending
  <2> QED BY <1>6, <2>1 DEF EquityInv
<1>8. ASSUME ~disturbed
      PROVE  /\ \A p \in Answer : p # q => noted'[p] = noted[p]
             /\ noted'[q] = IF r.run > 1 THEN note ELSE first
  BY <1>1, <1>2, <1>8 DEF Notes
<1>9. ASSUME ~disturbed PROVE Fair(q)'
  <2>1. answer'[q] = x /\ Fair(q) /\ Due(q)' = Due(q)
    BY <1>2, <1>6, <1>9 DEF MemberInv, MemberTypeOK, EquityInv, Due
  <2>2. \A n, A : Promised(n, A)' = Promised(n, A)
    BY <1>2 DEF Promised
  <2>3. ~Carried(x)
    BY <1>4 DEF Carried
  <2>4. CASE r.run > 1
    <3>1. noted'[q] = note /\ ~FirstRun(x) /\ x.run # 1
      BY <1>4, <1>8, <1>9, <2>4 DEF FirstRun
    <3>2. Stands(answer[q], noted[q])'
      BY <2>1, <3>1 DEF Stands
    <3>3. TakesEnough(answer[q], noted[q])'
      BY <1>4, <2>1, <2>2, <2>4, <3>1 DEF TakesEnough, Enough, Fair
    <3>4. TakesNoMore(answer[q], noted[q], Due(q))'
      BY <2>1, <3>1 DEF TakesNoMore
    <3> QED BY <3>2, <3>3, <3>4 DEF Fair
  <2>5. CASE ~(r.run > 1)
    <3>1. noted'[q] = first /\ x.run = 1
      BY <1>1, <1>4, <1>8, <1>9, <2>5 DEF Orderly
    <3>2. first \in NoteState
      BY <3>1 DEF MemberInv, MemberTypeOK
    <3>3. DOMAIN first.base = members /\ \A m \in members : first.base[m] = shares[m]
      BY <1>3 DEF base
    <3> DEFINE D == Known(x, first)
    <3>4. D \in SUBSET DOMAIN first.base /\ D = members \ todo
      BY <1>4, <3>3 DEF Known
    <3>5. Promised(first, D) = 0
      <4>1. Promised(first, D) = offer.equity * SumFunctionOnSet(first.base, D)
        BY DEF Promised
      <4>2. SumFunctionOnSet(first.base, D) \in Nat
        BY <3>2, <3>4, BaseTyped
      <4>3. CASE offer.equity = 0
        BY <4>1, <4>2, <4>3
      <4>4. CASE offer.equity # 0
        <5>1. D = {}
          BY <3>4, <4>4 DEF todo
        <5> QED BY <1>1, <4>1, <5>1, SumOfNone
      <4> QED BY <4>3, <4>4
    <3>6. Rounding(D) \in Nat
      <4> HIDE DEF D
      <4> QED BY <3>2, <3>4, PromisedIs
    <3>7. Total(x.plan) = 0 /\ Found(x) = 0 /\ Broadcast(x) = 0
      <4>1. <<>> \in Seq(Give) /\ 0 >= Len(<<>>)
        OBVIOUS
      <4>2. GivenUpTo(<<>>, 0) = 0
        BY <4>1, GivenEnds
      <4>3. Total(<<>>) = 0
        BY <4>1, <4>2, GivenEnds
      <4>4. x.pos + 0 = 0
        BY <1>4
      <4> QED BY <1>4, <4>2, <4>3, <4>4 DEF Found, Broadcast
    <3>8. Due(q) = 0
      <4>1. Sent(q) = {}
        BY <1>1, <1>4, <3>1 DEF BeforeSending, EquityInv
      <4> QED BY <4>1, SumOfNone DEF Due
    <3>9. Stands(answer[q], noted[q])'
      <4>1. todo \subseteq members
        BY DEF todo
      <4> QED BY <1>2, <1>4, <2>1, <3>1, <3>3, <4>1 DEF Stands
    <3> HIDE DEF D
    <3>10. 100 * 0 >= 0 - Rounding(D) /\ 100 * (0 + 0 + 0 - 0) <= 0 + Rounding(D)
      BY <3>6
    <3>11. TakesEnough(answer[q], noted[q])'
      BY <1>3, <1>4, <2>1, <2>2, <2>3, <3>1, <3>5, <3>7, <3>10 DEF TakesEnough, D
    <3>12. TakesNoMore(answer[q], noted[q], Due(q))'
      BY <1>3, <1>4, <2>1, <2>2, <2>3, <3>1, <3>5, <3>7, <3>8, <3>10 DEF TakesNoMore, D
    <3> QED BY <3>9, <3>11, <3>12 DEF Fair
  <2> QED BY <2>4, <2>5
<1> QED BY <1>1, <1>2, <1>5, <1>7, <1>8, <1>9, OneMoves DEF EquityInv

\* A batch is broadcast: it is due, and no longer to be sent.  A second broadcast of
\* it is noted.
LEMMA SendsEquity ==
  ASSUME MemberInv, MemberInv', EquityInv, NEW q \in Answer, SendsBatch(q)
  PROVE  EquityInv'
<1> DEFINE r == answer[q]
           x == [r EXCEPT !.sends = r.sends + 1]
           t == Attempt(q, r.sends + 1)
           note == noted[q]
           new == noted[q]'
           D == Known(r, note)
<1>1. /\ r \in AnswerState /\ note \in NoteState /\ r.plan \in Seq(Give) /\ r.pos \in Nat
      /\ r.sends \in Nat /\ r.found \in BOOLEAN /\ note.taken \in Nat
      /\ noted \in [Answer -> NoteState] /\ disturbed \in BOOLEAN
  BY DEF MemberInv, MemberTypeOK, AnswerState, NoteState
<1>2. BatchSize \in Nat /\ BatchSize # 0
  BY MemberOfferAssumption
<1>3. /\ Collecting(q) /\ answer' = [answer EXCEPT ![q] = x]
      /\ inflight' = inflight \cup {t}
      /\ UNCHANGED <<offer, shares, disturbed>>
      /\ Notes(q, [noted[q] EXCEPT !.resent = @ \/ r.sends > 0])
  BY DEF SendsBatch
<1>4. /\ x.pc = "collect" /\ x.run = r.run /\ x.todo = {} /\ x.plan = r.plan
      /\ x.pos = r.pos /\ x.sends = r.sends + 1 /\ x.found = r.found
      /\ r.pc = "collect" /\ r.todo = {} /\ r.pos < Len(r.plan)
  BY <1>1, <1>3 DEF AnswerState, Collecting
<1>5. t.by = q /\ t.gives = BatchOf(q)
  BY DEF Attempt
<1> HIDE DEF x, t
<1>6. Orderly(r) /\ offer.status # "none" /\ IsFiniteSet(inflight')
  BY <1>3, <1>4, FS_AddElement DEF EquityInv
<1>7. Orderly(x) /\ ~BeforeSending(x)
  BY <1>1, <1>4, <1>6 DEF Orderly, BeforeSending
<1>8. ASSUME ~disturbed PROVE /\ \A p \in Answer : p # q => noted'[p] = noted[p]
                              /\ new.base = note.base /\ new.taken = note.taken
                              /\ new.short = note.short
                              /\ new.resent = (note.resent \/ r.sends > 0)
  BY <1>1, <1>3, <1>8 DEF Notes, NoteState
<1>9. ASSUME ~disturbed PROVE Fair(q)'
  <2> DEFINE T == Total(r.plan)
             d == Due(q)
             P == Promised(note, D)
             R == Rounding(D)
             u == Total(BatchOf(q))
             g == GivenUpTo(r.plan, r.pos)
             h == GivenUpTo(r.plan, r.pos + BatchSize)
  <2>1. Fair(q) /\ answer'[q] = x
    BY <1>3, <1>9 DEF EquityInv, MemberInv, MemberTypeOK
  <2>2. Known(x, new) = D /\ DOMAIN new.base = DOMAIN note.base
    BY <1>4, <1>8, <1>9 DEF Known
  <2>3. /\ \A n, A : Promised(n, A)' = Promised(n, A)
        /\ \A A : Promised(new, A) = Promised(note, A)
    BY <1>3, <1>8, <1>9 DEF Promised
  <2>4. h = g + u /\ g \in Nat /\ u \in Nat
    <3>1. h = g + u /\ BatchOf(q) \in Seq(Give)
      BY <1>4, BatchGives
    <3> QED BY <1>1, <3>1, GivenEnds, TotalIs
  <2>5. T \in Nat /\ d \in Nat /\ P \in Nat /\ R \in Nat
    <3>1. D \in SUBSET DOMAIN note.base
      BY DEF Known
    <3> QED BY <1>1, <3>1, TotalIs, DueTyped, PromisedIs
  <2>6. Due(q)' \in Nat /\ Due(q)' <= d + u
    <3> DEFINE f == [s \in Sent(q) |-> Total(s.gives)]
               e == [s \in Sent(q) \cup {t} |-> Total(s.gives)]
    <3>1. Sent(q)' = Sent(q) \cup {t}
      BY <1>3, <1>5 DEF Sent
    <3>2. Due(q)' = SumFunctionOnSet(e, Sent(q) \cup {t})
      BY <3>1 DEF Due
    <3>3. IsFiniteSet(Sent(q)) /\ \A s \in Sent(q) : Total(s.gives) \in Nat
      BY DueTyped
    <3>4. CASE t \in Sent(q)
      <4>1. Sent(q) \cup {t} = Sent(q)
        BY <3>4
      <4>2. Due(q)' = d
        BY <3>2, <4>1 DEF Due
      <4> HIDE DEF d
      <4> QED BY <2>4, <2>5, <4>2
    <3>5. CASE t \notin Sent(q)
      <4>1. /\ \A s \in Sent(q) : e[s] = f[s] /\ e[s] \in Int
            /\ e[t] = u /\ u \in Int
        BY <1>5, <2>4, <3>3
      <4> HIDE DEF e, f
      <4>2. SumFunctionOnSet(e, Sent(q) \cup {t}) = e[t] + SumFunctionOnSet(e, Sent(q))
        BY <3>3, <3>5, <4>1, SumWith
      <4>3. SumFunctionOnSet(e, Sent(q)) = SumFunctionOnSet(f, Sent(q))
        BY <3>3, <4>1, SumSame
      <4>4. SumFunctionOnSet(f, Sent(q)) = d
        BY DEF Due, f
      <4>5. Due(q)' = u + d
        BY <3>2, <4>1, <4>2, <4>3, <4>4
      <4> HIDE DEF d, u
      <4> QED BY <2>4, <2>5, <4>5
    <3> QED BY <3>4, <3>5
  <2>7. Found(x) = Found(r) /\ Broadcast(x) = h /\ (r.sends = 0 => Broadcast(r) = g)
    BY <1>1, <1>2, <1>4 DEF Found, Broadcast
  <2>8. /\ FirstRun(x) <=> FirstRun(r)
        /\ ~Carried(x)
    BY <1>4 DEF FirstRun, Carried
  <2>9. Stands(answer[q], noted[q])'
    BY <1>4, <2>1 DEF Stands
  <2>10. TakesEnough(answer[q], noted[q])'
    BY <1>4, <1>8, <1>9, <2>1, <2>2, <2>3, <2>7, <2>8 DEF TakesEnough, Enough, Fair
  <2>11. TakesNoMore(answer[q], noted[q], Due(q))'
    <3>1. ~new.resent => ~note.resent /\ ~(r.sends > 0)
      BY <1>8, <1>9, Zenon
    <3>2. ~new.resent => ~note.resent /\ r.sends = 0
      BY <1>1, <3>1
    <3>3. /\ Total(x.plan) = T /\ Broadcast(x) = h /\ new.taken = note.taken
          /\ Promised(new, D) = P
      BY <1>4, <1>8, <1>9, <2>3, <2>7
    <3> SUFFICES ASSUME ~note.resent, r.sends = 0, FirstRun(r)
                 PROVE  100 * (note.taken + Due(q)' + T - h) <= P + R
      BY <2>1, <2>2, <2>3, <2>8, <3>2, <3>3 DEF TakesNoMore
    <3>4. 100 * (note.taken + d + T - g) <= P + R
      BY <2>1, <2>7 DEF Fair, TakesNoMore, FirstRun
    <3> DEFINE k == note.taken
               c == Due(q)'
    <3>5. k \in Nat /\ c \in Nat /\ c <= d + u /\ h = g + u
      BY <1>1, <2>4, <2>6
    <3>6. 100 * (k + d + T - g) <= P + R
      BY <3>4
    <3> HIDE DEF k, c, d, T, P, R, g, h, u
    <3>7. k + c + T - h <= k + d + T - g
      BY <2>4, <2>5, <3>5
    <3>8. 100 * (k + c + T - h) <= P + R
      BY <2>4, <2>5, <3>5, <3>6, <3>7
    <3> QED BY <3>8 DEF k, c
  <2> QED BY <2>9, <2>10, <2>11 DEF Fair
<1> QED BY <1>1, <1>3, <1>4, <1>5, <1>6, <1>7, <1>8, <1>9, OneMoves

\* What a member gives is the percentage of what it holds, half a lamport more or less.
LEMMA GivesWithin ==
  ASSUME MemberInv, NEW held \in Nat
  PROVE  /\ Gives(held) \in Nat /\ offer.equity * held \in Nat
         /\ 100 * Gives(held) <= offer.equity * held + 50
         /\ 100 * Gives(held) >= offer.equity * held - 50
<1>1. offer.equity \in Nat
  BY DEF MemberInv, MemberTypeOK, OfferState
<1> DEFINE n == offer.equity * held
<1>2. n \in Nat /\ 2 * held * offer.equity = 2 * n
  BY <1>1
<1>3. Gives(held) = (2 * n + 100) \div 200
  BY <1>2 DEF Gives
<1> HIDE DEF n
<1>4. /\ Gives(held) \in Nat
      /\ 100 * Gives(held) <= n + 50 /\ 100 * Gives(held) >= n - 50
  BY <1>2, <1>3
<1> QED BY <1>2, <1>4 DEF n

\* One member more: its share is promised, and half a lamport may be rounded.
LEMMA PromisedMore ==
  ASSUME MemberInv, NEW note \in NoteState, NEW D \in SUBSET DOMAIN note.base,
         NEW m \in DOMAIN note.base, m \notin D
  PROVE  /\ Promised(note, D \cup {m}) = Promised(note, D) + offer.equity * note.base[m]
         /\ Rounding(D \cup {m}) = Rounding(D) + 50
<1> DEFINE s == SumFunctionOnSet(note.base, D)
           h == note.base[m]
           e == offer.equity
           c == Cardinality(D)
<1>1. IsFiniteSet(D) /\ s \in Nat /\ c \in Nat /\ \A a \in D : note.base[a] \in Nat
  BY BaseTyped
<1>2. h \in Nat /\ e \in Nat
  <2>1. {m} \in SUBSET DOMAIN note.base
    OBVIOUS
  <2>2. h \in Nat
    BY <2>1, BaseTyped
  <2> QED BY <2>2 DEF MemberInv, MemberTypeOK, OfferState
<1>3. SumFunctionOnSet(note.base, D \cup {m}) = h + s
  BY <1>1, <1>2, SumWith
<1>4. Cardinality(D \cup {m}) = c + 1
  BY <1>1, FS_AddElement
<1>5. e * (h + s) = e * s + e * h
  <2> HIDE DEF e, h, s
  <2> QED BY <1>1, <1>2
<1>6. 50 * (c + 1) = 50 * c + 50
  <2> HIDE DEF c
  <2> QED BY <1>1
<1> QED BY <1>3, <1>4, <1>5, <1>6 DEF Promised, Rounding

\* The balance of a member is read, and what it gives is planned.
LEMMA ReadsBalanceEquity ==
  ASSUME MemberInv, MemberInv', EquityInv, NEW q \in Answer, ReadsBalance(q)
  PROVE  EquityInv'
<1> DEFINE r == answer[q]
           m == CHOOSE m \in r.todo : TRUE
           note == noted[q]
           new == noted[q]'
<1>1. /\ r \in AnswerState /\ note \in NoteState /\ r.plan \in Seq(Give)
      /\ r.todo \subseteq Party /\ note.taken \in Nat /\ shares \in [Party -> Nat]
      /\ noted \in [Answer -> NoteState] /\ disturbed \in BOOLEAN
  BY DEF MemberInv, MemberTypeOK, AnswerState, NoteState
<1>2. r.pc = "collect" /\ r.todo # {}
  BY DEF ReadsBalance
<1>3. m \in r.todo
  BY <1>2
<1>4. PICK reading \in {0, shares[m]} :
          /\ answer' = [answer EXCEPT ![q] = WithReading(r, m, reading)]
          /\ Notes(q, [noted[q] EXCEPT !.short = @ \/ reading # shares[m]])
  BY DEF ReadsBalance
<1>5. UNCHANGED <<offer, shares, inflight, disturbed>>
  BY DEF ReadsBalance
<1> HIDE DEF m
<1> DEFINE give == [from |-> m, amount |-> Gives(reading)]
           plan == IF reading = 0 THEN r.plan ELSE Append(r.plan, give)
           x == WithReading(r, m, reading)
<1>6. /\ x.pc = "collect" /\ x.run = r.run /\ x.todo = r.todo \ {m} /\ x.plan = plan
      /\ x.pos = r.pos /\ x.sends = r.sends /\ x.found = r.found
  BY <1>1, <1>2 DEF WithReading, AnswerState
<1>7. Orderly(r) /\ offer.status # "none" /\ r.pos = 0 /\ r.sends = 0 /\ ~r.found
  BY <1>2 DEF EquityInv, Orderly
<1> HIDE DEF x
<1>8. Orderly(x) /\ Sent(q)' = Sent(q) /\ (BeforeSending(x) => BeforeSending(r))
  BY <1>2, <1>5, <1>6, <1>7 DEF Orderly, Sent, BeforeSending
<1>9. ASSUME ~disturbed PROVE /\ \A p \in Answer : p # q => noted'[p] = noted[p]
                              /\ new.base = note.base /\ new.taken = note.taken
                              /\ new.resent = note.resent
                              /\ new.short = (note.short \/ reading # shares[m])
  BY <1>1, <1>4, <1>9 DEF Notes, NoteState
<1>10. reading \in Nat /\ shares[m] \in Nat /\ m \in Party
  BY <1>1, <1>3
<1>11. /\ plan \in Seq(Give) /\ Total(r.plan) \in Nat /\ Total(plan) \in Nat
       /\ Total(plan) = Total(r.plan) + IF reading = 0 THEN 0 ELSE Gives(reading)
  <2>1. give \in Give /\ give.amount = Gives(reading)
    BY <1>10, GivesIsNat DEF Give
  <2> HIDE DEF give
  <2>2. Append(r.plan, give) \in Seq(Give)
    BY <1>1, <2>1, AppendProperties
  <2>3. Total(Append(r.plan, give)) = Total(r.plan) + Gives(reading)
    BY <1>1, <2>1, GivenOneMore
  <2>4. Total(r.plan) \in Nat
    BY <1>1, TotalIs
  <2>5. CASE reading = 0
    BY <1>1, <2>4, <2>5
  <2>6. CASE reading # 0
    <3>1. Total(Append(r.plan, give)) \in Nat
      BY <2>2, TotalIs
    <3> QED BY <2>2, <2>3, <2>4, <2>6, <3>1
  <2> QED BY <2>5, <2>6
<1>12. Found(r) = 0 /\ Broadcast(r) = 0 /\ Found(x) = 0 /\ Broadcast(x) = 0
  <2>1. GivenUpTo(r.plan, 0) = 0 /\ GivenUpTo(plan, 0) = 0 /\ 0 + 0 = 0
    <3> HIDE DEF plan
    <3> QED BY <1>1, <1>11, GivenEnds
  <2> HIDE DEF plan
  <2> QED BY <1>6, <1>7, <2>1 DEF Found, Broadcast
<1> HIDE DEF plan
<1>13. ASSUME ~disturbed PROVE Fair(q)'
  <2>1. Fair(q) /\ answer'[q] = x /\ Due(q)' = Due(q)
    BY <1>4, <1>8, <1>13 DEF EquityInv, MemberInv, MemberTypeOK, Due, x
  <2>2. /\ \A n, A : Promised(n, A)' = Promised(n, A)
        /\ \A A : Promised(new, A) = Promised(note, A)
    BY <1>5, <1>9, <1>13 DEF Promised
  <2>3. /\ FirstRun(x) <=> FirstRun(r)
        /\ ~Carried(x)
    BY <1>2, <1>6 DEF FirstRun, Carried
  <2>4. FirstRun(r) => m \in DOMAIN note.base /\ note.base[m] = shares[m]
    BY <1>3, <2>1 DEF Fair, Stands
  <2>5. Stands(answer[q], noted[q])'
    BY <1>5, <1>6, <1>9, <1>13, <2>1, <2>3 DEF Fair, Stands
  <2>6. CASE ~FirstRun(r)
    <3>1. r.run > 1 /\ ~note.short => Enough(note)
      BY <2>1 DEF TakesEnough, Fair
    <3>2. TakesEnough(answer[q], noted[q])'
      <4>1. ~new.short => ~note.short
        BY <1>9, <1>13, Zenon
      <4>2. x.run > 1 /\ ~new.short => Enough(noted[q])'
        BY <1>6, <1>9, <1>13, <2>2, <3>1, <4>1 DEF Enough
      <4> QED BY <2>1, <2>3, <2>6, <4>2 DEF TakesEnough
    <3>3. TakesNoMore(answer[q], noted[q], Due(q))'
      BY <2>1, <2>3, <2>6 DEF TakesNoMore
    <3> QED BY <2>5, <3>2, <3>3 DEF Fair
  <2>7. CASE FirstRun(r)
    <3> DEFINE D == Known(r, note)
               T == Total(r.plan)
               d == Due(q)
               P == Promised(note, D)
               R == Rounding(D)
               k == note.taken
               more == IF reading = 0 THEN 0 ELSE Gives(reading)
               share == offer.equity * note.base[m]
    <3>1. Known(x, new) = D \cup {m} /\ m \notin D /\ m \in DOMAIN note.base
      BY <1>3, <1>6, <1>9, <1>13, <2>4, <2>7 DEF Known
    <3>2. D \in SUBSET DOMAIN note.base
      BY DEF Known
    <3>3. Promised(note, D \cup {m}) = P + share /\ Rounding(D \cup {m}) = R + 50
      <4> HIDE DEF D
      <4> QED BY <1>1, <3>1, <3>2, PromisedMore
    <3>4. P \in Nat /\ R \in Nat /\ d \in Nat /\ k \in Nat /\ T \in Nat
      BY <1>1, <1>11, <3>2, PromisedIs, DueTyped
    <3>5. note.base[m] = shares[m] /\ share \in Nat
      BY <1>10, <2>4, <2>7, GivesWithin
    <3>6. /\ more \in Nat /\ 100 * more <= share + 50
          /\ reading = shares[m] => 100 * more >= share - 50
      <4>1. CASE reading = 0
        <5>1. reading = shares[m] => share = 0
          <6>1. offer.equity * 0 = 0
            BY DEF MemberInv, MemberTypeOK, OfferState
          <6> QED BY <3>5, <4>1, <6>1
        <5> HIDE DEF share
        <5> QED BY <3>5, <4>1, <5>1
      <4>2. CASE reading # 0
        <5>1. reading = shares[m] /\ more = Gives(shares[m])
          BY <4>2
        <5>2. /\ Gives(shares[m]) \in Nat
              /\ 100 * Gives(shares[m]) <= offer.equity * shares[m] + 50
              /\ 100 * Gives(shares[m]) >= offer.equity * shares[m] - 50
          BY <1>10, GivesWithin
        <5> QED BY <3>5, <5>1, <5>2
      <4> QED BY <4>1, <4>2
    <3>7. Total(x.plan) = T + more
      BY <1>6, <1>11
    <3> HIDE DEF more, share
    <3>8. TakesEnough(answer[q], noted[q])'
      <4>1. ~new.short => ~note.short /\ reading = shares[m]
        BY <1>9, <1>13, Zenon
      <4>2. ASSUME ~new.short PROVE 100 * (T + more) >= P + share - (R + 50) /\ k >= 0
        <5>1. 100 * T >= P - R
          BY <2>1, <2>7, <4>1, <4>2 DEF Fair, TakesEnough
        <5>2. 100 * more >= share - 50
          BY <3>6, <4>1, <4>2
        <5> HIDE DEF T, P, R, k
        <5> QED BY <3>4, <3>5, <3>6, <5>1, <5>2
      <4>3. ~(x.run > 1)
        BY <1>6, <2>7 DEF FirstRun
      <4>4. ASSUME ~new.short
            PROVE  /\ 100 * Total(x.plan) >= Promised(new, Known(x, new)) - Rounding(Known(x, new))
                   /\ new.taken >= Found(x)
        <5>1. Promised(new, Known(x, new)) = P + share /\ Rounding(Known(x, new)) = R + 50
          BY <1>13, <2>2, <3>1, <3>3
        <5>2. new.taken = k /\ Found(x) = 0
          BY <1>9, <1>12, <1>13
        <5>3. 100 * (T + more) >= P + share - (R + 50) /\ k >= 0
          BY <4>2, <4>4
        <5> HIDE DEF D, T, P, R, k
        <5>4. new.taken >= Found(x)
          BY <5>2, <5>3
        <5>5. 100 * Total(x.plan) >= Promised(new, Known(x, new)) - Rounding(Known(x, new))
          BY <3>4, <3>5, <3>6, <3>7, <5>1, <5>3
        <5> QED BY <5>4, <5>5
      <4> QED BY <2>1, <2>2, <2>3, <4>3, <4>4 DEF TakesEnough
    <3>9. TakesNoMore(answer[q], noted[q], Due(q))'
      <4> SUFFICES ASSUME ~note.resent
                   PROVE  100 * (k + d + (T + more) - 0) <= P + share + (R + 50)
        BY <1>9, <1>12, <1>13, <2>1, <2>2, <2>3, <3>1, <3>3, <3>7 DEF TakesNoMore
      <4>1. 100 * (k + d + T - 0) <= P + R
        BY <1>12, <2>1, <2>7 DEF Fair, TakesNoMore, FirstRun
      <4> HIDE DEF T, P, R, k, d
      <4> QED BY <3>4, <3>5, <3>6, <4>1
    <3> QED BY <2>5, <3>8, <3>9 DEF Fair
  <2> QED BY <2>6, <2>7
<1>14. /\ answer' = [answer EXCEPT ![q] = x] /\ IsFiniteSet(inflight')
       /\ BeforeSending(x) => Sent(q)' = {}
  BY <1>4, <1>5, <1>8 DEF EquityInv, x
<1> QED BY <1>1, <1>5, <1>7, <1>8, <1>9, <1>13, <1>14, OneMoves

\* A batch lands: what was due is taken.  While nothing is disturbed, no other
\* request is at work, and all balances of this one were read.
LEMMA LandsEquity ==
  ASSUME MemberInv, MemberInv', EquityInv, NEW t \in inflight, BatchLands(t)
  PROVE  EquityInv'
<1> DEFINE q == t.by
           r == answer[q]
           seen == r.found \/ t \in {Attempt(q, n) : n \in 1..r.sends}
           x == [r EXCEPT !.found = seen]
           note == noted[q]
           new == noted[q]'
           D == Known(r, note)
           u == Total(t.gives)
<1>1. /\ t \in AttemptState /\ q \in Answer /\ t.gives \in Seq(Give) /\ r \in AnswerState
      /\ disturbed \in BOOLEAN /\ note \in NoteState /\ noted \in [Answer -> NoteState]
      /\ answer \in [Answer -> AnswerState] /\ disturbed' \in BOOLEAN
  BY DEF MemberInv, MemberTypeOK, AttemptState
<1>2. /\ r.plan \in Seq(Give) /\ r.pos \in Nat /\ r.sends \in Nat /\ r.found \in BOOLEAN
      /\ note.taken \in Nat /\ BatchSize \in Nat /\ u \in Nat
  BY <1>1, TotalIs, MemberOfferAssumption DEF AnswerState, NoteState
<1>3. /\ answer' = [answer EXCEPT ![q] = x] /\ inflight' = inflight \ {t}
      /\ UNCHANGED <<offer, members>>
      /\ IF AtWork \ {q} # {} THEN Disturbs(TRUE)
         ELSE /\ Notes(q, [noted[q] EXCEPT !.taken = @ + u])
              /\ UNCHANGED disturbed
  BY DEF BatchLands
<1>4. r.found => r.sends > 0
  BY <1>1 DEF EquityInv, Orderly
<1>5. ASSUME seen, ~r.found
      PROVE  /\ r.sends > 0 /\ u = Total(BatchOf(q))
  <2>1. PICK n \in 1..r.sends : t = Attempt(q, n)
    BY <1>5
  <2> QED BY <1>2, <2>1 DEF Attempt
<1>6. seen \in BOOLEAN /\ (r.found => seen)
  BY <1>2
<1> HIDE DEF seen
<1>7. /\ x.pc = r.pc /\ x.run = r.run /\ x.todo = r.todo /\ x.plan = r.plan
      /\ x.pos = r.pos /\ x.sends = r.sends /\ x.found = seen /\ x.accepts = r.accepts
      /\ x.lite = r.lite
  BY <1>1, <1>6 DEF AnswerState
<1> HIDE DEF x
<1> HIDE DEF q
<1>8. t \in Sent(q) /\ ~BeforeSending(r) /\ Orderly(r) /\ offer.status # "none"
  <2>1. t \in Sent(q)
    BY DEF Sent, q
  <2>2. ~BeforeSending(r) /\ Orderly(r)
    BY <1>1, <2>1 DEF EquityInv
  <2>3. r.pc # "idle"
    BY <2>2 DEF BeforeSending, Orderly
  <2> QED BY <1>1, <2>1, <2>2, <2>3 DEF EquityInv
<1>9. Orderly(x) /\ ~BeforeSending(x)
  BY <1>4, <1>5, <1>6, <1>7, <1>8 DEF Orderly, BeforeSending
<1>10. Sent(q)' = Sent(q) \ {t} /\ IsFiniteSet(inflight')
  BY <1>1, <1>3, FS_RemoveElement DEF Sent, EquityInv
<1>11. disturbed => disturbed'
  <2>1. CASE AtWork \ {q} # {}
    BY <1>3, <2>1 DEF Disturbs
  <2>2. CASE AtWork \ {q} = {}
    BY <1>3, <2>2
  <2> QED BY <2>1, <2>2
<1>12. ASSUME ~disturbed'
       PROVE  /\ \A p \in Answer : p # q => noted'[p] = noted[p]
              /\ \A p \in AtWork : p = q
              /\ new.base = note.base /\ new.taken = note.taken + u
              /\ new.resent = note.resent /\ new.short = note.short
  <2>1. ~disturbed /\ AtWork \ {q} = {}
    BY <1>3, <1>11, <1>12 DEF Disturbs
  <2>2. noted' = [noted EXCEPT ![q] = [noted[q] EXCEPT !.taken = @ + u]]
    BY <1>3, <2>1 DEF Notes
  <2> HIDE DEF u
  <2> QED BY <1>1, <2>1, <2>2 DEF NoteState
<1>13. Due(q) \in Nat /\ Due(q) = Due(q)' + u /\ Due(q)' \in Int
  <2> DEFINE f == [s \in Sent(q) |-> Total(s.gives)]
             e == [s \in Sent(q) \ {t} |-> Total(s.gives)]
             S == Sent(q)
  <2>1. Due(q)' = SumFunctionOnSet(e, S \ {t}) /\ Due(q) = SumFunctionOnSet(f, S)
    BY <1>10 DEF Due
  <2>2. IsFiniteSet(S) /\ IsFiniteSet(S \ {t}) /\ \A s \in S : f[s] \in Int
    BY <1>1, DueTyped, FS_RemoveElement
  <2>3. f[t] = u /\ \A s \in S \ {t} : e[s] = f[s]
    BY <1>8
  <2> HIDE DEF e, f, S
  <2>4. SumFunctionOnSet(f, S) = f[t] + SumFunctionOnSet(f, S \ {t})
    BY <1>8, <2>2, SumWithout DEF S
  <2>5. SumFunctionOnSet(e, S \ {t}) = SumFunctionOnSet(f, S \ {t})
    BY <2>2, <2>3, SumSame
  <2>6. SumFunctionOnSet(f, S \ {t}) \in Int
    BY <2>2, SumIsInt
  <2>7. Due(q) \in Nat
    BY <1>1, DueTyped
  <2> HIDE DEF u
  <2> QED BY <1>2, <2>1, <2>3, <2>4, <2>5, <2>6, <2>7
<1>14. ASSUME ~disturbed' PROVE Fair(q)'
  <2> DEFINE T == Total(r.plan)
             d == Due(q)
             c == Due(q)'
             k == note.taken
             P == Promised(note, D)
             R == Rounding(D)
             A == DOMAIN note.base
             PA == Promised(note, A)
             RA == Rounding(A)
             g == GivenUpTo(r.plan, r.pos)
             h == GivenUpTo(r.plan, r.pos + BatchSize)
  <2>1. Fair(q) /\ answer'[q] = x
    BY <1>1, <1>3, <1>11, <1>14 DEF EquityInv
  <2>2. Known(x, new) = D /\ DOMAIN new.base = A
    BY <1>7, <1>12, <1>14 DEF Known
  <2>3. /\ \A n, B : Promised(n, B)' = Promised(n, B)
        /\ \A B : Promised(new, B) = Promised(note, B)
    BY <1>3, <1>12, <1>14 DEF Promised
  <2>4. /\ FirstRun(x) <=> FirstRun(r)
        /\ Carried(x) <=> Carried(r)
        /\ Broadcast(x) = Broadcast(r)
    BY <1>7 DEF FirstRun, Carried, Broadcast
  <2>5. /\ T \in Nat /\ P \in Nat /\ R \in Nat /\ PA \in Nat /\ RA \in Nat /\ k \in Nat
        /\ d \in Nat /\ c \in Int /\ d = c + u
    <3>1. D \in SUBSET A /\ A \in SUBSET A
      BY DEF Known
    <3> QED BY <1>1, <1>2, <1>13, <3>1, TotalIs, PromisedIs
  <2>6. Stands(answer[q], noted[q])'
    <3>1. FirstRun(r) => r.todo = {}
      BY <1>8 DEF BeforeSending, FirstRun
    <3> QED BY <1>7, <2>1, <2>4, <3>1 DEF Stands
  <2>7. Found(r) \in Nat /\ Found(x) \in Nat /\ (k >= Found(r) => k + u >= Found(x))
    <3>1. g \in Nat /\ h \in Nat
      <4>1. r.pos + BatchSize \in Nat
        BY <1>2
      <4> QED BY <1>2, <4>1, GivenEnds
    <3>2. Found(r) = IF r.found THEN h ELSE g
      BY <1>2 DEF Found
    <3>3. Found(x) = IF seen THEN h ELSE g
      BY <1>2, <1>7 DEF Found
    <3>4. seen /\ ~r.found => h = g + u
      <4> SUFFICES ASSUME seen, ~r.found PROVE h = g + u
        OBVIOUS
      <4>1. r.sends > 0 /\ u = Total(BatchOf(q))
        BY <1>5
      <4>2. r.pos < Len(r.plan)
        BY <1>8, <4>1 DEF Orderly
      <4> QED BY <1>1, <4>1, <4>2, BatchGives
    <3> HIDE DEF g, h, u, k
    <3> QED BY <1>2, <1>6, <2>5, <3>1, <3>2, <3>3, <3>4
  <2>8. TakesEnough(answer[q], noted[q])'
    <3>1. ASSUME ~new.short
          PROVE  /\ FirstRun(x) => /\ 100 * Total(x.plan) >= Promised(new, D) - R
                                   /\ new.taken >= Found(x)
                 /\ x.run > 1 \/ Carried(x) => 100 * new.taken >= Promised(new, A) - RA
      <4>1. ~note.short /\ new.taken = k + u
        BY <1>12, <1>14, <3>1
      <4>2. FirstRun(x) => /\ 100 * T >= P - R /\ k >= Found(r)
        BY <2>1, <2>4, <4>1 DEF Fair, TakesEnough
      <4>3. x.run > 1 \/ Carried(x) => 100 * k >= PA - RA
        BY <1>7, <2>1, <2>4, <4>1 DEF Fair, TakesEnough, Enough
      <4>4. Total(x.plan) = T /\ Promised(new, D) = P /\ Promised(new, A) = PA
        BY <1>7, <1>14, <2>3
      <4> HIDE DEF T, P, R, PA, RA, k, u, A, D
      <4>5. 100 * k >= PA - RA => 100 * (k + u) >= PA - RA
        BY <1>2, <2>5
      <4> QED BY <1>2, <2>5, <2>7, <4>1, <4>2, <4>3, <4>4, <4>5
    <3> QED BY <2>1, <2>2, <2>3, <3>1 DEF TakesEnough, Enough
  <2>9. TakesNoMore(answer[q], noted[q], Due(q))'
    <3>1. ASSUME ~new.resent, x.run = 1
          PROVE  /\ FirstRun(x) => 100 * (new.taken + c + Total(x.plan) - Broadcast(x))
                                       <= Promised(new, D) + R
                 /\ Carried(x) => 100 * (new.taken + c) <= Promised(new, A) + RA
      <4>1. ~note.resent /\ r.run = 1 /\ new.taken = k + u
        BY <1>7, <1>12, <1>14, <3>1
      <4>2. FirstRun(x) => 100 * (k + d + T - Broadcast(r)) <= P + R
        BY <2>1, <2>4, <4>1 DEF Fair, TakesNoMore
      <4>3. Carried(x) => 100 * (k + d) <= PA + RA
        BY <2>1, <2>4, <4>1 DEF Fair, TakesNoMore, NotMore
      <4>4. Total(x.plan) = T /\ Promised(new, D) = P /\ Promised(new, A) = PA
        BY <1>7, <1>14, <2>3
      <4> HIDE DEF T, P, R, PA, RA, k, u, A, D, d, c
      <4>5. k + d = new.taken + c
        BY <1>2, <2>5, <4>1
      <4> QED BY <2>4, <4>2, <4>3, <4>4, <4>5
    <3> QED BY <2>1, <2>2, <2>3, <3>1 DEF TakesNoMore, NotMore
  <2> QED BY <2>6, <2>8, <2>9 DEF Fair
<1>15. /\ \A s \in inflight : s.by # q => s \in inflight'
       /\ \A s \in inflight' : s.by # q => s \in inflight
       /\ offer'.equity = offer.equity /\ offer'.status # "none"
  BY <1>3, <1>8 DEF q
<1> QED BY <1>1, <1>3, <1>8, <1>9, <1>10, <1>11, <1>12, <1>14, <1>15, OneMoves

\* A request starts, with nothing noted, sent or taken.
LEMMA ReadsOfferEquity ==
  ASSUME MemberInv, MemberInv', EquityInv, NEW q \in Answer, NEW account \in Candidate,
         NEW lite \in BOOLEAN, NEW accepts \in BOOLEAN, ReadsOffer(q, account, lite, accepts)
  PROVE  EquityInv'
<1> DEFINE r == answer[q]
           yes == [r EXCEPT !.pc = "read", !.by = account, !.lite = lite, !.accepts = accepts]
           no == [r EXCEPT !.pc = "refused"]
<1>1. /\ r \in AnswerState /\ r.pc = "idle" /\ offer.status # "none" /\ Orderly(r)
      /\ disturbed' \in BOOLEAN /\ BeforeSending(r)
      /\ UNCHANGED <<offer, members, shares, broadcasts, inflight>>
  BY DEF ReadsOffer, MemberInv, MemberTypeOK, EquityInv, BeforeSending, Orderly
<1>2. PICK x : /\ answer' = [answer EXCEPT ![q] = x]
               /\ x = yes \/ x = no
  <2>1. answer' = [answer EXCEPT ![q] =
                      IF offer.status = "pending" /\ ~offer.revoked THEN yes ELSE no]
    BY DEF ReadsOffer
  <2> HIDE DEF yes, no
  <2> QED BY <2>1
<1>3. /\ x.pc \in {"read", "refused"} /\ x.run = 1 /\ x.todo = r.todo /\ x.plan = r.plan
      /\ x.pos = r.pos /\ x.sends = r.sends /\ x.found = r.found
  BY <1>1, <1>2 DEF AnswerState, Orderly
<1>4. Orderly(x) /\ ~FirstRun(x) /\ ~Carried(x) /\ ~(x.run > 1)
  BY <1>1, <1>3 DEF Orderly, FirstRun, Carried
<1>5. Sent(q)' = {} /\ IsFiniteSet(inflight')
  BY <1>1 DEF Sent, EquityInv
<1>6. /\ disturbed => disturbed'
      /\ ~disturbed' => noted' = noted
  BY DEF ReadsOffer, Disturbs
<1>7. answer'[q] = x
  BY <1>2 DEF MemberInv, MemberTypeOK
<1>8. Fair(q)'
  <2>1. Stands(answer[q], noted[q])'
    BY <1>4, <1>7 DEF Stands
  <2>2. TakesEnough(answer[q], noted[q])'
    BY <1>4, <1>7 DEF TakesEnough
  <2>3. TakesNoMore(answer[q], noted[q], Due(q))'
    BY <1>4, <1>7 DEF TakesNoMore
  <2> QED BY <2>1, <2>2, <2>3 DEF Fair
<1> QED BY <1>1, <1>2, <1>4, <1>5, <1>6, <1>8, OneMoves

\* The offer is made while no request is at work on it, and revoking it leaves the
\* equity as it is.
LEMMA OfferWrittenEquity ==
  ASSUME MemberInv, EquityInv,
         \/ CreateOffer \/ RevokeOffer \/ \E percent \in Percents : CreateLiteOffer(percent)
  PROVE  EquityInv'
<1>1. UNCHANGED <<answer, shares, inflight, noted, disturbed>> /\ offer'.status # "none"
  <2>1. offer \in OfferState
    BY DEF MemberInv, MemberTypeOK
  <2> QED BY <2>1 DEF CreateOffer, RevokeOffer, CreateLiteOffer, OfferState
<1>2. offer.status = "none" \/ offer'.equity = offer.equity
  <2>1. offer \in OfferState
    BY DEF MemberInv, MemberTypeOK
  <2> QED BY <2>1 DEF CreateOffer, RevokeOffer, CreateLiteOffer, OfferState
<1>3. \A q \in Answer : Sent(q)' = Sent(q) /\ Due(q)' = Due(q)
  BY <1>1 DEF Sent, Due
<1>4. ASSUME ~disturbed, NEW q \in Answer PROVE Fair(q)'
  <2>1. Fair(q) /\ Orderly(answer[q])
    BY <1>4 DEF EquityInv
  <2>2. Stands(answer[q], noted[q])'
    BY <1>1, <2>1 DEF Fair, Stands
  <2>3. CASE offer.status = "none"
    <3>1. answer[q].pc = "idle" /\ answer[q].run = 1
      BY <2>1, <2>3 DEF EquityInv, Orderly
    <3>2. ~FirstRun(answer[q]) /\ ~Carried(answer[q]) /\ ~(answer[q].run > 1)
      BY <3>1 DEF FirstRun, Carried
    <3> QED BY <1>1, <2>2, <3>2 DEF Fair, TakesEnough, TakesNoMore
  <2>4. CASE offer'.equity = offer.equity
    <3>1. \A n, A : Promised(n, A)' = Promised(n, A)
      BY <2>4 DEF Promised
    <3>2. TakesEnough(answer[q], noted[q])'
      BY <1>1, <2>1, <3>1 DEF Fair, TakesEnough, Enough
    <3>3. TakesNoMore(answer[q], noted[q], Due(q))'
      BY <1>1, <1>3, <2>1, <3>1 DEF Fair, TakesNoMore, NotMore
    <3> QED BY <2>2, <3>2, <3>3 DEF Fair
  <2> QED BY <1>2, <2>3, <2>4
<1> QED BY <1>1, <1>3, <1>4 DEF EquityInv

\* A restart ends the requests at work, and leaves the others as they are.
LEMMA RestartsEquity ==
  ASSUME MemberInv, EquityInv, ServerRestarts
  PROVE  EquityInv'
<1>1. /\ answer' = [q \in Answer |-> IF q \in AtWork THEN Failed(answer[q]) ELSE answer[q]]
      /\ UNCHANGED <<offer, members, shares, broadcasts, inflight, noted, disturbed>>
  BY DEF ServerRestarts
<1>2. \A q \in Answer : Sent(q)' = Sent(q) /\ Due(q)' = Due(q)
  BY <1>1 DEF Sent, Due
<1>3. ASSUME NEW q \in Answer
      PROVE  /\ Orderly(answer'[q])
             /\ answer'[q].pc # "idle" => offer.status # "none"
             /\ BeforeSending(answer'[q]) => BeforeSending(answer[q])
             /\ ~disturbed => Fair(q)'
  <2>1. answer[q] \in AnswerState
    BY DEF MemberInv, MemberTypeOK
  <2>2. CASE q \in AtWork
    <3> DEFINE x == Failed(answer[q])
    <3>1. answer'[q] = x
      BY <1>1, <2>2
    <3>2. /\ x.pc = "failed" /\ x.run = 1 /\ x.plan = <<>> /\ x.pos = 0 /\ x.sends = 0
          /\ ~x.found
      BY <2>1, FreshIs
    <3> HIDE DEF x
    <3>3. /\ ~FirstRun(x) /\ ~Carried(x) /\ ~(x.run > 1) /\ Orderly(x) /\ ~BeforeSending(x)
      BY <3>2 DEF FirstRun, Carried, Orderly, BeforeSending
    <3>4. answer[q].pc # "idle"
      BY <2>2 DEF AtWork, Working
    <3>5. Fair(q)'
      BY <3>1, <3>3 DEF Fair, Stands, TakesEnough, TakesNoMore
    <3> QED BY <3>1, <3>3, <3>4, <3>5 DEF EquityInv
  <2>3. CASE q \notin AtWork
    <3>1. answer'[q] = answer[q]
      BY <1>1, <2>3
    <3>2. \A n, A : Promised(n, A)' = Promised(n, A)
      BY <1>1 DEF Promised
    <3>3. ASSUME ~disturbed PROVE Fair(q)'
      <4>1. Fair(q)
        BY <3>3 DEF EquityInv
      <4>2. Stands(answer[q], noted[q])'
        BY <1>1, <3>1, <4>1 DEF Fair, Stands
      <4>3. TakesEnough(answer[q], noted[q])'
        BY <1>1, <3>1, <3>2, <4>1 DEF Fair, TakesEnough, Enough
      <4>4. TakesNoMore(answer[q], noted[q], Due(q))'
        BY <1>1, <1>2, <3>1, <3>2, <4>1 DEF Fair, TakesNoMore, NotMore
      <4> QED BY <4>2, <4>3, <4>4 DEF Fair
    <3> QED BY <3>1, <3>3 DEF EquityInv
  <2> QED BY <2>2, <2>3
<1> QED BY <1>1, <1>2, <1>3 DEF EquityInv

LEMMA EquityStarts == MemberOffersInit => EquityInv
<1> SUFFICES ASSUME MemberOffersInit PROVE EquityInv
  OBVIOUS
<1>1. inflight = {} /\ IsFiniteSet(inflight) /\ \A q \in Answer : Sent(q) = {}
  BY FS_EmptySet DEF MemberOffersInit, Sent
<1>2. ASSUME NEW q \in Answer
      PROVE  Orderly(answer[q]) /\ answer[q].pc = "idle" /\ Fair(q)
  <2>1. answer[q] = IdleAnswer
    BY DEF MemberOffersInit
  <2>2. /\ answer[q].pc = "idle" /\ answer[q].run = 1 /\ answer[q].plan = <<>>
        /\ answer[q].pos = 0 /\ answer[q].sends = 0 /\ ~answer[q].found
    BY <2>1 DEF IdleAnswer
  <2>3. ~FirstRun(answer[q]) /\ ~Carried(answer[q]) /\ ~(answer[q].run > 1)
    BY <2>2 DEF FirstRun, Carried
  <2> QED BY <2>2, <2>3 DEF Orderly, Fair, Stands, TakesEnough, TakesNoMore
<1> QED BY <1>1, <1>2 DEF EquityInv

LEMMA EquityStands ==
  ASSUME EquityInv, UNCHANGED memberOfferVars
  PROVE  EquityInv'
<1>1. UNCHANGED <<offer, answer, shares, inflight, noted, disturbed>>
  BY DEF memberOfferVars
<1>2. \A q \in Answer : Sent(q)' = Sent(q) /\ Due(q)' = Due(q)
  BY <1>1 DEF Sent, Due
<1>3. \A n, A : Promised(n, A)' = Promised(n, A)
  BY <1>1 DEF Promised
<1>4. ASSUME ~disturbed, NEW q \in Answer PROVE Fair(q)'
  <2>1. Fair(q)
    BY <1>4 DEF EquityInv
  <2>2. Stands(answer[q], noted[q])'
    BY <1>1, <2>1 DEF Fair, Stands
  <2>3. TakesEnough(answer[q], noted[q])'
    BY <1>1, <1>3, <2>1 DEF Fair, TakesEnough, Enough
  <2>4. TakesNoMore(answer[q], noted[q], Due(q))'
    BY <1>1, <1>2, <1>3, <2>1 DEF Fair, TakesNoMore, NotMore
  <2> QED BY <2>2, <2>3, <2>4 DEF Fair
<1> QED BY <1>1, <1>2, <1>4 DEF EquityInv

LEMMA EquityNext ==
  MemberInv /\ EquityInv /\ [MemberOffersNext]_memberOfferVars => MemberInv' /\ EquityInv'
<1> SUFFICES ASSUME MemberInv, EquityInv, [MemberOffersNext]_memberOfferVars
             PROVE  MemberInv' /\ EquityInv'
  OBVIOUS
<1>1. MemberInv'
  BY MemberNext
<1>2. CASE UNCHANGED memberOfferVars
  BY <1>1, <1>2, EquityStands
<1>3. CASE CreateOffer \/ RevokeOffer \/ \E percent \in Percents : CreateLiteOffer(percent)
  BY <1>1, <1>3, OfferWrittenEquity
<1>4. CASE \E q \in Answer, account \in Candidate, lite, accepts \in BOOLEAN :
               ReadsOffer(q, account, lite, accepts)
  BY <1>1, <1>4, ReadsOfferEquity
<1>5. ASSUME NEW q \in Answer, AnswerStep(q) PROVE EquityInv'
  BY <1>1, <1>5, GoesEquity, EndsEquity, BatchEndsEquity, PreparesEquity, SendsEquity,
     ReadsBalanceEquity DEF AnswerStep
<1>6. CASE \E t \in inflight : BatchLands(t)
  BY <1>1, <1>6, LandsEquity
<1>7. CASE ServerRestarts
  BY <1>1, <1>7, RestartsEquity
<1> QED BY <1>1, <1>2, <1>3, <1>4, <1>5, <1>6, <1>7 DEF MemberOffersNext

\* An account that accepted and was not disturbed has the equity the offer promised,
\* half a lamport for each member more or less: less only if a batch failed or a
\* balance was not read, more only if something was done again.
THEOREM EquityHasCause == MemberOffersSpec => []EquityNeedsCause
<1>1. ASSUME MemberInv, EquityInv PROVE EquityNeedsCause
  <2> SUFFICES ASSUME ~disturbed, NEW q \in Answer, answer[q].pc = "done",
                      answer[q].accepts, answer[q].lite
               PROVE  LET base == noted[q].base
                          promised == SumFunction(base) * offer.equity
                          rounding == 50 * Cardinality(DOMAIN base)
                      IN  /\ 100 * noted[q].taken < promised - rounding => noted[q].short
                          /\ 100 * noted[q].taken > promised + rounding =>
                                 answer[q].run > 1 \/ noted[q].resent
    BY DEF EquityNeedsCause
  <2> DEFINE note == noted[q]
             A == DOMAIN note.base
             P == SumFunction(note.base) * offer.equity
             R == 50 * Cardinality(A)
             d == Due(q)
             k == note.taken
  <2>1. note \in NoteState /\ note.taken \in Nat /\ offer.equity \in Nat /\ answer[q].run \in Nat
    <3>1. note \in NoteState /\ offer \in OfferState /\ answer[q] \in AnswerState
      BY <1>1 DEF MemberInv, MemberTypeOK
    <3>2. note.taken \in Nat
      BY <3>1 DEF NoteState
    <3>3. offer.equity \in Nat
      BY <3>1 DEF OfferState
    <3>4. answer[q].run \in Nat
      BY <3>1 DEF AnswerState
    <3> QED BY <3>1, <3>2, <3>3, <3>4
  <2>2. P = Promised(note, A) /\ R = Rounding(A) /\ P \in Nat /\ R \in Nat
    <3> DEFINE s == SumFunctionOnSet(note.base, A)
    <3>1. s \in Nat /\ Promised(note, A) \in Nat /\ Rounding(A) \in Nat
      <4>1. A \in SUBSET A
        OBVIOUS
      <4> QED BY <1>1, <2>1, <4>1, BaseTyped, PromisedIs
    <3>2. SumFunction(note.base) = s
      BY DEF SumFunction
    <3>3. s * offer.equity = offer.equity * s
      <4> HIDE DEF s
      <4> QED BY <2>1, <3>1
    <3> QED BY <3>1, <3>2, <3>3 DEF Promised, Rounding
  <2>3. d \in Nat
    BY <1>1, DueTyped
  <2>4. Fair(q) /\ Carried(answer[q]) /\ answer[q].run >= 1
    BY <1>1 DEF EquityInv, Orderly, Carried
  <2>5. ~note.short => 100 * k >= P - R
    BY <2>2, <2>4 DEF Fair, TakesEnough, Enough
  <2>6. ~note.resent /\ answer[q].run = 1 => 100 * (k + d) <= P + R
    BY <2>2, <2>4 DEF Fair, TakesNoMore, NotMore
  <2> HIDE DEF P, R, d, k
  <2>7. ~(answer[q].run > 1) => answer[q].run = 1
    BY <2>1, <2>4
  <2>8. 100 * k < P - R => note.short
    <3>1. k \in Nat
      BY <2>1 DEF k
    <3>2. 100 * k >= P - R => ~(100 * k < P - R)
      BY <2>2, <3>1
    <3> QED BY <2>5, <3>2
  <2>9. 100 * k > P + R => answer[q].run > 1 \/ note.resent
    <3>1. k \in Nat
      BY <2>1 DEF k
    <3>2. 100 * (k + d) <= P + R => ~(100 * k > P + R)
      BY <2>2, <2>3, <3>1
    <3> QED BY <2>6, <2>7, <3>2
  <2> QED BY <2>8, <2>9 DEF P, R, k
<1>2. MemberOffersInit => MemberInv /\ EquityInv
  BY MemberInit, EquityStarts
<1> QED BY <1>1, <1>2, EquityNext, PTL DEF MemberOffersSpec

=============================================================================
