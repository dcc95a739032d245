---------------------------- MODULE AirdropProofs ----------------------------
(***************************************************************************)
(* What holds of the airdrop's claims for any wallets, requests, rounds of *)
(* the scripts and restarts, of the logins at Twitter for any owners,      *)
(* logins and accounts, and of what wallets can claim, have used and have  *)
(* held.                                                                   *)
(***************************************************************************)
EXTENDS Airdrop, Socials, AirdropShares, Sums, SequenceTheorems, FiniteSetTheorems, TLAPS

(***************************************************************************)
(* The inductive invariant of the claims.  Whether a wallet is paid too    *)
(* often is a matter of counting what could still pay it; why a claim is   *)
(* lost is a matter of what advanced the nonce.                            *)
(***************************************************************************)

\* A request that uses a nonce account uses one that is on chain, and one that is
\* to create its own has not yet.
AccountsExist ==
    /\ \A q \in Req :
           /\ req[q].account \in Req => nonceValue[req[q].account] >= 1
           /\ req[q].pc \in {"idle", "read", "nonce", "account"} => nonceValue[q] = 0
           /\ req[q].pc \in {"keep", "sign", "mark", "answer", "handed"} \cup Posting =>
                  req[q].account \in Req
           /\ req[q].pc = "keep" => req[q].account = q
    /\ \A i \in 1..Len(nonces) : nonceValue[nonces[i]] >= 1

\* A request signs once, only a transaction that was handed out is sent, and it is
\* built with a value its nonce has had.
SignedInOrder ==
    \A q \in Req :
        /\ req[q].pc \in {"idle", "refused", "read", "nonce", "account", "keep", "sign"} =>
               txn[q].state = "none"
        /\ req[q].pc \in {"mark", "answer", "handed"} \cup Posting => txn[q].state # "none"
        /\ txn[q].state \in {"inflight", "landed", "failed"} =>
               req[q].pc \in {"handed"} \cup Posting
        /\ txn[q].state # "none" => /\ req[q].account \in Req
                                    /\ txn[q].value >= 1
                                    /\ txn[q].value <= nonceValue[req[q].account]

\* Every value a nonce had and has no more was spent by a transaction built with it.
ValuesAreSpent ==
    \A a \in Req, v \in Nat : 1 <= v /\ v < nonceValue[a] =>
        \E p \in Req : /\ txn[p].state \in {"landed", "failed"}
                       /\ req[p].account = a
                       /\ txn[p].value = v

\* A mark is that of a request that had signed by then.
MarkIsSigned ==
    \A w \in Wallet : row[w].isClaim =>
        \E q \in Req : /\ req[q].wallet = w
                       /\ txn[q].state # "none"
                       /\ req[q].pc \in {"answer", "handed", "failed", "dead"} \cup Posting

\* Requests that have found the claim and not marked it yet.
Marking == {"nonce", "account", "keep", "sign", "mark"}

\* The requests of a wallet whose transactions may pay it, and those that did.
Taking(w) == {q \in Req : /\ req[q].wallet = w
                          /\ req[q].pc \in Marking \cup {"answer", "handed"} \cup Posting}
LandedOf(w) == {q \in Req : req[q].wallet = w /\ txn[q].state = "landed"}

\* The claim in the row, unless a request that has found it is still to mark it.
Left(w) == IF Claimable(w) /\ (\A q \in Req : req[q].wallet = w => req[q].pc \notin Marking)
           THEN 1 ELSE 0

OneCreates ==
    \A w \in Wallet \ overlap : \A p, q \in Req :
        /\ req[p].wallet = w /\ req[p].pc \in Creating
        /\ req[q].wallet = w /\ req[q].pc \in Creating
        => p = q

\* What may pay a wallet, with the claim that is left, is not more than what was priced.
TakingIsPriced ==
    \A w \in Wallet \ overlap :
        /\ IsFiniteSet(Taking(w))
        /\ Cardinality(Taking(w)) + Left(w) <= priced[w]

PaidIsLanded ==
    \A w \in Wallet : IsFiniteSet(LandedOf(w)) /\ paid[w] = Cardinality(LandedOf(w))

Inv ==
    /\ TypeOK
    /\ AccountsExist
    /\ SignedInOrder
    /\ ValuesAreSpent
    /\ MarkIsSigned
    /\ OneCreates
    /\ TakingIsPriced
    /\ PaidIsLanded

LEMMA InitInv == Init => Inv
<1> SUFFICES ASSUME Init PROVE Inv
  OBVIOUS
<1>1. TypeOK
  BY AirdropAssumption DEF Init, TypeOK, NoRow, Unanswered, Creating, Posting
<1>2. AccountsExist /\ SignedInOrder /\ ValuesAreSpent /\ MarkIsSigned /\ OneCreates
  BY AirdropAssumption
  DEF Init, AccountsExist, SignedInOrder, ValuesAreSpent, MarkIsSigned, OneCreates, NoRow,
      Creating, Posting
<1>3. \A w \in Wallet : Taking(w) = {} /\ LandedOf(w) = {} /\ Left(w) = 0 /\ priced[w] = 0
  BY DEF Init, Taking, LandedOf, Left, Claimable, NoRow, Marking, Posting
<1>4. IsFiniteSet({}) /\ Cardinality({}) = 0
  BY FS_EmptySet
<1>5. TakingIsPriced
  BY <1>3, <1>4 DEF TakingIsPriced
<1>6. PaidIsLanded
  BY <1>3, <1>4 DEF PaidIsLanded, Init
<1> QED BY <1>1, <1>2, <1>5, <1>6 DEF Inv

(***************************************************************************)
(* What a step makes of the request that takes it.                         *)
(***************************************************************************)

ReqState == [pc : {"idle", "refused", "handed", "failed", "dead"} \cup Unanswered \cup Posting,
             wallet : Wallet, account : Req \cup {NoReq}]
RowState == [claim : {"absent", "unpriced", "none", "some"}, isClaim : BOOLEAN,
             hash : Req \cup {NoReq}]
TxnState == [state : {"none", "signed", "inflight", "landed", "failed"}, value : Nat]

LEMMA StatesTyped ==
  TypeOK <=> /\ row \in [Wallet -> RowState]
             /\ req \in [Req -> ReqState]
             /\ nonces \in Seq(Req)
             /\ nonceValue \in [Req -> Nat]
             /\ txn \in [Req -> TxnState]
             /\ paid \in [Wallet -> Nat]
             /\ priced \in [Wallet -> 0..MaxPrice]
             /\ overlap \subseteq Wallet
             /\ crashes \in 0..MaxCrash
  BY DEF TypeOK, ReqState, RowState, TxnState

Becomes(q, to, account) ==
    /\ req' \in [Req -> ReqState]
    /\ \A p \in Req : p # q => req'[p] = req[p]
    /\ req'[q].pc = to /\ req'[q].wallet = req[q].wallet /\ req'[q].account = account

LEMMA Turns ==
  ASSUME TypeOK, NEW q \in Req, NEW new \in ReqState, new.wallet = req[q].wallet,
         req' = [req EXCEPT ![q] = new]
  PROVE  Becomes(q, new.pc, new.account)
<1>1. req \in [Req -> ReqState]
  BY StatesTyped
<1> QED BY <1>1 DEF Becomes

LEMMA GoesBecomes ==
  ASSUME TypeOK, NEW q \in Req,
         NEW to \in {"refused", "handed", "failed"} \cup Unanswered \cup Posting, Goes(q, to)
  PROVE  Becomes(q, to, req[q].account)
<1>1. req[q] \in ReqState
  BY StatesTyped
<1> DEFINE new == [req[q] EXCEPT !.pc = to]
<1>2. /\ new \in ReqState /\ new.wallet = req[q].wallet
      /\ new.pc = to /\ new.account = req[q].account
  BY <1>1 DEF ReqState
<1>3. req' = [req EXCEPT ![q] = new]
  BY DEF Goes
<1> HIDE DEF new
<1> QED BY <1>2, <1>3, Turns

LEMMA AccountBecomes ==
  ASSUME TypeOK, NEW q \in Req, NEW to \in Creating, NEW account \in Req,
         req' = [req EXCEPT ![q].pc = to, ![q].account = account]
  PROVE  Becomes(q, to, account)
<1>1. req[q] \in ReqState
  BY StatesTyped
<1> DEFINE new == [req[q] EXCEPT !.pc = to, !.account = account]
<1>2. /\ new \in ReqState /\ new.wallet = req[q].wallet
      /\ new.pc = to /\ new.account = account
  BY <1>1 DEF ReqState, Unanswered
<1>3. req' = [req EXCEPT ![q] = new]
  OBVIOUS
<1> HIDE DEF new
<1> QED BY <1>2, <1>3, Turns

(***************************************************************************)
(* Counting.                                                               *)
(***************************************************************************)

\* The bound on what may pay a wallet.
Priced(w) == IsFiniteSet(Taking(w)) /\ Cardinality(Taking(w)) + Left(w) <= priced[w]

\* The bound is kept when nothing more may pay, even if the claim is left again
\* because a request that had found it gave up.
LEMMA CountKept ==
  ASSUME Inv, NEW w \in Wallet \ overlap, priced'[w] = priced[w],
         Taking(w)' \subseteq Taking(w),
         Left(w)' <= Left(w) \/ Taking(w)' # Taking(w)
  PROVE  Priced(w)'
<1>1. IsFiniteSet(Taking(w)) /\ Cardinality(Taking(w)) + Left(w) <= priced[w]
  BY DEF Inv, TakingIsPriced
<1>2. /\ IsFiniteSet(Taking(w)')
      /\ Cardinality(Taking(w)') <= Cardinality(Taking(w))
      /\ Cardinality(Taking(w)) = Cardinality(Taking(w)') => Taking(w) = Taking(w)'
  BY <1>1, FS_Subset
<1>3. /\ Cardinality(Taking(w)) \in Nat /\ Cardinality(Taking(w)') \in Nat
      /\ Left(w) \in {0, 1} /\ Left(w)' \in {0, 1} /\ priced[w] \in Nat
  BY <1>1, <1>2, FS_CardinalityType, AirdropAssumption DEF Left, Inv, TypeOK
<1> QED BY <1>1, <1>2, <1>3 DEF Priced

(***************************************************************************)
(* The steps of a request that leave the nonces and what was paid alone.   *)
(***************************************************************************)

\* What such a step has to respect.
Sound(q, to, account) ==
    /\ to \notin {"idle", "keep"}
    /\ account \in Req => nonceValue[account] >= 1
    /\ to \in {"read", "nonce", "account"} => nonceValue[q] = 0
    /\ to \in {"keep", "sign", "mark", "answer", "handed"} \cup Posting => account \in Req
    /\ to \in {"refused", "read", "nonce", "account", "keep", "sign"} => txn'[q].state = "none"
    /\ to \in {"mark", "answer", "handed"} \cup Posting => txn'[q].state # "none"
    /\ txn'[q].state \in {"inflight", "landed", "failed"} => to \in {"handed"} \cup Posting
    /\ txn'[q].state # "none" =>
           account \in Req /\ txn'[q].value >= 1 /\ txn'[q].value <= nonceValue[account]
    /\ txn[q].state \in {"landed", "failed"} \/ txn'[q].state \in {"landed", "failed"} =>
           txn'[q] = txn[q] /\ account = req[q].account
    /\ row'[req[q].wallet].isClaim =>
           \/ row[req[q].wallet].isClaim /\ (txn[q].state = "none" \/ txn'[q].state # "none")
           \/ to \in {"answer", "handed"} \cup Posting
    /\ req[q].pc \in {"answer", "handed", "failed", "dead"} \cup Posting =>
           to \in {"answer", "handed", "failed", "dead"} \cup Posting
    /\ to \in Creating =>
           \/ req[q].pc \in Creating
           \/ req[q].wallet \in overlap'
           \/ \A p \in Req \ {q} : req[p].wallet = req[q].wallet => req[p].pc \notin Creating

LEMMA QuietInv ==
  ASSUME Inv, NEW q \in Req, NEW to, NEW account,
         Becomes(q, to, account), Sound(q, to, account),
         row' \in [Wallet -> RowState], txn' \in [Req -> TxnState],
         nonces' \in Seq(Req), \A i \in 1..Len(nonces') : nonceValue[nonces'[i]] >= 1,
         overlap \subseteq overlap', overlap' \subseteq Wallet,
         \A p \in Req : p # q => txn'[p] = txn[p],
         \A w \in Wallet : w # req[q].wallet => row'[w] = row[w],
         \A w \in Wallet \ overlap' : w = req[q].wallet => Priced(w)',
         UNCHANGED <<nonceValue, paid, priced, crashes>>
  PROVE  Inv'
<1> USE DEF Becomes, Sound, Inv
<1>1. TypeOK'
  BY StatesTyped DEF TypeOK, ReqState, RowState, TxnState
<1>2. AccountsExist'
  <2>1. \A p \in Req :
           /\ req'[p].account \in Req => nonceValue'[req'[p].account] >= 1
           /\ req'[p].pc \in {"idle", "read", "nonce", "account"} => nonceValue'[p] = 0
           /\ req'[p].pc \in {"keep", "sign", "mark", "answer", "handed"} \cup Posting =>
                  req'[p].account \in Req
           /\ req'[p].pc = "keep" => req'[p].account = p
    BY DEF AccountsExist
  <2> QED BY <2>1 DEF AccountsExist
<1>3. SignedInOrder'
  BY DEF SignedInOrder
<1>4. ValuesAreSpent'
  BY DEF ValuesAreSpent
<1>5. MarkIsSigned'
  BY DEF MarkIsSigned
<1>6. OneCreates'
  BY DEF OneCreates
<1>7. TakingIsPriced'
  <2> SUFFICES ASSUME NEW w \in Wallet \ overlap' PROVE Priced(w)'
    BY DEF TakingIsPriced, Priced
  <2>1. CASE w # req[q].wallet
    <3>1. \A p \in Req : (req'[p].wallet = w <=> req[p].wallet = w) /\ (req[p].wallet = w => req'[p] = req[p])
      BY <2>1
    <3>2. Taking(w)' = Taking(w)
      BY <3>1 DEF Taking
    <3>3. Left(w)' = Left(w)
      BY <2>1, <3>1 DEF Left, Claimable
    <3>4. Left(w) <= Left(w)
      BY DEF Left
    <3> QED BY <3>2, <3>3, <3>4, CountKept
  <2> QED BY <2>1
<1>8. PaidIsLanded'
  <2>1. \A w \in Wallet : LandedOf(w)' = LandedOf(w)
    BY DEF LandedOf
  <2> QED BY <2>1 DEF PaidIsLanded
<1> QED BY <1>1, <1>2, <1>3, <1>4, <1>5, <1>6, <1>7, <1>8

\* The bound for the request's own wallet: nothing new may pay it, and the claim is
\* not left again unless the request itself gave up.
LEMMA OwnCount ==
  ASSUME Inv, NEW q \in Req, NEW to, NEW account, Becomes(q, to, account),
         NEW w \in Wallet \ overlap, w = req[q].wallet, UNCHANGED priced,
         to \in Marking \cup {"answer", "handed"} \cup Posting =>
             req[q].pc \in Marking \cup {"answer", "handed"} \cup Posting,
         \/ ~Claimable(w)'
         \/ /\ Claimable(w)
            /\ req[q].pc \in Marking =>
                   to \in Marking \/ to \notin {"answer", "handed"} \cup Posting
  PROVE  Priced(w)'
<1>2. \A p \in Req : /\ req'[p].wallet = req[p].wallet
                     /\ p # q => req'[p].pc = req[p].pc
  BY DEF Becomes
<1>3. req'[q].pc = to
  BY DEF Becomes
<1>4. Taking(w)' \subseteq Taking(w)
  BY <1>2, <1>3 DEF Taking
<1>5. Left(w)' <= Left(w) \/ Taking(w)' # Taking(w)
  <2>1. CASE ~Claimable(w)'
    BY <2>1 DEF Left
  <2>2. CASE Claimable(w)' /\ req[q].pc \in Marking /\ to \notin Marking
    BY <1>3, <2>2 DEF Taking
  <2>3. CASE Claimable(w)' /\ (req[q].pc \in Marking => to \in Marking)
    BY <1>2, <1>3, <2>3 DEF Left
  <2> QED BY <2>1, <2>2, <2>3
<1> QED BY <1>4, <1>5, CountKept

LEMMA QuietStepsInv ==
  ASSUME Inv, NEW q \in Req,
         \/ FindsNonce(q) \/ Answers(q) \/ CreateFails(q) \/ Posts(q) \/ ConfirmsClaim(q)
         \/ PostFails(q)
  PROVE  Inv'
<1>1. /\ TypeOK /\ req[q] \in ReqState /\ req[q].wallet \in Wallet /\ txn[q] \in TxnState
      /\ UNCHANGED <<row, nonces, nonceValue, txn, paid, priced, overlap, crashes>>
  BY StatesTyped
  DEF Inv, ReqState, FindsNonce, Answers, CreateFails, Posts, ConfirmsClaim, PostFails
<1>2. /\ AccountsExist /\ SignedInOrder /\ row' \in [Wallet -> RowState]
      /\ txn' \in [Req -> TxnState] /\ nonces' \in Seq(Req) /\ overlap' \subseteq Wallet
      /\ \A i \in 1..Len(nonces') : nonceValue[nonces'[i]] >= 1
  BY <1>1, StatesTyped DEF Inv, AccountsExist
<1>3. ASSUME NEW to, NEW account, Becomes(q, to, account), Sound(q, to, account),
             to \in Marking \cup {"answer", "handed"} \cup Posting =>
                 req[q].pc \in Marking \cup {"answer", "handed"} \cup Posting,
             req[q].pc \in Marking =>
                 to \in Marking \/ to \notin {"answer", "handed"} \cup Posting
      PROVE  Inv'
  <2>1. \A w \in Wallet : Claimable(w)' <=> Claimable(w)
    BY <1>1 DEF Claimable
  <2>2. \A w \in Wallet \ overlap' : w = req[q].wallet => Priced(w)'
    BY <1>1, <1>3, <2>1, OwnCount
  <2> QED BY <1>1, <1>2, <1>3, <2>2, QuietInv
<1>4. CASE FindsNonce(q)
  <2>1. CASE nonces = <<>>
    <3>1. Goes(q, "account") /\ req[q].pc = "nonce"
      BY <1>4, <2>1 DEF FindsNonce, Goes
    <3>2. Becomes(q, "account", req[q].account)
      BY <1>1, <3>1, GoesBecomes DEF Unanswered, Creating
    <3>3. Sound(q, "account", req[q].account)
      BY <1>1, <1>2, <3>1
      DEF Sound, AccountsExist, SignedInOrder, Creating, Posting, Marking
    <3> QED BY <1>3, <3>1, <3>2, <3>3 DEF Marking
  <2>2. CASE nonces # <<>>
    <3>1. /\ Head(nonces) \in Req /\ nonceValue[Head(nonces)] >= 1
          /\ req[q].pc = "nonce"
      <4>1. nonces \in Seq(Req) /\ 1 \in 1..Len(nonces) /\ Head(nonces) = nonces[1]
        BY <1>1, <2>2 DEF TypeOK
      <4> QED BY <1>2, <1>4, <4>1 DEF FindsNonce, AccountsExist
    <3>2. Becomes(q, "sign", Head(nonces))
      BY <1>1, <1>4, <2>2, <3>1, AccountBecomes DEF FindsNonce, Creating
    <3>3. Sound(q, "sign", Head(nonces))
      BY <1>1, <1>2, <3>1 DEF Sound, SignedInOrder, Creating, Posting, Marking
    <3> QED BY <1>3, <3>1, <3>2, <3>3 DEF Marking
  <2> QED BY <2>1, <2>2
<1>5. CASE Answers(q)
  <2>1. Becomes(q, "handed", req[q].account) /\ req[q].pc = "answer"
    BY <1>1, <1>5, GoesBecomes DEF Answers
  <2>2. Sound(q, "handed", req[q].account)
    BY <1>1, <1>2, <2>1 DEF Sound, AccountsExist, SignedInOrder, Creating, Posting
  <2> QED BY <1>3, <2>1, <2>2 DEF Marking
<1>6. CASE CreateFails(q)
  <2>1. Becomes(q, "failed", req[q].account) /\ req[q].pc \in Unanswered
    BY <1>1, <1>6, GoesBecomes DEF CreateFails
  <2>2. Sound(q, "failed", req[q].account)
    BY <1>1, <1>2, <2>1
    DEF Sound, AccountsExist, SignedInOrder, Unanswered, Creating, Posting
  <2> QED BY <1>3, <2>1, <2>2 DEF Marking, Posting
<1>7. CASE Posts(q)
  <2>1. Becomes(q, "accept", req[q].account) /\ req[q].pc = "handed"
    BY <1>1, <1>7, GoesBecomes DEF Posts, Posting
  <2>2. Sound(q, "accept", req[q].account)
    BY <1>1, <1>2, <2>1 DEF Sound, AccountsExist, SignedInOrder, Creating, Posting
  <2> QED BY <1>3, <2>1, <2>2 DEF Marking
<1>8. CASE ConfirmsClaim(q)
  <2>1. Becomes(q, "record", req[q].account) /\ req[q].pc = "await"
    BY <1>1, <1>8, GoesBecomes DEF ConfirmsClaim, Posting
  <2>2. Sound(q, "record", req[q].account)
    BY <1>1, <1>2, <2>1 DEF Sound, AccountsExist, SignedInOrder, Creating, Posting
  <2> QED BY <1>3, <2>1, <2>2 DEF Marking, Posting
<1>9. CASE PostFails(q)
  <2>1. Becomes(q, "handed", req[q].account) /\ req[q].pc \in Posting
    BY <1>1, <1>9, GoesBecomes DEF PostFails
  <2>2. Sound(q, "handed", req[q].account)
    BY <1>1, <1>2, <2>1 DEF Sound, AccountsExist, SignedInOrder, Creating, Posting
  <2> QED BY <1>3, <2>1, <2>2 DEF Marking, Posting
<1> QED BY <1>4, <1>5, <1>6, <1>7, <1>8, <1>9

\* The steps that also write the list of nonces, a transaction, or the history.
LEMMA CreatesInv ==
  ASSUME Inv, NEW q \in Req, Creates(q)
  PROVE  Inv'
<1>1. /\ TypeOK /\ AccountsExist /\ SignedInOrder
      /\ row \in [Wallet -> RowState] /\ txn \in [Req -> TxnState] /\ nonces \in Seq(Req)
      /\ req[q].wallet \in Wallet /\ overlap \subseteq Wallet
      /\ \A i \in 1..Len(nonces) : nonceValue[nonces[i]] >= 1
  BY StatesTyped DEF Inv, AccountsExist, TypeOK
<1>2. /\ req[q].pc = "idle" /\ Becomes(q, "read", req[q].account)
      /\ overlap \subseteq overlap' /\ overlap' \subseteq Wallet
      /\ (\E p \in Req \ {q} : req[p].wallet = req[q].wallet /\ req[p].pc \in Creating) =>
             req[q].wallet \in overlap'
      /\ UNCHANGED <<row, nonces, nonceValue, txn, paid, priced, crashes>>
  BY <1>1, GoesBecomes DEF Creates, Unanswered, Creating
<1>3. Sound(q, "read", req[q].account)
  BY <1>1, <1>2 DEF Sound, AccountsExist, SignedInOrder, Creating, Posting
<1>4. \A w \in Wallet \ overlap' : w = req[q].wallet => Priced(w)'
  <2> SUFFICES ASSUME NEW w \in Wallet \ overlap', w = req[q].wallet PROVE Priced(w)'
    OBVIOUS
  <2>1. Taking(w)' = Taking(w) /\ Left(w)' <= Left(w)
    BY <1>2 DEF Taking, Left, Claimable, Becomes, Marking, Posting
  <2> QED BY <1>2, <2>1, CountKept
<1> QED BY <1>1, <1>2, <1>3, <1>4, QuietInv

LEMMA ReadsClaimInv ==
  ASSUME Inv, NEW q \in Req, ReadsClaim(q)
  PROVE  Inv'
<1>1. /\ TypeOK /\ AccountsExist /\ SignedInOrder
      /\ row \in [Wallet -> RowState] /\ txn \in [Req -> TxnState] /\ nonces \in Seq(Req)
      /\ req[q].wallet \in Wallet /\ overlap \subseteq Wallet
      /\ \A i \in 1..Len(nonces) : nonceValue[nonces[i]] >= 1
  BY StatesTyped DEF Inv, AccountsExist, TypeOK
<1>2. /\ req[q].pc = "read"
      /\ UNCHANGED <<row, nonces, nonceValue, txn, paid, priced, overlap, crashes>>
  BY DEF ReadsClaim
<1>3. CASE ~Claimable(req[q].wallet)
  <2>1. Becomes(q, "refused", req[q].account)
    BY <1>1, <1>3, GoesBecomes DEF ReadsClaim
  <2>2. Sound(q, "refused", req[q].account)
    BY <1>1, <1>2 DEF Sound, AccountsExist, SignedInOrder, Creating, Posting
  <2>3. \A w \in Wallet : ~Claimable(w) => ~Claimable(w)'
    BY <1>2 DEF Claimable
  <2>4. \A w \in Wallet \ overlap' : w = req[q].wallet => Priced(w)'
    BY <1>2, <1>3, <2>1, <2>3, OwnCount DEF Marking, Posting
  <2> QED BY <1>1, <1>2, <2>1, <2>2, <2>4, QuietInv
<1>4. CASE Claimable(req[q].wallet)
  <2>1. Becomes(q, "nonce", req[q].account)
    BY <1>1, <1>4, GoesBecomes DEF ReadsClaim, Unanswered, Creating
  <2>2. Sound(q, "nonce", req[q].account)
    BY <1>1, <1>2 DEF Sound, AccountsExist, SignedInOrder, Creating, Posting
  <2>3. ASSUME NEW w \in Wallet \ overlap', w = req[q].wallet PROVE Priced(w)'
    <3>1. /\ \A p \in Req : /\ req'[p].wallet = req[p].wallet
                            /\ p # q => req'[p].pc = req[p].pc
          /\ req'[q].pc = "nonce" /\ w \notin overlap
      BY <1>2, <2>1, <2>3 DEF Becomes
    <3>2. Taking(w)' = Taking(w) \cup {q} /\ q \notin Taking(w)
      BY <1>2, <2>3, <3>1 DEF Taking, Marking, Posting
    <3>3. \A p \in Req : req[p].wallet = w /\ req[p].pc \in Marking => p = q
      BY <1>2, <2>3, <3>1 DEF Inv, OneCreates, Creating, Marking
    <3>4. Left(w) = 1
      BY <1>2, <1>4, <2>3, <3>3 DEF Left, Marking
    <3>5. Left(w)' = 0
      BY <2>3, <3>1 DEF Left, Marking
    <3>6. IsFiniteSet(Taking(w)) /\ Cardinality(Taking(w)) + 1 <= priced[w]
      BY <3>1, <3>4 DEF Inv, TakingIsPriced
    <3>7. IsFiniteSet(Taking(w)') /\ Cardinality(Taking(w)') = Cardinality(Taking(w)) + 1
      BY <3>2, <3>6, FS_AddElement
    <3>8. Cardinality(Taking(w)) \in Nat
      BY <3>6, FS_CardinalityType
    <3> QED BY <1>2, <3>5, <3>6, <3>7, <3>8 DEF Priced
  <2> QED BY <1>1, <1>2, <2>1, <2>2, <2>3, QuietInv
<1> QED BY <1>3, <1>4

LEMMA KeepsNonceInv ==
  ASSUME Inv, NEW q \in Req, KeepsNonce(q)
  PROVE  Inv'
<1>1. /\ TypeOK /\ AccountsExist /\ SignedInOrder
      /\ row \in [Wallet -> RowState] /\ txn \in [Req -> TxnState] /\ nonces \in Seq(Req)
      /\ req[q].wallet \in Wallet /\ overlap \subseteq Wallet
  BY StatesTyped DEF Inv, TypeOK
<1>2. /\ req[q].pc = "keep" /\ Becomes(q, "sign", req[q].account)
      /\ nonces' = Append(nonces, q)
      /\ UNCHANGED <<row, nonceValue, txn, paid, priced, overlap, crashes>>
  BY <1>1, GoesBecomes DEF KeepsNonce, Unanswered, Creating
<1>3. Sound(q, "sign", req[q].account)
  BY <1>1, <1>2 DEF Sound, AccountsExist, SignedInOrder, Creating, Posting
<1>4. nonceValue[q] >= 1
  BY <1>1, <1>2 DEF AccountsExist
<1>5. nonces' \in Seq(Req) /\ \A i \in 1..Len(nonces') : nonceValue[nonces'[i]] >= 1
  BY <1>1, <1>2, <1>4 DEF AccountsExist
<1>6. \A w \in Wallet : Claimable(w)' <=> Claimable(w)
  BY <1>2 DEF Claimable
<1>7. \A w \in Wallet \ overlap' : w = req[q].wallet => Priced(w)'
  BY <1>2, <1>6, OwnCount DEF Marking
<1> QED BY <1>1, <1>2, <1>3, <1>5, <1>7, QuietInv

LEMMA SignsInv ==
  ASSUME Inv, NEW q \in Req, Signs(q)
  PROVE  Inv'
<1>1. /\ TypeOK /\ AccountsExist /\ SignedInOrder
      /\ row \in [Wallet -> RowState] /\ txn \in [Req -> TxnState] /\ nonces \in Seq(Req)
      /\ req[q].wallet \in Wallet /\ overlap \subseteq Wallet
      /\ \A i \in 1..Len(nonces) : nonceValue[nonces[i]] >= 1
      /\ nonceValue \in [Req -> Nat]
  BY StatesTyped DEF Inv, AccountsExist, TypeOK
<1>2. /\ req[q].pc = "sign" /\ Becomes(q, "mark", req[q].account)
      /\ UNCHANGED <<row, nonces, nonceValue, paid, priced, overlap, crashes>>
  BY <1>1, GoesBecomes DEF Signs, Unanswered, Creating
<1>3. /\ req[q].account \in Req /\ nonceValue[req[q].account] >= 1
      /\ txn[q].state = "none"
  BY <1>1, <1>2 DEF AccountsExist, SignedInOrder
<1>4. /\ txn' \in [Req -> TxnState] /\ \A p \in Req : p # q => txn'[p] = txn[p]
      /\ txn'[q].state = "signed" /\ txn'[q].value = nonceValue[req[q].account]
  BY <1>1, <1>3 DEF Signs, TxnState
<1>5. Sound(q, "mark", req[q].account)
  BY <1>1, <1>2, <1>3, <1>4 DEF Sound, Creating, Posting
<1>6. \A w \in Wallet : Claimable(w)' <=> Claimable(w)
  BY <1>2 DEF Claimable
<1>7. \A w \in Wallet \ overlap' : w = req[q].wallet => Priced(w)'
  BY <1>2, <1>6, OwnCount DEF Marking
<1> QED BY <1>1, <1>2, <1>4, <1>5, <1>7, QuietInv

LEMMA SendsClaimInv ==
  ASSUME Inv, NEW q \in Req, SendsClaim(q)
  PROVE  Inv'
<1>1. /\ TypeOK /\ AccountsExist /\ SignedInOrder
      /\ row \in [Wallet -> RowState] /\ txn \in [Req -> TxnState] /\ nonces \in Seq(Req)
      /\ req[q].wallet \in Wallet /\ overlap \subseteq Wallet
      /\ \A i \in 1..Len(nonces) : nonceValue[nonces[i]] >= 1
  BY StatesTyped DEF Inv, AccountsExist, TypeOK
<1>2. /\ req[q].pc = "send" /\ Becomes(q, "await", req[q].account)
      /\ UNCHANGED <<row, nonces, nonceValue, paid, priced, overlap, crashes>>
  BY <1>1, GoesBecomes DEF SendsClaim, Posting
<1>3. /\ txn' \in [Req -> TxnState] /\ \A p \in Req : p # q => txn'[p] = txn[p]
      /\ txn'[q].state = IF txn[q].state = "signed" THEN "inflight" ELSE txn[q].state
      /\ txn'[q].value = txn[q].value
  <2> DEFINE to == IF txn[q].state = "signed" THEN "inflight" ELSE txn[q].state
  <2> DEFINE new == [txn[q] EXCEPT !.state = to]
  <2>1. txn[q] \in TxnState /\ to \in {"none", "signed", "inflight", "landed", "failed"}
    BY <1>1 DEF TxnState
  <2>2. txn' = [txn EXCEPT ![q] = new]
    BY <1>1 DEF SendsClaim
  <2> HIDE DEF to
  <2>3. new \in TxnState /\ new.state = to /\ new.value = txn[q].value
    BY <2>1 DEF TxnState
  <2> HIDE DEF new
  <2>4. /\ txn' \in [Req -> TxnState] /\ \A p \in Req : p # q => txn'[p] = txn[p]
        /\ txn'[q].state = to /\ txn'[q].value = txn[q].value
    BY <1>1, <2>2, <2>3
  <2> QED BY <2>4 DEF to
<1>4. txn[q].state \in {"landed", "failed"} => txn'[q] = txn[q]
  BY <1>1, <1>3 DEF TxnState
<1>5. Sound(q, "await", req[q].account)
  BY <1>1, <1>2, <1>3, <1>4 DEF Sound, AccountsExist, SignedInOrder, Creating, Posting
<1>6. \A w \in Wallet : Claimable(w)' <=> Claimable(w)
  BY <1>2 DEF Claimable
<1>7. \A w \in Wallet \ overlap' : w = req[q].wallet => Priced(w)'
  BY <1>2, <1>6, OwnCount DEF Marking, Posting
<1> QED BY <1>1, <1>2, <1>3, <1>5, <1>7, QuietInv

\* The steps that write the row.
LEMMA RowStepsInv ==
  ASSUME Inv, NEW q \in Req, Marks(q) \/ AcceptsPost(q) \/ RecordsHash(q)
  PROVE  Inv'
<1>1. /\ TypeOK /\ AccountsExist /\ SignedInOrder
      /\ row \in [Wallet -> RowState] /\ txn \in [Req -> TxnState] /\ nonces \in Seq(Req)
      /\ req[q].wallet \in Wallet /\ overlap \subseteq Wallet
      /\ \A i \in 1..Len(nonces) : nonceValue[nonces[i]] >= 1
  BY StatesTyped DEF Inv, AccountsExist, TypeOK
<1>2. PICK to \in {"answer", "send", "handed"} :
          /\ Becomes(q, to, req[q].account)
          /\ req[q].pc \in {"mark", "accept", "record"}
          /\ req[q].pc = "mark" => to = "answer"
          /\ req[q].pc # "mark" => to \in {"send", "handed"}
          /\ UNCHANGED <<nonces, nonceValue, txn, paid, priced, overlap, crashes>>
  BY <1>1, GoesBecomes DEF Marks, AcceptsPost, RecordsHash, Posting, Unanswered
<1>3. /\ row' \in [Wallet -> RowState]
      /\ \A w \in Wallet : w # req[q].wallet => row'[w] = row[w]
      /\ \A w \in Wallet : Claimable(w)' => Claimable(w)
      /\ \A w \in Wallet : w = req[q].wallet /\ req[q].pc # "record" => ~Claimable(w)'
  <2>1. row[req[q].wallet] \in RowState
    BY <1>1
  <2>2. CASE RecordsHash(q)
    <3> DEFINE hash == IF row[req[q].wallet].claim = "absent"
                       THEN row[req[q].wallet].hash ELSE q
    <3> DEFINE new == [row[req[q].wallet] EXCEPT !.hash = hash]
    <3>1. hash \in Req \cup {NoReq}
      BY <2>1 DEF RowState
    <3>2. row' = [row EXCEPT ![req[q].wallet] = new]
      BY <1>1, <2>2 DEF RecordsHash
    <3> HIDE DEF hash
    <3>3. /\ new \in RowState /\ new.claim = row[req[q].wallet].claim
          /\ new.isClaim = row[req[q].wallet].isClaim
      BY <2>1, <3>1 DEF RowState
    <3> HIDE DEF new
    <3> QED BY <1>1, <2>2, <3>2, <3>3 DEF Claimable, RecordsHash
  <2>3. CASE Marks(q) \/ AcceptsPost(q)
    <3> DEFINE is == row[req[q].wallet].claim # "absent"
    <3> DEFINE new == [row[req[q].wallet] EXCEPT !.isClaim = is]
    <3>1. row' = [row EXCEPT ![req[q].wallet] = new]
      BY <1>1, <2>3 DEF Marks, AcceptsPost
    <3>2. is \in BOOLEAN /\ (row[req[q].wallet].claim = "some" => is)
      OBVIOUS
    <3> HIDE DEF is
    <3>3. /\ new \in RowState /\ new.claim = row[req[q].wallet].claim
          /\ new.isClaim = is
      BY <2>1, <3>2 DEF RowState
    <3> HIDE DEF new
    <3>4. /\ row' \in [Wallet -> RowState] /\ row'[req[q].wallet] = new
          /\ \A w \in Wallet : w # req[q].wallet => row'[w] = row[w]
      BY <1>1, <3>1, <3>3
    <3> QED BY <3>2, <3>3, <3>4 DEF Claimable
  <2> QED BY <2>2, <2>3
<1>4. Sound(q, to, req[q].account)
  BY <1>1, <1>2 DEF Sound, AccountsExist, SignedInOrder, Creating, Posting
<1>5. \A w \in Wallet \ overlap' : w = req[q].wallet => Priced(w)'
  BY <1>2, <1>3, OwnCount DEF Marking, Posting
<1> QED BY <1>1, <1>2, <1>3, <1>4, <1>5, QuietInv

\* The request's nonce account comes into being, with its first value.
LEMMA CreatesNonceAccountInv ==
  ASSUME Inv, NEW q \in Req, CreatesNonceAccount(q)
  PROVE  Inv'
<1>1. /\ req[q].pc = "account" /\ nonceValue[q] = 0 /\ txn[q].state = "none"
      /\ UNCHANGED <<row, nonces, txn, paid, priced, overlap, crashes>>
  BY DEF CreatesNonceAccount, Inv, AccountsExist, SignedInOrder
<1>2. Becomes(q, "keep", q)
  BY AccountBecomes DEF CreatesNonceAccount, Inv, Creating
<1>3. /\ nonceValue' \in [Req -> Nat] /\ nonceValue'[q] = 1
      /\ \A a \in Req : a # q => nonceValue'[a] = nonceValue[a]
  BY DEF CreatesNonceAccount, Inv, TypeOK
<1> USE DEF Inv
<1>4. TypeOK'
  BY <1>1, <1>2, <1>3, StatesTyped DEF TypeOK, ReqState, Becomes
<1>5. nonces \in Seq(Req) /\ \A i \in 1..Len(nonces) : nonces[i] \in Req
  BY DEF TypeOK
<1>6. AccountsExist'
  <2>1. \A a \in Req : nonceValue[a] >= 1 => nonceValue'[a] >= 1
    BY <1>3
  <2>2. \A i \in 1..Len(nonces') : nonceValue'[nonces'[i]] >= 1
    BY <1>1, <1>5, <2>1 DEF AccountsExist
  <2>3. \A p \in Req :
           /\ req'[p].account \in Req => nonceValue'[req'[p].account] >= 1
           /\ req'[p].pc \in {"idle", "read", "nonce", "account"} => nonceValue'[p] = 0
           /\ req'[p].pc \in {"keep", "sign", "mark", "answer", "handed"} \cup Posting =>
                  req'[p].account \in Req
           /\ req'[p].pc = "keep" => req'[p].account = p
    BY <1>2, <1>3, <2>1 DEF AccountsExist, Becomes, Posting
  <2> QED BY <2>2, <2>3 DEF AccountsExist
<1>7. SignedInOrder'
  BY <1>1, <1>2, <1>3 DEF SignedInOrder, AccountsExist, Becomes, Posting
<1>8. ValuesAreSpent'
  BY <1>1, <1>2, <1>3 DEF ValuesAreSpent, Becomes
<1>9. MarkIsSigned'
  BY <1>1, <1>2 DEF MarkIsSigned, Becomes, Posting
<1>10. OneCreates'
  BY <1>1, <1>2 DEF OneCreates, Becomes, Creating
<1>11. TakingIsPriced'
  <2> SUFFICES ASSUME NEW w \in Wallet \ overlap' PROVE Priced(w)'
    BY DEF TakingIsPriced, Priced
  <2>1. Taking(w)' = Taking(w) /\ Left(w)' = Left(w) /\ Left(w) <= Left(w)
    BY <1>1, <1>2 DEF Taking, Left, Claimable, Becomes, Marking
  <2> QED BY <1>1, <2>1, CountKept
<1>12. PaidIsLanded'
  <2>1. \A w \in Wallet : LandedOf(w)' = LandedOf(w)
    BY <1>1, <1>2 DEF LandedOf, Becomes
  <2> QED BY <1>1, <2>1 DEF PaidIsLanded
<1> QED BY <1>4, <1>6, <1>7, <1>8, <1>9, <1>10, <1>11, <1>12

(***************************************************************************)
(* The chain, the scripts, and restarts.                                   *)
(***************************************************************************)

LEMMA ExecutesInv ==
  ASSUME Inv, NEW q \in Req, NEW outcome \in {"landed", "failed"}, Executes(q, outcome)
  PROVE  Inv'
<1>1. /\ txn[q].state = "inflight" /\ txn[q] \in TxnState
      /\ req[q].account \in Req /\ txn[q].value = nonceValue[req[q].account]
      /\ req[q].wallet \in Wallet
      /\ UNCHANGED <<row, req, nonces, priced, overlap, crashes>>
  BY StatesTyped DEF Executes, IsValid, Inv, SignedInOrder, TypeOK
<1>2. /\ nonceValue' \in [Req -> Nat]
      /\ nonceValue'[req[q].account] = nonceValue[req[q].account] + 1
      /\ \A a \in Req : a # req[q].account => nonceValue'[a] = nonceValue[a]
      /\ nonceValue \in [Req -> Nat]
  BY <1>1 DEF Executes, Inv, TypeOK
<1>3. /\ txn' \in [Req -> TxnState] /\ \A p \in Req : p # q => txn'[p] = txn[p]
      /\ txn'[q].state = outcome /\ txn'[q].value = txn[q].value
  <2> DEFINE new == [txn[q] EXCEPT !.state = outcome]
  <2>1. new \in TxnState /\ new.state = outcome /\ new.value = txn[q].value
    BY <1>1 DEF TxnState
  <2>2. txn' = [txn EXCEPT ![q] = new] /\ txn \in [Req -> TxnState]
    BY StatesTyped DEF Executes, Inv
  <2> HIDE DEF new
  <2> QED BY <2>1, <2>2
<1>4. /\ paid \in [Wallet -> Nat] /\ paid' \in [Wallet -> Nat]
      /\ paid'[req[q].wallet] = paid[req[q].wallet] + (IF outcome = "landed" THEN 1 ELSE 0)
      /\ \A w \in Wallet : w # req[q].wallet => paid'[w] = paid[w]
  BY <1>1 DEF Executes, Inv, TypeOK
<1> USE DEF Inv
<1>5. TypeOK'
  BY <1>1, <1>2, <1>3, <1>4, StatesTyped DEF TypeOK, TxnState
<1>6. \A a \in Req : nonceValue'[a] >= nonceValue[a] /\ nonceValue[a] \in Nat
  BY <1>1, <1>2
<1>7. AccountsExist'
  <2>1. nonceValue[req[q].account] >= 1
    BY <1>1 DEF AccountsExist
  <2>2. \A a \in Req : nonceValue'[a] = 0 <=> nonceValue[a] = 0
    BY <1>1, <1>2, <2>1
  <2>3. nonces \in Seq(Req) /\ \A i \in 1..Len(nonces) : nonces[i] \in Req
    BY DEF TypeOK
  <2>4. \A a \in Req : nonceValue[a] >= 1 => nonceValue'[a] >= 1
    BY <1>2, <1>6
  <2>5. \A i \in 1..Len(nonces') : nonceValue'[nonces'[i]] >= 1
    BY <1>1, <2>3, <2>4 DEF AccountsExist
  <2>6. \A p \in Req :
           /\ req'[p].account \in Req => nonceValue'[req'[p].account] >= 1
           /\ req'[p].pc \in {"idle", "read", "nonce", "account"} => nonceValue'[p] = 0
           /\ req'[p].pc \in {"keep", "sign", "mark", "answer", "handed"} \cup Posting =>
                  req'[p].account \in Req
           /\ req'[p].pc = "keep" => req'[p].account = p
    BY <1>1, <2>2, <2>4 DEF AccountsExist
  <2> QED BY <2>5, <2>6 DEF AccountsExist
<1>8. SignedInOrder'
  <2>1. \A p \in Req, a \in Req : txn[p].value <= nonceValue[a] => txn[p].value <= nonceValue'[a]
    <3>1. \A p \in Req : txn[p].value \in Nat
      BY DEF TypeOK
    <3> QED BY <1>2, <1>6, <3>1
  <2>2. \A p \in Req : /\ txn'[p].value = txn[p].value
                      /\ p # q => txn'[p].state = txn[p].state
    BY <1>3
  <2> QED BY <1>1, <1>3, <2>1, <2>2 DEF SignedInOrder
<1>9. ValuesAreSpent'
  <2> SUFFICES ASSUME NEW a \in Req, NEW v \in Nat, 1 <= v, v < nonceValue'[a]
               PROVE  \E p \in Req : /\ txn'[p].state \in {"landed", "failed"}
                                     /\ req[p].account = a
                                     /\ txn'[p].value = v
    BY <1>1 DEF ValuesAreSpent
  <2>1. CASE v < nonceValue[a]
    <3>1. PICK p \in Req : /\ txn[p].state \in {"landed", "failed"}
                           /\ req[p].account = a /\ txn[p].value = v
      BY <2>1 DEF ValuesAreSpent
    <3> QED BY <1>1, <1>3, <3>1
  <2>2. CASE ~(v < nonceValue[a])
    <3>1. a = req[q].account /\ v = nonceValue[a]
      BY <1>2, <2>2
    <3> QED BY <1>1, <1>3, <3>1
  <2> QED BY <2>1, <2>2
<1>10. MarkIsSigned'
  BY <1>1, <1>3 DEF MarkIsSigned
<1>11. OneCreates' /\ TakingIsPriced'
  BY <1>1 DEF OneCreates, TakingIsPriced, Taking, Left, Claimable
<1>12. PaidIsLanded'
  <2> SUFFICES ASSUME NEW w \in Wallet
               PROVE  IsFiniteSet(LandedOf(w)') /\ paid'[w] = Cardinality(LandedOf(w)')
    BY DEF PaidIsLanded
  <2>1. IsFiniteSet(LandedOf(w)) /\ paid[w] = Cardinality(LandedOf(w))
    BY DEF PaidIsLanded
  <2>2. CASE w = req[q].wallet /\ outcome = "landed"
    <3>1. LandedOf(w)' = LandedOf(w) \cup {q} /\ q \notin LandedOf(w)
      BY <1>1, <1>3, <2>2 DEF LandedOf
    <3> QED BY <1>4, <2>1, <2>2, <3>1, FS_AddElement
  <2>3. CASE ~(w = req[q].wallet /\ outcome = "landed")
    <3>1. LandedOf(w)' = LandedOf(w)
      BY <1>1, <1>3, <2>3 DEF LandedOf
    <3> QED BY <1>4, <2>1, <2>3, <3>1
  <2> QED BY <2>2, <2>3
<1> QED BY <1>5, <1>7, <1>8, <1>9, <1>10, <1>11, <1>12

\* The scripts take claims away, or price new ones.
LEMMA ScriptsInv ==
  ASSUME Inv, \/ \E w \in Wallet : DeletesRows(w) \/ InsertsRows(w)
              \/ \E claimants \in SUBSET Wallet : AirdropCalculations(claimants)
  PROVE  Inv'
<1>1. UNCHANGED <<req, nonces, nonceValue, txn, paid, overlap, crashes>>
  BY DEF DeletesRows, InsertsRows, AirdropCalculations
<1>2. row \in [Wallet -> RowState] /\ priced \in [Wallet -> 0..MaxPrice] /\ MaxPrice \in Nat
  BY StatesTyped, AirdropAssumption DEF Inv
<1>3. /\ row' \in [Wallet -> RowState] /\ priced' \in [Wallet -> 0..MaxPrice]
      /\ \A v \in Wallet :
            /\ row'[v].isClaim => row[v].isClaim
            /\ priced'[v] >= priced[v]
            /\ Claimable(v)' => Claimable(v) \/ priced'[v] = priced[v] + 1
  <2>1. ASSUME NEW w \in Wallet, DeletesRows(w) \/ InsertsRows(w)
        PROVE  /\ row' \in [Wallet -> RowState] /\ UNCHANGED priced
               /\ \A v \in Wallet : v # w => row'[v] = row[v]
               /\ row'[w].isClaim => row[w].isClaim
               /\ row'[w].claim # "some"
    <3>1. CASE DeletesRows(w)
      BY <1>2, <3>1 DEF DeletesRows, NoRow, RowState
    <3>2. CASE InsertsRows(w)
      <4> DEFINE new == [row[w] EXCEPT !.claim = "unpriced"]
      <4>1. new \in RowState /\ new.claim = "unpriced" /\ new.isClaim = row[w].isClaim
        BY <1>2 DEF RowState
      <4>2. row' = [row EXCEPT ![w] = new] /\ UNCHANGED priced
        BY <3>2 DEF InsertsRows
      <4> HIDE DEF new
      <4> QED BY <1>2, <4>1, <4>2
    <3> QED BY <2>1, <3>1, <3>2
  <2>2. ASSUME NEW claimants \in SUBSET Wallet, AirdropCalculations(claimants)
        PROVE  /\ row' \in [Wallet -> RowState] /\ priced' \in [Wallet -> 0..MaxPrice]
               /\ \A v \in Wallet :
                     /\ row'[v].isClaim = row[v].isClaim
                     /\ \/ row'[v] = row[v] /\ priced'[v] = priced[v]
                        \/ priced'[v] = priced[v] + 1
    <3>1. \A v \in Wallet, to \in {"some", "none"} :
              /\ [row[v] EXCEPT !.claim = to] \in RowState
              /\ [row[v] EXCEPT !.claim = to].isClaim = row[v].isClaim
      BY <1>2 DEF RowState
    <3>2. \A v \in Wallet : (IF v \in claimants THEN "some" ELSE "none") \in {"some", "none"}
      OBVIOUS
    <3>3. row' \in [Wallet -> RowState] /\ \A v \in Wallet : row'[v].isClaim = row[v].isClaim
      BY <1>2, <2>2, <3>1, <3>2 DEF AirdropCalculations
    <3>4. \A v \in Wallet : /\ row[v].claim # "unpriced" => row'[v] = row[v]
                            /\ priced'[v] = priced[v] + (IF row[v].claim = "unpriced" THEN 1 ELSE 0)
      BY <1>2, <2>2 DEF AirdropCalculations
    <3>5. priced' \in [Wallet -> 0..MaxPrice]
      BY <1>2, <2>2 DEF AirdropCalculations
    <3> QED BY <1>2, <3>3, <3>4, <3>5
  <2> QED BY <1>2, <2>1, <2>2 DEF Claimable
<1> USE DEF Inv
<1>4. TypeOK'
  BY <1>1, <1>3, StatesTyped DEF TypeOK, RowState
<1>5. AccountsExist' /\ SignedInOrder' /\ ValuesAreSpent'
  BY <1>1 DEF AccountsExist, SignedInOrder, ValuesAreSpent
<1>6. MarkIsSigned'
  BY <1>1, <1>3 DEF MarkIsSigned
<1>7. OneCreates'
  BY <1>1 DEF OneCreates
<1>8. TakingIsPriced'
  <2> SUFFICES ASSUME NEW w \in Wallet \ overlap
               PROVE  /\ IsFiniteSet(Taking(w)')
                      /\ Cardinality(Taking(w)') + Left(w)' <= priced'[w]
    BY <1>1 DEF TakingIsPriced
  <2>1. Taking(w)' = Taking(w)
    BY <1>1 DEF Taking
  <2>2. /\ IsFiniteSet(Taking(w)) /\ Cardinality(Taking(w)) + Left(w) <= priced[w]
        /\ Cardinality(Taking(w)) \in Nat
    BY FS_CardinalityType DEF TakingIsPriced
  <2>3. Left(w) \in {0, 1} /\ Left(w)' \in {0, 1}
    BY DEF Left
  <2>4. Left(w)' <= Left(w) \/ priced'[w] = priced[w] + 1
    BY <1>1, <1>3 DEF Left
  <2> QED BY <1>2, <1>3, <2>1, <2>2, <2>3, <2>4
<1>9. PaidIsLanded'
  BY <1>1 DEF PaidIsLanded, LandedOf
<1> QED BY <1>4, <1>5, <1>6, <1>7, <1>8, <1>9

\* Only what was handed out survives a restart.
LEMMA CrashInv == ASSUME Inv, Crash PROVE Inv'
<1>1. /\ UNCHANGED <<row, nonces, nonceValue, txn, paid, priced, overlap>>
      /\ crashes' \in 0..MaxCrash
  BY AirdropAssumption DEF Crash, Inv, TypeOK
<1>2. req \in [Req -> ReqState]
  BY StatesTyped DEF Inv
<1>3. \A q \in Req, to \in {"dead", "handed"} :
          /\ [req[q] EXCEPT !.pc = to] \in ReqState
          /\ [req[q] EXCEPT !.pc = to].pc = to
          /\ [req[q] EXCEPT !.pc = to].wallet = req[q].wallet
          /\ [req[q] EXCEPT !.pc = to].account = req[q].account
  BY <1>2 DEF ReqState
<1>4. Unanswered \cap Posting = {}
  BY DEF Unanswered, Creating, Posting
<1>5. \A q \in Req :
          /\ req'[q] \in ReqState
          /\ req'[q].wallet = req[q].wallet /\ req'[q].account = req[q].account
          /\ req[q].pc \in Unanswered => req'[q].pc = "dead"
          /\ req[q].pc \in Posting => req'[q].pc = "handed"
          /\ req[q].pc \notin Unanswered \cup Posting => req'[q].pc = req[q].pc
  <2> SUFFICES ASSUME NEW q \in Req
               PROVE  /\ req'[q] \in ReqState
                      /\ req'[q].wallet = req[q].wallet /\ req'[q].account = req[q].account
                      /\ req[q].pc \in Unanswered => req'[q].pc = "dead"
                      /\ req[q].pc \in Posting => req'[q].pc = "handed"
                      /\ req[q].pc \notin Unanswered \cup Posting => req'[q].pc = req[q].pc
    OBVIOUS
  <2>1. CASE req[q].pc \in Unanswered
    <3>1. req'[q] = [req[q] EXCEPT !.pc = "dead"]
      BY <1>4, <2>1 DEF Crash
    <3> QED BY <1>3, <1>4, <2>1, <3>1
  <2>2. CASE req[q].pc \in Posting
    <3>1. req'[q] = [req[q] EXCEPT !.pc = "handed"]
      BY <1>4, <2>2 DEF Crash
    <3> QED BY <1>3, <1>4, <2>2, <3>1
  <2>3. CASE req[q].pc \notin Unanswered \cup Posting
    <3>1. req'[q] = req[q]
      BY <2>3 DEF Crash
    <3> QED BY <1>2, <2>3, <3>1
  <2> QED BY <2>1, <2>2, <2>3
<1> USE DEF Inv
<1>6. TypeOK'
  <2>1. req' \in [Req -> ReqState]
    BY <1>5 DEF Crash
  <2> QED BY <1>1, <2>1, StatesTyped DEF TypeOK, ReqState
<1> USE DEF Unanswered, Creating, Posting
<1>7. AccountsExist'
  BY <1>1, <1>5 DEF AccountsExist
<1>8. SignedInOrder'
  BY <1>1, <1>5 DEF SignedInOrder
<1>9. ValuesAreSpent' /\ MarkIsSigned'
  BY <1>1, <1>5 DEF ValuesAreSpent, MarkIsSigned
<1>10. OneCreates'
  BY <1>1, <1>5 DEF OneCreates
<1>11. TakingIsPriced'
  <2> SUFFICES ASSUME NEW w \in Wallet \ overlap' PROVE Priced(w)'
    BY DEF TakingIsPriced, Priced
  <2>1. Taking(w)' \subseteq Taking(w)
    BY <1>5 DEF Taking, Marking
  <2>2. Left(w)' <= Left(w) \/ Taking(w)' # Taking(w)
    <3>1. CASE \E q \in Req : req[q].wallet = w /\ req[q].pc \in Marking
      BY <1>5, <3>1 DEF Taking, Marking
    <3>2. CASE ~\E q \in Req : req[q].wallet = w /\ req[q].pc \in Marking
      BY <1>1, <3>2 DEF Left, Claimable
    <3> QED BY <3>1, <3>2
  <2> QED BY <1>1, <2>1, <2>2, CountKept
<1>12. PaidIsLanded'
  <2>1. \A w \in Wallet : LandedOf(w)' = LandedOf(w)
    BY <1>1, <1>5 DEF LandedOf
  <2> QED BY <1>1, <2>1 DEF PaidIsLanded
<1> QED BY <1>6, <1>7, <1>8, <1>9, <1>10, <1>11, <1>12

LEMMA NextInv == Inv /\ [Next]_vars => Inv'
<1>1. ASSUME Inv, UNCHANGED vars PROVE Inv'
  BY <1>1 DEF vars, Inv, TypeOK, AccountsExist, SignedInOrder, ValuesAreSpent, MarkIsSigned,
              OneCreates, TakingIsPriced, PaidIsLanded, Taking, Left, Claimable, LandedOf
<1> QED
  BY <1>1, QuietStepsInv, CreatesInv, ReadsClaimInv, KeepsNonceInv, SignsInv, SendsClaimInv,
     RowStepsInv, CreatesNonceAccountInv, ExecutesInv, ScriptsInv, CrashInv
  DEF Next

LEMMA SpecInv == Spec => []Inv
  BY InitInv, NextInv, PTL DEF Spec

(***************************************************************************)
(* The theorems about claims.                                              *)
(***************************************************************************)

\* Rows, requests, nonces and transactions keep the shape AirdropService gives them.
THEOREM StateCorrect == Spec => []TypeOK
  BY SpecInv, PTL DEF Inv

\* A wallet is paid more often than claims were priced for it only if two of its
\* requests were creating transactions at the same time.
THEOREM PaidAgainHasOverlap == Spec => []PaidAgainNeedsOverlap
<1>1. Inv => PaidAgainNeedsOverlap
  <2> SUFFICES ASSUME Inv, NEW w \in Wallet \ overlap PROVE paid[w] <= priced[w]
    BY AirdropAssumption DEF PaidAgainNeedsOverlap, Inv, TypeOK
  <2>1. LandedOf(w) \subseteq Taking(w)
    BY DEF Inv, SignedInOrder, LandedOf, Taking
  <2>2. /\ IsFiniteSet(Taking(w)) /\ Cardinality(Taking(w)) + Left(w) <= priced[w]
        /\ Cardinality(Taking(w)) \in Nat /\ Left(w) \in {0, 1} /\ priced[w] \in Nat
    BY FS_CardinalityType, AirdropAssumption DEF Inv, TakingIsPriced, Left, TypeOK
  <2>3. /\ Cardinality(LandedOf(w)) <= Cardinality(Taking(w))
        /\ paid[w] = Cardinality(LandedOf(w)) /\ Cardinality(LandedOf(w)) \in Nat
    BY <2>1, <2>2, FS_Subset, FS_CardinalityType DEF Inv, PaidIsLanded
  <2> QED BY <2>2, <2>3
<1> QED BY <1>1, SpecInv, PTL

\* A marked claim that nothing can pay any more was lost to another transaction that
\* spent the nonce, to a transfer that failed, or with an answer.
THEOREM LostHasCause == Spec => []LostNeedsCause
<1>1. Inv => LostNeedsCause
  <2> SUFFICES ASSUME Inv, NEW w \in Wallet, row[w].isClaim,
                      \A q \in Req : req[q].wallet = w =>
                          /\ req[q].pc \notin Unanswered /\ txn[q].state # "landed"
                          /\ ~(req[q].pc \in {"handed"} \cup Posting /\ IsValid(q))
               PROVE  \E q \in Req : req[q].wallet = w /\
                  (\/ txn[q].state = "failed"
                   \/ req[q].pc \in {"failed", "dead"} /\ txn[q].state = "signed"
                   \/ txn[q].state \in {"signed", "inflight"} /\ \E p \in Req \ {q} :
                          /\ txn[p].state \in {"landed", "failed"}
                          /\ req[p].account = req[q].account
                          /\ txn[p].value = txn[q].value)
    BY DEF LostNeedsCause
  <2>1. PICK q \in Req : /\ req[q].wallet = w /\ txn[q].state # "none"
                         /\ req[q].pc \in {"answer", "handed", "failed", "dead"} \cup Posting
    BY DEF Inv, MarkIsSigned
  <2>2. txn[q] \in TxnState
    BY StatesTyped DEF Inv
  <2>3. CASE req[q].pc \in {"failed", "dead"}
    <3>1. txn[q].state = "signed"
      BY <2>1, <2>2, <2>3 DEF Inv, SignedInOrder, TxnState, Posting
    <3> QED BY <2>1, <2>3, <3>1
  <2>4. CASE req[q].pc \in {"handed"} \cup Posting /\ txn[q].state # "failed"
    <3>1. /\ req[q].account \in Req /\ txn[q].value >= 1 /\ txn[q].value \in Nat
          /\ txn[q].value < nonceValue[req[q].account]
          /\ txn[q].state \in {"signed", "inflight"}
      <4>1. txn[q].value <= nonceValue[req[q].account] /\ req[q].account \in Req
            /\ txn[q].value >= 1
        BY <2>1 DEF Inv, SignedInOrder
      <4>2. txn[q].value # nonceValue[req[q].account]
        BY <2>1, <2>4 DEF IsValid
      <4>3. nonceValue[req[q].account] \in Nat
        BY <4>1 DEF Inv, TypeOK
      <4> QED BY <2>1, <2>2, <2>4, <4>1, <4>2, <4>3 DEF TxnState
    <3>2. PICK p \in Req : /\ txn[p].state \in {"landed", "failed"}
                           /\ req[p].account = req[q].account
                           /\ txn[p].value = txn[q].value
      BY <3>1 DEF Inv, ValuesAreSpent
    <3> QED BY <2>1, <3>1, <3>2
  <2> QED BY <2>1, <2>3, <2>4 DEF Unanswered
<1> QED BY <1>1, SpecInv, PTL

(***************************************************************************)
(* The logins.  What a callback has found out stays true of Twitter, which *)
(* forgets no follower, even where the client has changed under it.        *)
(***************************************************************************)

FollowedIsSeen ==
    \A f \in Login : login[f].pc = "save" /\ login[f].following => login[f].me \in followers

\* A callback that is to follow has found out which account it is of.
AccountIsKnown == \A f \in Login : login[f].pc = "follow" => login[f].me # NoAccount

SocialsInv == SocialsTypeOK /\ FollowedIsSeen /\ AccountIsKnown /\ RecordedFollowed

LEMMA SocialsInitInv == SocialsInit => SocialsInv
<1> SUFFICES ASSUME SocialsInit PROVE SocialsInv
  OBVIOUS
<1>1. client \in [Owner -> [verifier : Login \cup {NoLogin}, token : Account \cup {NoAccount}]]
  BY DEF SocialsInit, NewClient
<1>2. /\ login \in [Login -> [pc : {"idle"}, owner : Owner, code : {NoAccount},
                              me : {NoAccount}, following : {FALSE}]]
      /\ \A f \in Login : login[f].pc = "idle"
  BY DEF SocialsInit
<1>3. login \in [Login -> [pc : {"idle", "link", "done", "failed"} \cup InCallback,
                           owner : Owner, code : Account \cup {NoAccount},
                           me : Account \cup {NoAccount}, following : BOOLEAN]]
  BY <1>2
<1>4. /\ social \in [Owner -> [account : Account \cup {NoAccount}, following : BOOLEAN,
                               recent : BOOLEAN]]
      /\ \A w \in Owner : ~social[w].following
      /\ followers \subseteq Account
  BY DEF SocialsInit
<1> QED BY <1>1, <1>2, <1>3, <1>4 DEF SocialsInv, SocialsTypeOK, FollowedIsSeen,
                               AccountIsKnown, RecordedFollowed

ClientState == [verifier : Login \cup {NoLogin}, token : Account \cup {NoAccount}]
LoginState == [pc : {"idle", "link", "done", "failed"} \cup InCallback, owner : Owner,
               code : Account \cup {NoAccount}, me : Account \cup {NoAccount},
               following : BOOLEAN]
SocialState == [account : Account \cup {NoAccount}, following : BOOLEAN, recent : BOOLEAN]

LEMMA SocialsTyped ==
  SocialsTypeOK <=> /\ client \in [Owner -> ClientState]
                    /\ login \in [Login -> LoginState]
                    /\ social \in [Owner -> SocialState]
                    /\ followers \subseteq Account
  BY DEF SocialsTypeOK, ClientState, LoginState, SocialState

\* The step makes this of login f and leaves the others alone.
LoginBecomes(f, new) ==
    /\ new \in LoginState /\ login' \in [Login -> LoginState]
    /\ login'[f] = new /\ \A g \in Login : g # f => login'[g] = login[g]

\* The steps of a callback keep the invariant, whatever becomes of the client, if
\* what they have found out and what they record is true of Twitter.
LEMMA CallbackInv ==
  ASSUME SocialsInv, NEW f \in Login, NEW new, LoginBecomes(f, new),
         client' \in [Owner -> ClientState],
         social' \in [Owner -> SocialState],
         followers \subseteq followers', followers' \subseteq Account,
         new.pc = "save" /\ new.following => new.me \in followers',
         new.pc = "follow" => new.me # NoAccount,
         \A w \in Owner : social'[w].following =>
             \/ social'[w].account \in followers'
             \/ social[w].following /\ social'[w].account = social[w].account
  PROVE  SocialsInv'
<1>1. SocialsTypeOK'
  BY SocialsTyped DEF LoginBecomes, SocialsTypeOK, ClientState, LoginState, SocialState
<1>2. FollowedIsSeen'
  BY DEF LoginBecomes, SocialsInv, FollowedIsSeen
<1>3. AccountIsKnown'
  BY DEF LoginBecomes, SocialsInv, AccountIsKnown
<1>4. RecordedFollowed'
  BY DEF SocialsInv, RecordedFollowed
<1> QED BY <1>1, <1>2, <1>3, <1>4 DEF SocialsInv

LEMMA SocialsStepInv ==
  ASSUME SocialsInv, NEW f \in Login,
         \/ TwitterFollow(f) \/ (\E account \in Account : SignsIn(f, account))
         \/ RequestsAccessToken(f) \/ GetsMyAccount(f) \/ FollowsDeplan(f)
         \/ CallbackFails(f) \/ Records(f) \/ RemovesClient(f)
  PROVE  SocialsInv'
<1>1. /\ client \in [Owner -> ClientState] /\ login \in [Login -> LoginState]
      /\ social \in [Owner -> SocialState] /\ followers \subseteq Account
      /\ login[f] \in LoginState /\ login[f].owner \in Owner
      /\ \A w \in Owner : client[w] \in ClientState
  BY SocialsTyped DEF SocialsInv, LoginState
<1>2. ASSUME NEW to \in {"link", "me", "remove", "done", "failed"}, LoginGoes(f, to)
      PROVE  \E new : LoginBecomes(f, new) /\ new.pc \notin {"follow", "save"}
  <2> DEFINE new == [login[f] EXCEPT !.pc = to]
  <2>1. new \in LoginState /\ new.pc = to
    BY <1>1 DEF LoginState, InCallback
  <2>2. login' = [login EXCEPT ![f] = new]
    BY <1>2 DEF LoginGoes
  <2> HIDE DEF new
  <2>3. LoginBecomes(f, new) /\ new.pc \notin {"follow", "save"}
    BY <1>1, <2>1, <2>2 DEF LoginBecomes
  <2> QED BY <2>3
<1>3. CASE TwitterFollow(f)
  <2> DEFINE w == login[f].owner
  <2> DEFINE made == [client[w] EXCEPT !.verifier = f]
  <2>1. made \in ClientState /\ client' = [client EXCEPT ![w] = made]
    BY <1>1, <1>3 DEF TwitterFollow, ClientState
  <2> HIDE DEF made
  <2>2. client' \in [Owner -> ClientState]
    BY <1>1, <2>1
  <2>3. PICK new : LoginBecomes(f, new) /\ new.pc \notin {"follow", "save"}
    BY <1>2, <1>3 DEF TwitterFollow
  <2> QED BY <1>1, <1>3, <2>2, <2>3, CallbackInv DEF TwitterFollow
<1>4. ASSUME NEW account \in Account, SignsIn(f, account) PROVE SocialsInv'
  <2> DEFINE new == [login[f] EXCEPT !.pc = "token", !.code = account]
  <2>1. new \in LoginState /\ new.pc = "token"
    BY <1>1 DEF LoginState, InCallback
  <2>2. login' = [login EXCEPT ![f] = new]
    BY <1>4 DEF SignsIn
  <2> HIDE DEF new
  <2>3. LoginBecomes(f, new)
    BY <1>1, <2>1, <2>2 DEF LoginBecomes
  <2> QED BY <1>1, <1>4, <2>1, <2>3, CallbackInv DEF SignsIn
<1>5. CASE RequestsAccessToken(f)
  <2> DEFINE w == login[f].owner
  <2> DEFINE made == [client[w] EXCEPT !.token = login[f].code]
  <2>1. made \in ClientState /\ client' = [client EXCEPT ![w] = made]
    BY <1>1, <1>5 DEF RequestsAccessToken, ClientState, LoginState
  <2> HIDE DEF made
  <2>2. client' \in [Owner -> ClientState]
    BY <1>1, <2>1
  <2>3. PICK new : LoginBecomes(f, new) /\ new.pc \notin {"follow", "save"}
    BY <1>2, <1>5 DEF RequestsAccessToken
  <2> QED BY <1>1, <1>5, <2>2, <2>3, CallbackInv DEF RequestsAccessToken
<1>6. CASE GetsMyAccount(f)
  <2> DEFINE new == [login[f] EXCEPT !.pc = "follow", !.me = ClientOf(f).token]
  <2>1. new \in LoginState /\ new.pc = "follow" /\ new.me # NoAccount
    BY <1>1, <1>6 DEF GetsMyAccount, LoginState, InCallback, ClientOf, ClientState
  <2>2. login' = [login EXCEPT ![f] = new]
    BY <1>6 DEF GetsMyAccount
  <2> HIDE DEF new
  <2>3. LoginBecomes(f, new)
    BY <1>1, <2>1, <2>2 DEF LoginBecomes
  <2> QED BY <1>1, <1>6, <2>1, <2>3, CallbackInv DEF GetsMyAccount
<1>7. CASE FollowsDeplan(f)
  <2>1. PICK following \in BOOLEAN :
            /\ login' = [login EXCEPT ![f].pc = "save", ![f].following = following]
            /\ followers' = IF following THEN followers \cup {login[f].me} ELSE followers
    BY <1>7 DEF FollowsDeplan
  <2>2. login[f].me \in Account
    BY <1>1, <1>7 DEF FollowsDeplan, SocialsInv, AccountIsKnown, LoginState
  <2> DEFINE new == [login[f] EXCEPT !.pc = "save", !.following = following]
  <2>3. /\ new \in LoginState /\ new.pc = "save" /\ new.following = following
        /\ new.me = login[f].me
    BY <1>1 DEF LoginState, InCallback
  <2>4. login' = [login EXCEPT ![f] = new]
    BY <2>1
  <2> HIDE DEF new
  <2>5. LoginBecomes(f, new)
    BY <1>1, <2>3, <2>4 DEF LoginBecomes
  <2>6. /\ followers \subseteq followers' /\ followers' \subseteq Account
        /\ following => login[f].me \in followers'
    BY <1>1, <2>1, <2>2
  <2> QED BY <1>1, <1>7, <2>3, <2>5, <2>6, CallbackInv DEF FollowsDeplan
<1>8. CASE CallbackFails(f)
  <2>1. PICK new : LoginBecomes(f, new) /\ new.pc \notin {"follow", "save"}
    BY <1>2, <1>8 DEF CallbackFails
  <2> QED BY <1>1, <1>8, <2>1, CallbackInv DEF CallbackFails
<1>9. CASE Records(f)
  <2>1. PICK new : LoginBecomes(f, new) /\ new.pc \notin {"follow", "save"}
    BY <1>2, <1>9 DEF Records
  <2> DEFINE made == [account |-> login[f].me, following |-> login[f].following, recent |-> TRUE]
  <2>2. made \in SocialState /\ made.account = login[f].me /\ made.following = login[f].following
    BY <1>1 DEF LoginState, SocialState
  <2>3. login[f].following => login[f].me \in followers
    BY <1>9 DEF Records, SocialsInv, FollowedIsSeen
  <2>4. social' = [social EXCEPT ![login[f].owner] = made]
    BY <1>9 DEF Records
  <2> HIDE DEF made
  <2>5. social' \in [Owner -> SocialState]
    BY <1>1, <2>2, <2>4
  <2>6. \A w \in Owner : social'[w].following =>
             \/ social'[w].account \in followers
             \/ social[w].following /\ social'[w].account = social[w].account
    BY <1>1, <2>2, <2>3, <2>4
  <2> QED BY <1>1, <1>9, <2>1, <2>5, <2>6, CallbackInv DEF Records
<1>10. CASE RemovesClient(f)
  <2>1. NewClient \in ClientState
    BY DEF NewClient, ClientState
  <2>2. client' \in [Owner -> ClientState]
    BY <1>1, <1>10, <2>1 DEF RemovesClient
  <2>3. PICK new : LoginBecomes(f, new) /\ new.pc \notin {"follow", "save"}
    BY <1>2, <1>10 DEF RemovesClient
  <2> QED BY <1>1, <1>10, <2>2, <2>3, CallbackInv DEF RemovesClient
<1> QED BY <1>3, <1>4, <1>5, <1>6, <1>7, <1>8, <1>9, <1>10

LEMMA SocialsNextInv == SocialsInv /\ [SocialsNext]_socialVars => SocialsInv'
<1> SUFFICES ASSUME SocialsInv, [SocialsNext]_socialVars PROVE SocialsInv'
  OBVIOUS
<1>1. /\ client \in [Owner -> ClientState] /\ login \in [Login -> LoginState]
      /\ social \in [Owner -> SocialState] /\ followers \subseteq Account
  BY SocialsTyped DEF SocialsInv
<1>2. ASSUME NEW w \in Owner, FollowAges(w) PROVE SocialsInv'
  <2> DEFINE new == [social[w] EXCEPT !.recent = FALSE]
  <2>1. /\ new \in SocialState /\ new.following = social[w].following
        /\ new.account = social[w].account
    BY <1>1 DEF SocialState
  <2>2. social' = [social EXCEPT ![w] = new] /\ UNCHANGED <<client, login, followers>>
    BY <1>2 DEF FollowAges
  <2> HIDE DEF new
  <2>3. /\ social' \in [Owner -> SocialState]
        /\ \A v \in Owner : /\ social'[v].following = social[v].following
                            /\ social'[v].account = social[v].account
    BY <1>1, <2>1, <2>2
  <2>4. SocialsTypeOK'
    BY <1>1, <2>2, <2>3 DEF SocialsTypeOK, ClientState, LoginState, SocialState
  <2> QED BY <2>2, <2>3, <2>4 DEF SocialsInv, FollowedIsSeen, AccountIsKnown, RecordedFollowed
<1>3. CASE SocialsRestart
  <2>1. UNCHANGED <<social, followers>> /\ NewClient \in ClientState
    BY <1>3 DEF SocialsRestart, NewClient, ClientState
  <2>2. client' \in [Owner -> ClientState]
    BY <1>3, <2>1 DEF SocialsRestart
  <2>3. \A f \in Login : /\ [login[f] EXCEPT !.pc = "failed"] \in LoginState
                         /\ [login[f] EXCEPT !.pc = "failed"].pc = "failed"
    BY <1>1 DEF LoginState
  <2>4. /\ login' \in [Login -> LoginState]
        /\ \A f \in Login : login'[f].pc \notin {"follow", "save"}
    BY <1>1, <1>3, <2>3 DEF SocialsRestart, InCallback
  <2>5. SocialsTypeOK'
    BY <1>1, <2>1, <2>2, <2>4 DEF SocialsTypeOK, ClientState, LoginState, SocialState
  <2> QED BY <2>1, <2>4, <2>5 DEF SocialsInv, FollowedIsSeen, AccountIsKnown, RecordedFollowed
<1>4. CASE UNCHANGED socialVars
  BY <1>4 DEF socialVars, SocialsInv, SocialsTypeOK, FollowedIsSeen,
               AccountIsKnown, RecordedFollowed
<1> QED BY <1>2, <1>3, <1>4, SocialsStepInv DEF SocialsNext

LEMMA SocialsSpecInv == SocialsSpec => []SocialsInv
  BY SocialsInitInv, SocialsNextInv, PTL DEF SocialsSpec

(***************************************************************************)
(* The theorems about logins.                                              *)
(***************************************************************************)

\* Clients, logins and documents keep the shape SocialsService gives them.
THEOREM SocialsCorrect == SocialsSpec => []SocialsTypeOK
  BY SocialsSpecInv, PTL DEF SocialsInv

\* What a wallet's document says of an account that follows is true of Twitter,
\* whatever other logins of the wallet did to the client they share.
THEOREM RecordedHasFollowed == SocialsSpec => []RecordedFollowed
  BY SocialsSpecInv, PTL DEF SocialsInv

(***************************************************************************)
(* What wallets can claim, from the bounds of every claim: each is within  *)
(* half a lamport of the wallet's part, and the parts add up to the        *)
(* airdrop.                                                                *)
(***************************************************************************)

\* Sum is the sum over the places of a sequence.
LEMMA SumIsSum ==
    ASSUME NEW n \in Nat, NEW s \in [1..n -> Int]
    PROVE  Sum(s) = SumFunctionOnSet(s, 1..n)
<1> DEFINE G == [p \in (1..n) \X Int |-> p[2] + s[p[1]]]
           Is(h) == h = [S \in SUBSET DOMAIN s |->
                            IF S = {} THEN 0 ELSE h[S \ {Top(S)}] + s[Top(S)]]
           it == CHOOSE h : Is(h)
<1>1. n \in Nat /\ DOMAIN s = 1..n /\ \A i \in 1..n : s[i] \in Int
  OBVIOUS
<1>2. Sum(s) = it[DOMAIN s]
  BY DEF Sum, FoldLeft, MapThenFoldSet, Max, Top
<1>3. G \in [(1..n) \X Int -> Int]
  BY <1>1
<1>4. PICK g \in [SUBSET (1..n) -> Int] : IsFold(G, 0, g, n)
  <2> HIDE DEF G
  <2>1. 0 \in Int
    OBVIOUS
  <2> QED BY <1>1, <1>3, <2>1, FoldExists
<1>5. Is(g)
  <2>1. ASSUME NEW S \in SUBSET (1..n), S # {} 
        PROVE  G[<<Top(S), g[S \ {Top(S)}]>>] = g[S \ {Top(S)}] + s[Top(S)]
    <3>1. Top(S) \in 1..n
      <4> QED BY <1>1, <2>1, LastPlace
    <3>2. <<Top(S), g[S \ {Top(S)}]>> \in (1..n) \X Int
      BY <3>1
    <3> QED BY <3>2
  <2> HIDE DEF G
  <2> QED BY <1>1, <1>4, <2>1 DEF IsFold, Turn
<1>6. Is(it)
  <2> HIDE DEF Is
  <2> QED BY <1>5
<1>7. FoldsIn(Int, G, 0, it, n)
  <2>1. it[{}] = 0
    BY <1>6
  <2>2. ASSUME NEW S \in SUBSET (1..n), S # {}, it[S \ {Top(S)}] \in Int
        PROVE  it[S] = G[<<Top(S), it[S \ {Top(S)}]>>]
    <3>1. Top(S) \in 1..n
      <4> QED BY <1>1, <2>2, LastPlace
    <3>2. <<Top(S), it[S \ {Top(S)}]>> \in (1..n) \X Int
      <4> HIDE DEF it
      <4> QED BY <2>2, <3>1
    <3>3. it[S] = it[S \ {Top(S)}] + s[Top(S)]
      <4> HIDE DEF it
      <4> QED BY <1>1, <1>6, <2>2
    <3> HIDE DEF it
    <3> QED BY <3>2, <3>3
  <2> HIDE DEF it, G
  <2> QED BY <2>1, <2>2 DEF FoldsIn
<1>8. TakesTurns(Int, G, 0, it, n)
  <2> HIDE DEF it, G
  <2>1. 0 \in Int
    OBVIOUS
  <2> QED BY <1>1, <1>3, <1>7, <2>1, FoldTurns
<1> DEFINE N == {k \in Nat : k <= n => it[1..k] = SumFunctionOnSet(s, 1..k)}
<1>9. 0 \in N
  <2>1. 1..0 = {}
    OBVIOUS
  <2> HIDE DEF it, G
  <2> QED BY <1>8, <2>1, SumOfNone DEF TakesTurns
<1>10. ASSUME NEW k \in N PROVE k + 1 \in N
  <2> SUFFICES ASSUME k + 1 <= n PROVE it[1..(k + 1)] = SumFunctionOnSet(s, 1..(k + 1))
    OBVIOUS
  <2> HIDE DEF it
  <2>1. k \in Nat /\ k \in 0..(n - 1) /\ k \in 0..n /\ k + 1 \in 1..n /\ k <= n
    BY <1>1
  <2>2. it[1..k] = SumFunctionOnSet(s, 1..k) /\ it[1..k] \in Int
    BY <1>8, <2>1 DEF TakesTurns
  <2>3. it[1..(k + 1)] = it[1..k] + s[k + 1]
    <3>1. <<k + 1, it[1..k]>> \in (1..n) \X Int
      BY <2>1, <2>2
    <3>2. G[<<k + 1, it[1..k]>>] = it[1..k] + s[k + 1]
      BY <3>1
    <3> QED BY <1>8, <2>1, <3>2 DEF TakesTurns
  <2>4. SumFunctionOnSet(s, (1..k) \cup {k + 1}) = s[k + 1] + SumFunctionOnSet(s, 1..k)
    <3>1. IsFiniteSet(1..k)
      <4>1. 1 \in Int /\ k \in Int
        BY <2>1
      <4> QED BY <4>1, FS_Interval
    <3>2. k + 1 \notin 1..k /\ \A i \in 1..k : i \in 1..n
      <4> QED BY <1>1, <2>1
    <3> HIDE DEF G
    <3> QED BY <1>1, <2>1, <3>1, <3>2, SumWith
  <2>5. 1..(k + 1) = (1..k) \cup {k + 1}
    BY <2>1
  <2>6. s[k + 1] \in Int
    <3> HIDE DEF G
    <3> QED BY <1>1, <2>1
  <2> HIDE DEF G
  <2>7. SumFunctionOnSet(s, 1..(k + 1)) = s[k + 1] + it[1..k]
    BY <2>2, <2>4, <2>5
  <2>8. it[1..k] + s[k + 1] = s[k + 1] + it[1..k]
    BY <2>2, <2>6
  <2> QED BY <2>3, <2>7, <2>8
<1>11. N = Nat
  <2> HIDE DEF N
  <2>1. N \in SUBSET Nat
    BY DEF N
  <2> QED BY <1>9, <1>10, <2>1, NumbersInduction
<1>12. it[1..n] = SumFunctionOnSet(s, 1..n)
  <2> HIDE DEF it, G
  <2>1. n \in N /\ n <= n
    BY <1>1, <1>11
  <2> QED BY <2>1
<1> QED BY <1>1, <1>2, <1>12
\* Division rounds down.
LEMMA Quotient ==
    ASSUME NEW a \in Nat, NEW d \in Nat, d > 0
    PROVE  a \div d \in Nat /\ d * (a \div d) <= a /\ a < d * (a \div d) + d
  OBVIOUS

LEMMA QuotientGrows ==
    ASSUME NEW a \in Nat, NEW b \in Nat, NEW d \in Nat, d > 0, a <= b
    PROVE  a \div d <= b \div d
  OBVIOUS

LEMMA ProductGrows ==
    ASSUME NEW a \in Nat, NEW b \in Nat, NEW k \in Nat, a <= b
    PROVE  k * a <= k * b
  OBVIOUS

LEMMA ProductIsNat ==
    ASSUME NEW a \in Nat, NEW b \in Nat
    PROVE  a * b \in Nat
  OBVIOUS

LEMMA ProductBound ==
    ASSUME NEW a \in Int, NEW b \in Int, NEW k \in Nat, k > 0, k * a <= k * b
    PROVE  a <= b
  OBVIOUS

\* A claim is within half a lamport of the wallet's part.
LEMMA ClaimRounds ==
    ASSUME NEW size \in Nat, NEW weight \in Nat, NEW total \in Nat, total > 0
    PROVE  /\ ClaimAmount(size, weight, total) \in Nat
           /\ (2 * total) * ClaimAmount(size, weight, total) <= (2 * size) * weight + total
           /\ (2 * size) * weight
                  <= (2 * total) * ClaimAmount(size, weight, total) + total
<1> DEFINE a == 2 * size * weight + total
           d == 2 * total
<1>1. 2 * size * weight \in Nat
  BY ProductIsNat
<1>2. a \in Nat /\ d \in Nat /\ d > 0
  BY <1>1
<1>3. ClaimAmount(size, weight, total) = a \div d
  BY DEF ClaimAmount
<1>4. a \div d \in Nat /\ d * (a \div d) <= a /\ a < d * (a \div d) + d
  <2> HIDE DEF a, d
  <2> QED BY <1>2, Quotient
<1>5. d * (a \div d) \in Nat
  BY <1>2, <1>4, ProductIsNat
<1>6. a <= d * (a \div d) + 2 * total
  BY <1>2, <1>4, <1>5
<1> QED BY <1>1, <1>3, <1>4, <1>5, <1>6

\* Who weighs more never claims less.
LEMMA ClaimGrows ==
    ASSUME NEW size \in Nat, NEW v \in Nat, NEW w \in Nat, NEW total \in Nat, total > 0,
           v <= w
    PROVE  ClaimAmount(size, v, total) <= ClaimAmount(size, w, total)
<1>1. /\ 2 * size * v \in Nat /\ 2 * size * w \in Nat
      /\ 2 * size \in Nat
  BY ProductIsNat
<1>2. 2 * size * v <= 2 * size * w
  BY <1>1, ProductGrows
<1>3. /\ 2 * size * v + total \in Nat
      /\ 2 * size * w + total \in Nat
      /\ 2 * size * v + total <= 2 * size * w + total
      /\ 2 * total \in Nat
      /\ 2 * total > 0
  BY <1>1, <1>2
<1> QED BY <1>3, QuotientGrows DEF ClaimAmount

LEMMA Factored ==
    ASSUME NEW t \in Int, NEW c \in Int, NEW n \in Int
    PROVE  (2 * t) * c = t * (2 * c) /\ (2 * c) * t = t * (2 * c)
           /\ t * (2 * c) + t * n = t * (2 * c + n)
  OBVIOUS

\* What any number of wallets can claim together exceeds the airdrop by no more
\* than half a lamport a wallet, and falls short by no more when none is left out,
\* and who weighs more never claims less.
LEMMA ClaimsFitSize ==
    ASSUME NEW n \in Nat, NEW weights \in [1..n -> Nat], NEW size \in Nat, NEW errors,
           Sum(weights) > 0
    PROVE  /\ Claims(size, weights, errors) \in [1..n -> Nat]
           /\ Sum(Claims(size, weights, errors)) \in Nat
           /\ 2 * Sum(Claims(size, weights, errors)) <= 2 * size + n
           /\ errors = {} => 2 * size <= 2 * Sum(Claims(size, weights, errors)) + n
           /\ \A v, w \in (1..n) \ errors :
                  weights[v] <= weights[w] =>
                      Claims(size, weights, errors)[v] <= Claims(size, weights, errors)[w]
<1> DEFINE S == 1..n
           T == Sum(weights)
           claims == Claims(size, weights, errors)
           C == Sum(claims)
           f == [w \in S |-> (2 * T) * claims[w]]
           p == [w \in S |-> (2 * size) * weights[w]]
           t == [w \in S |-> T]
           h == [w \in S |-> p[w] + t[w]]
           e == [w \in S |-> f[w] + t[w]]
<1>1. IsFiniteSet(S) /\ \A w \in S : weights[w] \in Nat
  <2>1. 1 \in Int /\ n \in Int
    OBVIOUS
  <2> QED BY <2>1, FS_Interval
<1>2. T = SumFunctionOnSet(weights, S) /\ T \in Nat
  <2>1. weights \in [1..n -> Int]
    OBVIOUS
  <2>2. T = SumFunctionOnSet(weights, S)
    <3> HIDE DEF T
    <3> QED BY <2>1, SumIsSum DEF T
  <2>3. SumFunctionOnSet(weights, S) \in Nat
    <3> HIDE DEF S
    <3> QED BY <1>1, SumIsNat
  <2> QED BY <2>2, <2>3
<1>3. T > 0
  OBVIOUS
<1>4. claims = [w \in S |-> IF w \in errors THEN 0 ELSE ClaimAmount(size, weights[w], T)]
  BY DEF Claims
<1> HIDE DEF T, claims
<1>5. ASSUME NEW w \in S
      PROVE  /\ claims[w] \in Nat
             /\ (2 * T) * claims[w] <= (2 * size) * weights[w] + T
             /\ errors = {} => (2 * size) * weights[w] <= (2 * T) * claims[w] + T
  <2>1. weights[w] \in Nat
    BY <1>1
  <2>2. CASE w \in errors
    <3>1. claims[w] = 0 /\ (2 * T) * 0 = 0 /\ errors # {}
      BY <1>2, <1>4, <2>2
    <3>2. (2 * size) * weights[w] \in Nat
      BY <2>1, ProductIsNat
    <3> QED BY <1>2, <3>1, <3>2
  <2>3. CASE w \notin errors
    <3>1. claims[w] = ClaimAmount(size, weights[w], T)
      BY <1>4, <2>3
    <3>2. /\ ClaimAmount(size, weights[w], T) \in Nat
          /\ (2 * T) * ClaimAmount(size, weights[w], T) <= (2 * size) * weights[w] + T
          /\ (2 * size) * weights[w] <= (2 * T) * ClaimAmount(size, weights[w], T) + T
      BY <1>2, <1>3, <2>1, ClaimRounds
    <3> QED BY <3>1, <3>2
  <2> QED BY <2>2, <2>3
<1>6. claims \in [1..n -> Nat]
  BY <1>4, <1>5
<1>7. C = SumFunctionOnSet(claims, S) /\ C \in Nat
  <2>1. claims \in [1..n -> Int]
    BY <1>6
  <2>2. C = SumFunctionOnSet(claims, S)
    <3> HIDE DEF C
    <3> QED BY <2>1, SumIsSum DEF C
  <2>3. SumFunctionOnSet(claims, S) \in Nat
    <3> HIDE DEF S
    <3> QED BY <1>1, <1>5, SumIsNat
  <2> QED BY <2>2, <2>3
<1> HIDE DEF C
<1>8. ASSUME NEW w \in S
      PROVE  /\ f[w] \in Nat /\ p[w] \in Nat /\ t[w] \in Nat
             /\ h[w] \in Nat /\ e[w] \in Nat
             /\ f[w] <= h[w] /\ (errors = {} => p[w] <= e[w])
  <2>1. claims[w] \in Nat /\ weights[w] \in Nat /\ 2 * T \in Nat /\ 2 * size \in Nat
    BY <1>1, <1>2, <1>5
  <2>2. (2 * T) * claims[w] \in Nat /\ (2 * size) * weights[w] \in Nat
    BY <2>1, ProductIsNat
  <2>3. f[w] = (2 * T) * claims[w] /\ p[w] = (2 * size) * weights[w] /\ t[w] = T
    OBVIOUS
  <2>4. h[w] = p[w] + t[w] /\ e[w] = f[w] + t[w]
    OBVIOUS
  <2>5. f[w] <= p[w] + t[w] /\ (errors = {} => p[w] <= f[w] + t[w])
    <3> HIDE DEF f, p, t
    <3> QED BY <1>5, <2>3
  <2>6. f[w] \in Nat /\ p[w] \in Nat /\ t[w] \in Nat
    <3> HIDE DEF f, p, t
    <3> QED BY <1>2, <2>2, <2>3
  <2> HIDE DEF f, p, t, h, e
  <2> QED BY <2>4, <2>5, <2>6
<1>9. SumFunctionOnSet(f, S) = (2 * T) * C
  <2>1. 2 * T \in Int /\ \A w \in S : claims[w] \in Int
    BY <1>2, <1>5
  <2>2. \A w \in S : f[w] = (2 * T) * claims[w]
    OBVIOUS
  <2> HIDE DEF f, S
  <2> QED BY <1>1, <1>7, <2>1, <2>2, SumTimes
<1>10. SumFunctionOnSet(p, S) = (2 * size) * T
  <2>1. 2 * size \in Int /\ \A w \in S : weights[w] \in Int
    BY <1>1
  <2>2. \A w \in S : p[w] = (2 * size) * weights[w]
    OBVIOUS
  <2> HIDE DEF p, S
  <2> QED BY <1>1, <1>2, <2>1, <2>2, SumTimes
<1>11. SumFunctionOnSet(t, S) = T * n
  <2>1. T \in Int /\ \A w \in 1..n : t[w] = T
    BY <1>2
  <2> HIDE DEF t
  <2> QED BY <2>1, SumOfSame
<1>12. /\ \A w \in S : f[w] \in Int /\ p[w] \in Int /\ t[w] \in Int
       /\ \A w \in S : h[w] = p[w] + t[w] /\ e[w] = f[w] + t[w]
  <2>1. \A w \in S : h[w] = p[w] + t[w] /\ e[w] = f[w] + t[w]
    OBVIOUS
  <2> HIDE DEF f, p, t, h, e, S
  <2>2. ASSUME NEW w \in S PROVE f[w] \in Int /\ p[w] \in Int /\ t[w] \in Int
    BY <1>8
  <2> QED BY <2>1, <2>2
<1> HIDE DEF f, p, t, h, e, S
<1>13. /\ SumFunctionOnSet(h, S) = SumFunctionOnSet(p, S) + SumFunctionOnSet(t, S)
       /\ SumFunctionOnSet(e, S) = SumFunctionOnSet(f, S) + SumFunctionOnSet(t, S)
  BY <1>1, <1>12, SumPlus
<1>14. SumFunctionOnSet(f, S) <= SumFunctionOnSet(h, S)
  BY <1>1, <1>8, SumGrows
<1>15. errors = {} => SumFunctionOnSet(p, S) <= SumFunctionOnSet(e, S)
  BY <1>1, <1>8, SumGrows
<1>16. /\ T * (2 * C) <= T * (2 * size + n)
       /\ errors = {} => T * (2 * size) <= T * (2 * C + n)
  <2>1. T \in Int /\ C \in Int /\ size \in Int /\ n \in Int
    BY <1>2, <1>7
  <2>2. /\ (2 * T) * C = T * (2 * C) /\ (2 * size) * T = T * (2 * size)
        /\ T * (2 * size) + T * n = T * (2 * size + n)
        /\ T * (2 * C) + T * n = T * (2 * C + n)
    BY <2>1, Factored
  <2> QED BY <1>9, <1>10, <1>11, <1>13, <1>14, <1>15, <2>2
<1>17. 2 * C <= 2 * size + n /\ (errors = {} => 2 * size <= 2 * C + n)
  <2>1. T \in Nat /\ 2 * C \in Int /\ 2 * size + n \in Int /\ 2 * C + n \in Int
        /\ 2 * size \in Int
    BY <1>2, <1>7
  <2> QED BY <1>3, <1>16, <2>1, ProductBound
<1>18. ASSUME NEW v \in S \ errors, NEW w \in S \ errors, weights[v] <= weights[w]
       PROVE  claims[v] <= claims[w]
  <2>1. weights[v] \in Nat /\ weights[w] \in Nat
    BY <1>1
  <2>2. /\ claims[v] = ClaimAmount(size, weights[v], T)
        /\ claims[w] = ClaimAmount(size, weights[w], T)
    BY <1>4
  <2>3. ClaimAmount(size, weights[v], T) <= ClaimAmount(size, weights[w], T)
    BY <1>2, <1>3, <1>18, <2>1, ClaimGrows
  <2> QED BY <2>2, <2>3
<1>19. \A v, w \in (1..n) \ errors : weights[v] <= weights[w] => claims[v] <= claims[w]
  BY <1>18 DEF S
<1>20. C = Sum(claims)
  BY DEF C
<1> QED BY <1>6, <1>7, <1>17, <1>19, <1>20 DEF claims

\* [AirdropService] The claims of three wallets fit the airdrop, whatever they weigh
\* and whichever of them are wrong.
THEOREM ClaimsFit ==
    (input \in {NoInput} \cup Inputs) /\ [][FALSE]_input => []ClaimsFitAirdrop
<1>1. input \in {NoInput} \cup Inputs => ClaimsFitAirdrop
  <2> SUFFICES ASSUME input \in {NoInput} \cup Inputs, input.kind = "shares",
                      Sum(input.weights) > 0, NEW size \in 0..MaxSize
               PROVE  LET claims == Claims(size, input.weights, input.errors)
                      IN  /\ 2 * Sum(claims) <= 2 * size + 3
                          /\ input.errors = {} => 2 * Sum(claims) >= 2 * size - 3
                          /\ \A v, w \in (1..3) \ input.errors :
                                 input.weights[v] <= input.weights[w] => claims[v] <= claims[w]
    BY DEF ClaimsFitAirdrop
  <2>1. input \in [kind : {"shares"}, weights : [1..3 -> 0..MaxSize], errors : SUBSET (1..3)]
    <3>1. NoInput.kind = "none"
      BY DEF NoInput
    <3>2. input \in PeriodInputs => input.kind = "periods"
      BY DEF PeriodInputs
    <3>3. input \in UseInputs => input.kind = "uses"
      BY DEF UseInputs
    <3>4. input \in ShareInputs
      BY <3>1, <3>2, <3>3 DEF Inputs
    <3> QED BY <3>4 DEF ShareInputs
  <2>2. MaxSize \in Nat
    BY InputAssumption
  <2>3. input.weights \in [1..3 -> Nat] /\ size \in Nat /\ 3 \in Nat
    BY <2>1, <2>2
  <2> DEFINE claims == Claims(size, input.weights, input.errors)
  <2>4. /\ Sum(claims) \in Nat
        /\ 2 * Sum(claims) <= 2 * size + 3
        /\ input.errors = {} => 2 * size <= 2 * Sum(claims) + 3
        /\ \A v, w \in (1..3) \ input.errors :
               input.weights[v] <= input.weights[w] => claims[v] <= claims[w]
    BY <2>3, ClaimsFitSize
  <2> HIDE DEF claims
  <2>5. input.errors = {} => 2 * Sum(claims) >= 2 * size - 3
    BY <2>3, <2>4
  <2> QED BY <2>4, <2>5 DEF claims
<1>2. ClaimsFitAirdrop /\ [FALSE]_input => ClaimsFitAirdrop'
  BY DEF ClaimsFitAirdrop
<1> QED BY <1>1, <1>2, PTL

(***************************************************************************)
(* How much a wallet has used DePlan.  Each page is the next ones of the   *)
(* recent transactions, and the loop makes the minutes of what is behind   *)
(* one cursor from the minutes of what is behind the next.                 *)
(***************************************************************************)

Use == {t \in [date : Int, used : BOOLEAN, memo : Int] : t.used => t.memo \in {NaN, 1}}

\* What a page keeps of the transactions it was fetched with.
Kept(s, from) ==
    LET Keep(page, t) == IF t.date >= from THEN Append(page, t) ELSE page
    IN  FoldLeft(Keep, <<>>, s)

\* The first m of n transactions are the recent ones, and are all that is kept.
FirstRecent(s, n, from, m) ==
    /\ s \in [1..n -> Use]
    /\ m \in 0..n
    /\ \A i \in 1..n : s[i].date >= from <=> i <= m

IsFirst(page, s, m) ==
    page \in Seq(Use) /\ Len(page) = m /\ \A i \in 1..m : page[i] = s[i]

LEMMA KeepsFirst ==
    ASSUME NEW n \in Nat, NEW s, NEW from, NEW m, FirstRecent(s, n, from, m)
    PROVE  IsFirst(Kept(s, from), s, m)
<1> DEFINE V == Seq(Use)
           Keep(page, t) == IF t.date >= from THEN Append(page, t) ELSE page
           G == [p \in (1..n) \X V |-> Keep(p[2], s[p[1]])]
           Is(h) == h = [S \in SUBSET DOMAIN s |->
                            IF S = {} THEN <<>> ELSE Keep(h[S \ {Top(S)}], s[Top(S)])]
           it == CHOOSE h : Is(h)
<1>1. /\ DOMAIN s = 1..n /\ \A i \in 1..n : s[i] \in Use
      /\ m \in Nat /\ m <= n /\ \A i \in 1..n : s[i].date >= from <=> i <= m
  BY DEF FirstRecent
<1>2. Kept(s, from) = it[DOMAIN s]
  BY DEF Kept, FoldLeft, MapThenFoldSet, Max, Top
<1>a. /\ \A h, t : t.date >= from => Keep(h, t) = Append(h, t)
      /\ \A h, t : ~(t.date >= from) => Keep(h, t) = h
  OBVIOUS
<1>3. G \in [(1..n) \X V -> V] /\ <<>> \in V
  <2>1. ASSUME NEW h \in V, NEW i \in 1..n PROVE Keep(h, s[i]) \in V
    BY <1>1
  <2> HIDE DEF V, Keep
  <2>2. G \in [(1..n) \X V -> V]
    BY <2>1
  <2> QED BY <2>2 DEF V
<1> HIDE DEF V, Keep
<1>4. PICK g \in [SUBSET (1..n) -> V] : IsFold(G, <<>>, g, n)
  <2> HIDE DEF G
  <2> QED BY <1>3, FoldExists
<1>5. ASSUME NEW h, NEW S \in SUBSET (1..n), S # {}, h[S \ {Top(S)}] \in V
      PROVE  /\ Top(S) \in 1..n
             /\ G[<<Top(S), h[S \ {Top(S)}]>>] = Keep(h[S \ {Top(S)}], s[Top(S)])
  <2>1. Top(S) \in 1..n
    BY <1>5, LastPlace
  <2>2. <<Top(S), h[S \ {Top(S)}]>> \in (1..n) \X V
    BY <1>5, <2>1
  <2> QED BY <2>1, <2>2
<1>6. Is(g)
  <2>1. ASSUME NEW S \in SUBSET (1..n), S # {}
        PROVE  G[<<Top(S), g[S \ {Top(S)}]>>] = Keep(g[S \ {Top(S)}], s[Top(S)])
    <3>1. g[S \ {Top(S)}] \in V
      OBVIOUS
    <3> QED BY <1>5, <2>1, <3>1
  <2> HIDE DEF G
  <2> QED BY <1>1, <1>4, <2>1 DEF IsFold, Turn
<1>7. Is(it)
  <2> HIDE DEF Is
  <2> QED BY <1>6
<1>8. TakesTurns(V, G, <<>>, it, n)
  <2>1. it[{}] = <<>>
    BY <1>7
  <2>2. ASSUME NEW S \in SUBSET (1..n), S # {}, it[S \ {Top(S)}] \in V
        PROVE  it[S] = G[<<Top(S), it[S \ {Top(S)}]>>]
    <3>1. it[S] = Keep(it[S \ {Top(S)}], s[Top(S)])
      <4> HIDE DEF it
      <4> QED BY <1>1, <1>7, <2>2
    <3> HIDE DEF it, G
    <3> QED BY <1>5, <2>2, <3>1
  <2> HIDE DEF it, G
  <2>3. FoldsIn(V, G, <<>>, it, n)
    BY <2>1, <2>2 DEF FoldsIn
  <2> QED BY <1>3, <2>3, FoldTurns
<1> HIDE DEF it, Is
<1> DEFINE l(k) == IF k <= m THEN k ELSE m
           N == {k \in Nat : k <= n => /\ Len(it[1..k]) = l(k)
                                       /\ \A i \in 1..l(k) : it[1..k][i] = s[i]}
<1>10. 0 \in N
  <2>1. 1..0 = {} /\ it[1..0] = <<>> /\ l(0) = 0
    BY <1>1, <1>8 DEF TakesTurns
  <2> QED BY <2>1
<1>11. ASSUME NEW k \in N PROVE k + 1 \in N
  <2> SUFFICES ASSUME k + 1 <= n
               PROVE  /\ Len(it[1..(k + 1)]) = l(k + 1)
                      /\ \A i \in 1..l(k + 1) : it[1..(k + 1)][i] = s[i]
    OBVIOUS
  <2>1. k \in Nat /\ k \in 0..(n - 1) /\ k \in 0..n /\ k + 1 \in 1..n /\ k <= n
    OBVIOUS
  <2>2. /\ it[1..k] \in Seq(Use) /\ Len(it[1..k]) = l(k)
        /\ \A i \in 1..l(k) : it[1..k][i] = s[i]
    BY <1>8, <2>1 DEF TakesTurns, V
  <2>3. it[1..(k + 1)] = Keep(it[1..k], s[k + 1])
    <3>1. G[<<k + 1, it[1..k]>>] = Keep(it[1..k], s[k + 1])
      <4>1. <<k + 1, it[1..k]>> \in (1..n) \X V
        BY <2>1, <2>2 DEF V
      <4> QED BY <4>1
    <3> HIDE DEF G
    <3> QED BY <1>8, <2>1, <3>1 DEF TakesTurns
  <2>a. s[k + 1].date >= from <=> k + 1 <= m
    BY <1>1, <2>1
  <2>4. CASE k + 1 <= m
    <3>1. it[1..(k + 1)] = Append(it[1..k], s[k + 1])
      BY <1>a, <2>a, <2>3, <2>4
    <3>2. l(k) = k /\ l(k + 1) = k + 1
      BY <1>1, <2>1, <2>4
    <3>3. s[k + 1] \in Use
      BY <1>1, <2>1
    <3> DEFINE q == it[1..k]
    <3>4. /\ q \in Seq(Use) /\ Len(q) = k /\ \A i \in 1..k : q[i] = s[i]
      BY <2>2, <3>2
    <3> HIDE DEF q, l, N
    <3>5. /\ Len(Append(q, s[k + 1])) = k + 1
          /\ \A i \in 1..(k + 1) : Append(q, s[k + 1])[i] = s[i]
      BY <2>1, <3>3, <3>4
    <3> QED BY <3>1, <3>2, <3>5 DEF q
  <2>5. CASE ~(k + 1 <= m)
    <3>1. it[1..(k + 1)] = it[1..k]
      BY <1>a, <2>a, <2>3, <2>5
    <3>2. l(k) = m /\ l(k + 1) = m
      BY <1>1, <2>1, <2>5
    <3> QED BY <2>2, <3>1, <3>2
  <2> QED BY <2>4, <2>5
<1>12. n \in N /\ l(n) = m
  <2>1. N = Nat
    <3> HIDE DEF N
    <3>1. N \in SUBSET Nat
      BY DEF N
    <3> QED BY <1>10, <1>11, <3>1, NumbersInduction
  <2> QED BY <1>1, <2>1
<1>13. it[1..n] \in Seq(Use) /\ Len(it[1..n]) = m /\ \A i \in 1..m : it[1..n][i] = s[i]
  <2>1. n \in 0..n /\ n <= n
    OBVIOUS
  <2> QED BY <1>8, <1>12, <2>1 DEF TakesTurns, V
<1> QED BY <1>1, <1>2, <1>13 DEF IsFirst

\* The transactions of a wallet, the newest first, and those at and after a time.
Ordered(txns, n) == txns \in [1..n -> Use] /\ \A i \in 1..n : txns[i].date = n - i

Recent(n, from) == IF from <= n THEN n - from ELSE 0

\* A page is empty or goes on from its cursor, within the first m.
GoesOn(page, txns, before, m) ==
    /\ page \in Seq(Use)
    /\ m <= before => Len(page) = 0
    /\ before < m => Len(page) >= 1 /\ before + Len(page) <= m
    /\ \A i \in 1..Len(page) : page[i] = txns[before + i]

LEMMA PageGoesOn ==
    ASSUME NEW n \in Nat, NEW txns, Ordered(txns, n), NEW from \in Nat, NEW before \in 0..n
    PROVE  GoesOn(TokenHistory(txns, before, from), txns, before, Recent(n, from))
<1> DEFINE m == Recent(n, from)
           end == IF before + PageLimit <= Len(txns) THEN before + PageLimit ELSE Len(txns)
           s == SubSeq(txns, before + 1, end)
           L == end - before
           k == IF m <= before THEN 0 ELSE IF end <= m THEN L ELSE m - before
           page == Kept(s, from)
<1>1. PageLimit \in Nat /\ PageLimit >= 1
  BY InputAssumption
<1>2. Len(txns) = n /\ \A i \in 1..n : txns[i] \in Use /\ txns[i].date = n - i
  <2>1. txns \in Seq(Use)
    BY SeqDef DEF Ordered
  <2> QED BY <2>1 DEF Ordered
<1>3. /\ end \in Nat /\ before <= end /\ end <= n /\ L \in Nat
      /\ before < n => before < end
  <2>1. end = IF before + PageLimit <= n THEN before + PageLimit ELSE n
    BY <1>2
  <2> HIDE DEF end
  <2> QED BY <1>1, <2>1
<1>4. m \in Nat /\ m <= n /\ \A i \in 1..n : n - i >= from <=> i <= m
  BY DEF Recent
<1> HIDE DEF m, end
<1>5. s \in [1..L -> Use] /\ \A i \in 1..L : s[i] = txns[before + i]
  <2>1. \A i \in (before + 1)..end : txns[i] \in Use
    <3>1. \A i \in (before + 1)..end : i \in 1..n
      BY <1>3
    <3> QED BY <1>2, <3>1
  <2>2. before + 1 \in Int /\ end \in Int
    BY <1>3
  <2>3. /\ s \in Seq(Use)
        /\ Len(s) = IF before + 1 <= end THEN end - (before + 1) + 1 ELSE 0
        /\ \A i \in 1..(end - (before + 1) + 1) : s[i] = txns[(before + 1) + i - 1]
    BY <2>1, <2>2, SubSeqProperties
  <2>4. end - (before + 1) + 1 = L /\ \A i \in 1..L : (before + 1) + i - 1 = before + i
    BY <1>3
  <2>5. Len(s) = L
    BY <1>3, <2>3, <2>4
  <2> HIDE DEF s, L
  <2>6. \A i \in 1..L : s[i] = txns[before + i]
    BY <2>3, <2>4
  <2> QED BY <2>3, <2>5, <2>6
<1>6. k \in 0..L
  BY <1>3, <1>4
<1>7. \A i \in 1..L : s[i].date >= from <=> i <= k
  <2> SUFFICES ASSUME NEW i \in 1..L PROVE s[i].date >= from <=> i <= k
    OBVIOUS
  <2>1. before + i \in 1..n
    BY <1>3
  <2>2. s[i].date = n - (before + i)
    BY <1>2, <1>5, <2>1
  <2>3. n - (before + i) >= from <=> before + i <= m
    BY <1>4, <2>1
  <2>4. before + i <= m <=> i <= k
    BY <1>3, <1>4
  <2> QED BY <2>2, <2>3, <2>4
<1>8. page \in Seq(Use) /\ Len(page) = k /\ \A i \in 1..k : page[i] = s[i]
  <2>1. L \in Nat
    BY <1>3
  <2> HIDE DEF s, L, k
  <2>2. FirstRecent(s, L, from, k)
    BY <1>5, <1>6, <1>7 DEF FirstRecent
  <2>3. IsFirst(page, s, k)
    BY <2>1, <2>2, KeepsFirst
  <2> QED BY <2>3 DEF IsFirst
<1>9. TokenHistory(txns, before, from) = page
  BY DEF TokenHistory, Kept, end
<1>10. /\ m <= before => k = 0
       /\ before < m => k >= 1 /\ before + k <= m
  BY <1>3, <1>4
<1>11. \A i \in 1..k : page[i] = txns[before + i]
  <2>1. \A i \in 1..k : i \in 1..L
    BY <1>3, <1>6
  <2> HIDE DEF s, L, k, page
  <2> QED BY <1>5, <1>8, <2>1
<1> HIDE DEF page, k, s
<1>12. GoesOn(page, txns, before, m)
  BY <1>8, <1>10, <1>11 DEF GoesOn
<1> QED BY <1>9, <1>12 DEF m

(***************************************************************************)
(* The minutes of transactions at a set of places.                         *)
(***************************************************************************)

Minutes(txns, R) ==
    IF \E i \in R : txns[i].used /\ txns[i].memo = NaN THEN NaN
    ELSE Cardinality({i \in R : txns[i].used})

Added(total, t) ==
    IF ~t.used THEN total
    ELSE IF NaN \in {total, t.memo} THEN NaN ELSE total + t.memo

LEMMA MinutesType ==
    ASSUME NEW txns, NEW R, IsFiniteSet(R)
    PROVE  /\ IsFiniteSet({i \in R : txns[i].used})
           /\ Cardinality({i \in R : txns[i].used}) \in Nat
           /\ Minutes(txns, R) \in Int
           /\ Minutes(txns, R) = NaN <=> \E i \in R : txns[i].used /\ txns[i].memo = NaN
<1>1. IsFiniteSet({i \in R : txns[i].used})
  BY FS_Subset
<1>2. Cardinality({i \in R : txns[i].used}) \in Nat
  BY <1>1, FS_CardinalityType
<1>3. NaN \in Int /\ NaN < 0
  BY DEF NaN
<1>4. CASE \E i \in R : txns[i].used /\ txns[i].memo = NaN
  <2>1. Minutes(txns, R) = NaN
    BY <1>4 DEF Minutes
  <2> QED BY <1>1, <1>2, <1>3, <1>4, <2>1
<1>5. CASE ~\E i \in R : txns[i].used /\ txns[i].memo = NaN
  <2>1. Minutes(txns, R) = Cardinality({i \in R : txns[i].used})
    BY <1>5 DEF Minutes
  <2>2. Minutes(txns, R) # NaN /\ Minutes(txns, R) \in Int
    BY <1>2, <1>3, <2>1
  <2> QED BY <1>1, <1>2, <1>5, <2>2
<1> QED BY <1>4, <1>5

\* One place more.
LEMMA MinutesMore ==
    ASSUME NEW txns, NEW R, IsFiniteSet(R), NEW j, j \notin R, txns[j] \in Use
    PROVE  Added(Minutes(txns, R), txns[j]) = Minutes(txns, R \cup {j})
<1> DEFINE C == {i \in R : txns[i].used}
           D == {i \in R \cup {j} : txns[i].used}
           bad == \E i \in R : txns[i].used /\ txns[i].memo = NaN
           worse == \E i \in R \cup {j} : txns[i].used /\ txns[i].memo = NaN
<1>1. IsFiniteSet(C) /\ Cardinality(C) \in Nat /\ (Minutes(txns, R) = NaN <=> bad)
  BY MinutesType
<1>2. txns[j].used \in BOOLEAN /\ (txns[j].used => txns[j].memo \in {NaN, 1})
  BY DEF Use
<1>3. CASE ~txns[j].used
  <2>1. D = C /\ (worse <=> bad)
    BY <1>3
  <2>2. Minutes(txns, R \cup {j}) = Minutes(txns, R)
    <3> HIDE DEF C, D, bad, worse
    <3> QED BY <2>1 DEF Minutes, C, D, bad, worse
  <2> QED BY <1>3, <2>2 DEF Added
<1>4. CASE txns[j].used /\ (bad \/ txns[j].memo = NaN)
  <2>1. worse
    BY <1>4
  <2>2. Minutes(txns, R \cup {j}) = NaN
    BY <2>1 DEF Minutes
  <2>3. NaN \in {Minutes(txns, R), txns[j].memo}
    <3> HIDE DEF bad
    <3> QED BY <1>1, <1>4
  <2> QED BY <1>4, <2>2, <2>3 DEF Added
<1>5. CASE txns[j].used /\ ~(bad \/ txns[j].memo = NaN)
  <2>1. ~worse /\ txns[j].memo = 1
    BY <1>2, <1>5
  <2>2. D = C \cup {j} /\ j \notin C
    BY <1>5
  <2> HIDE DEF C, D
  <2>3. Cardinality(D) = Cardinality(C) + 1
    BY <1>1, <2>2, FS_AddElement
  <2>4. Minutes(txns, R) = Cardinality(C) /\ Minutes(txns, R \cup {j}) = Cardinality(D)
    BY <1>5, <2>1 DEF Minutes, C, D
  <2>5. ~(NaN \in {Minutes(txns, R), txns[j].memo})
    <3> HIDE DEF bad
    <3> QED BY <1>1, <1>5
  <2> QED BY <1>5, <2>1, <2>3, <2>4, <2>5 DEF Added
<1> QED BY <1>2, <1>3, <1>4, <1>5

\* A page more: what the transactions of the page are added to, one after the other.
AddUp(c, s) ==
    LET Add(total, t) ==
            IF ~t.used THEN total
            ELSE IF NaN \in {total, t.memo} THEN NaN ELSE total + t.memo
    IN  FoldLeft(Add, c, s)

\* The page is n transactions from a cursor on, none of them at the places R.
PageOf(s, n, txns, b, R) ==
    s \in [1..n -> Use] /\ \A i \in 1..n : s[i] = txns[b + i] /\ b + i \notin R

LEMMA PageAdds ==
    ASSUME NEW n \in Nat, NEW s, NEW txns, NEW R, IsFiniteSet(R), NEW b \in Nat,
           PageOf(s, n, txns, b, R)
    PROVE  AddUp(Minutes(txns, R), s) = Minutes(txns, R \cup ((b + 1)..(b + n)))
<1> DEFINE c == Minutes(txns, R)
           G == [p \in (1..n) \X Int |-> Added(p[2], s[p[1]])]
           Is(h) == h = [S \in SUBSET DOMAIN s |->
                            IF S = {} THEN c ELSE Added(h[S \ {Top(S)}], s[Top(S)])]
           it == CHOOSE h : Is(h)
<1>1. /\ DOMAIN s = 1..n /\ \A i \in 1..n : s[i] \in Use
      /\ \A i \in 1..n : s[i] = txns[b + i] /\ b + i \notin R
  BY DEF PageOf
<1>2. AddUp(c, s) = it[DOMAIN s]
  BY DEF AddUp, Added, FoldLeft, MapThenFoldSet, Max, Top
<1>3. c \in Int /\ G \in [(1..n) \X Int -> Int]
  <2>1. c \in Int
    BY MinutesType
  <2>2. ASSUME NEW h \in Int, NEW i \in 1..n PROVE Added(h, s[i]) \in Int
    BY <1>1 DEF Added, Use, NaN
  <2> QED BY <2>1, <2>2
<1> HIDE DEF c
<1>4. PICK g \in [SUBSET (1..n) -> Int] : IsFold(G, c, g, n)
  <2> HIDE DEF G
  <2> QED BY <1>3, FoldExists
<1>5. ASSUME NEW h, NEW S \in SUBSET (1..n), S # {}, h[S \ {Top(S)}] \in Int
      PROVE  /\ Top(S) \in 1..n
             /\ G[<<Top(S), h[S \ {Top(S)}]>>] = Added(h[S \ {Top(S)}], s[Top(S)])
  <2>1. Top(S) \in 1..n
    BY <1>5, LastPlace
  <2>2. <<Top(S), h[S \ {Top(S)}]>> \in (1..n) \X Int
    BY <1>5, <2>1
  <2> QED BY <2>1, <2>2
<1>6. Is(g)
  <2>1. ASSUME NEW S \in SUBSET (1..n), S # {}
        PROVE  G[<<Top(S), g[S \ {Top(S)}]>>] = Added(g[S \ {Top(S)}], s[Top(S)])
    <3>1. g[S \ {Top(S)}] \in Int
      OBVIOUS
    <3> QED BY <1>5, <2>1, <3>1
  <2> HIDE DEF G
  <2> QED BY <1>1, <1>4, <2>1 DEF IsFold, Turn
<1>7. Is(it)
  <2> HIDE DEF Is
  <2> QED BY <1>6
<1>8. TakesTurns(Int, G, c, it, n)
  <2>1. it[{}] = c
    BY <1>7
  <2>2. ASSUME NEW S \in SUBSET (1..n), S # {}, it[S \ {Top(S)}] \in Int
        PROVE  it[S] = G[<<Top(S), it[S \ {Top(S)}]>>]
    <3>1. it[S] = Added(it[S \ {Top(S)}], s[Top(S)])
      <4> HIDE DEF it
      <4> QED BY <1>1, <1>7, <2>2
    <3> HIDE DEF it, G
    <3> QED BY <1>5, <2>2, <3>1
  <2> HIDE DEF it, G
  <2>3. FoldsIn(Int, G, c, it, n)
    BY <2>1, <2>2 DEF FoldsIn
  <2> QED BY <1>3, <2>3, FoldTurns
<1> HIDE DEF it, Is
<1> DEFINE W(k) == R \cup ((b + 1)..(b + k))
           N == {k \in Nat : k <= n => it[1..k] = Minutes(txns, W(k))}
<1>10. 0 \in N
  <2>1. 1..0 = {} /\ it[1..0] = c /\ (b + 1)..(b + 0) = {}
    BY <1>8 DEF TakesTurns
  <2>2. W(0) = R
    BY <2>1
  <2> QED BY <2>1, <2>2 DEF c
<1>11. ASSUME NEW k \in N PROVE k + 1 \in N
  <2> SUFFICES ASSUME k + 1 <= n PROVE it[1..(k + 1)] = Minutes(txns, W(k + 1))
    OBVIOUS
  <2>1. k \in Nat /\ k \in 0..(n - 1) /\ k \in 0..n /\ k + 1 \in 1..n /\ k <= n
    OBVIOUS
  <2>2. it[1..k] \in Int /\ it[1..k] = Minutes(txns, W(k))
    BY <1>8, <2>1 DEF TakesTurns
  <2>3. it[1..(k + 1)] = Added(it[1..k], s[k + 1])
    <3>1. G[<<k + 1, it[1..k]>>] = Added(it[1..k], s[k + 1])
      <4>1. <<k + 1, it[1..k]>> \in (1..n) \X Int
        BY <2>1, <2>2
      <4> QED BY <4>1
    <3> HIDE DEF G
    <3> QED BY <1>8, <2>1, <3>1 DEF TakesTurns
  <2>4. s[k + 1] = txns[b + (k + 1)] /\ s[k + 1] \in Use /\ b + (k + 1) \notin R
    BY <1>1, <2>1
  <2>5. b + (k + 1) \notin W(k) /\ W(k + 1) = W(k) \cup {b + (k + 1)}
    <3>1. b + (k + 1) \notin (b + 1)..(b + k)
      BY <2>1
    <3>2. (b + 1)..(b + (k + 1)) = ((b + 1)..(b + k)) \cup {b + (k + 1)}
      BY <2>1
    <3> QED BY <2>4, <3>1, <3>2
  <2>6. IsFiniteSet(W(k))
    <3>1. b + 1 \in Int /\ b + k \in Int
      BY <2>1
    <3>2. IsFiniteSet((b + 1)..(b + k))
      BY <3>1, FS_Interval
    <3> QED BY <3>2, FS_Union
  <2>7. Added(Minutes(txns, W(k)), txns[b + (k + 1)]) = Minutes(txns, W(k) \cup {b + (k + 1)})
    <3> HIDE DEF W
    <3> QED BY <2>4, <2>5, <2>6, MinutesMore
  <2> QED BY <2>2, <2>3, <2>4, <2>5, <2>7
<1>12. it[1..n] = Minutes(txns, W(n))
  <2>1. N = Nat
    <3> HIDE DEF N
    <3>1. N \in SUBSET Nat
      BY DEF N
    <3> QED BY <1>10, <1>11, <3>1, NumbersInduction
  <2>2. n \in N /\ n <= n
    <3> HIDE DEF N
    <3> QED BY <2>1
  <2> QED BY <2>2
<1> QED BY <1>1, <1>2, <1>12 DEF c

\* What the loop makes of the rest, given what it makes of what is behind the page.
Rest(txns, from, h, before) ==
    LET page == TokenHistory(txns, before, from)
    IN  IF before > Len(txns) \/ page = <<>> THEN 0
        ELSE AddUp(h[NextCursor(before, page)], page)

\* The minutes of the first m are known behind every cursor further on.
KnownBehind(txns, m, h, before) ==
    \A b \in 0..m : before < b => h[b] = Minutes(txns, (b + 1)..m)

\* It makes the minutes of what is recent behind a cursor from those behind the next.
LEMMA RestCounts ==
    ASSUME NEW n \in Nat, NEW txns, Ordered(txns, n), NEW from \in Nat,
           NEW before \in Nat, NEW h, KnownBehind(txns, Recent(n, from), h, before)
    PROVE  Rest(txns, from, h, before) = Minutes(txns, (before + 1)..Recent(n, from))
<1> DEFINE m == Recent(n, from)
           page == TokenHistory(txns, before, from)
           L == Len(page)
<1>1. m \in Nat /\ m <= n
  BY DEF Recent
<1>2. Len(txns) = n /\ \A i \in 1..n : txns[i] \in Use
  <2>1. txns \in Seq(Use)
    BY SeqDef DEF Ordered
  <2> QED BY <2>1 DEF Ordered
<1>3. Minutes(txns, {}) = 0
  BY FS_EmptySet DEF Minutes
<1> HIDE DEF m, page
<1>4. CASE m <= before
  <2>1. (before + 1)..m = {}
    BY <1>1, <1>4
  <2>2. before > n \/ page = <<>>
    <3> SUFFICES ASSUME ~(before > n) PROVE page = <<>>
      OBVIOUS
    <3>1. before \in 0..n
      OBVIOUS
    <3>2. GoesOn(page, txns, before, m)
      BY <3>1, PageGoesOn DEF m, page
    <3>3. page \in Seq(Use) /\ Len(page) = 0
      BY <1>4, <3>2 DEF GoesOn
    <3> QED BY <3>3, EmptySeq
  <2>3. Rest(txns, from, h, before) = 0
    BY <1>2, <2>2 DEF Rest, page
  <2> QED BY <1>3, <2>1, <2>3 DEF m
<1>5. CASE before < m
  <2>1. before \in 0..n /\ ~(before > n)
    BY <1>1, <1>5
  <2>2. /\ page \in Seq(Use) /\ L >= 1 /\ before + L <= m
        /\ \A i \in 1..L : page[i] = txns[before + i]
    <3>1. GoesOn(page, txns, before, m)
      BY <2>1, PageGoesOn DEF m, page
    <3> QED BY <1>5, <3>1 DEF GoesOn
  <2>3. L \in Nat /\ page \in [1..L -> Use]
    BY <2>2, LenProperties
  <2>4. page # <<>>
    BY <2>2, EmptySeq
  <2>5. h[before + L] = Minutes(txns, (before + L + 1)..m)
    <3>1. before + L \in 0..m /\ before < before + L
      BY <1>1, <2>2, <2>3
    <3> QED BY <3>1 DEF m, KnownBehind
  <2>6. Rest(txns, from, h, before) = AddUp(h[before + L], page)
    BY <1>2, <2>1, <2>4 DEF Rest, NextCursor, page
  <2> DEFINE R == (before + L + 1)..m
  <2>7. /\ IsFiniteSet(R)
        /\ \A i \in 1..L : page[i] = txns[before + i] /\ before + i \notin R
        /\ R \cup ((before + 1)..(before + L)) = (before + 1)..m
    <3>1. before + L + 1 \in Int /\ m \in Int
      BY <1>1, <2>3
    <3>2. IsFiniteSet(R)
      BY <3>1, FS_Interval
    <3> HIDE DEF L
    <3>3. \A i \in 1..L : before + i \notin R
      BY <1>1, <2>3
    <3>4. R \cup ((before + 1)..(before + L)) = (before + 1)..m
      BY <1>1, <2>2, <2>3
    <3> QED BY <2>2, <3>2, <3>3, <3>4
  <2> HIDE DEF R, L
  <2>8. AddUp(Minutes(txns, R), page) = Minutes(txns, R \cup ((before + 1)..(before + L)))
    <3>1. PageOf(page, L, txns, before, R)
      BY <2>3, <2>7 DEF PageOf
    <3> QED BY <2>3, <2>7, <3>1, PageAdds
  <2>9. AddUp(h[before + L], page) = Minutes(txns, (before + 1)..m)
    BY <2>5, <2>7, <2>8 DEF R
  <2> QED BY <2>6, <2>9 DEF m
<1> QED BY <1>1, <1>4, <1>5

\* The loop counts the minutes of what is recent.
LEMMA MinutesAreCounted ==
    ASSUME NEW n \in Nat, NEW txns, Ordered(txns, n), NEW from \in Nat
    PROVE  UsageMinutes(txns, from) = Minutes(txns, 1..Recent(n, from))
<1> DEFINE m == Recent(n, from)
           D == 0..Len(txns) + PageLimit
           Is(h) == h = [before \in D |-> Rest(txns, from, h, before)]
           total == CHOOSE h : Is(h)
           g == [before \in D |-> Minutes(txns, (before + 1)..m)]
<1>1. m \in Nat /\ m <= n /\ PageLimit \in Nat
  BY InputAssumption DEF Recent
<1>2. Len(txns) = n
  <2>1. txns \in Seq(Use)
    BY SeqDef DEF Ordered
  <2> QED BY <2>1 DEF Ordered
<1>3. UsageMinutes(txns, from) = total[0]
  BY DEF UsageMinutes, Rest, AddUp
<1>4. D \subseteq Nat /\ 0..m \subseteq D
  BY <1>1, <1>2
<1> HIDE DEF D
<1>5. \A b \in 0..m : g[b] = Minutes(txns, (b + 1)..m)
  BY <1>4
<1>6. Is(g)
  <2> HIDE DEF g, m
  <2>1. \A before \in D : Rest(txns, from, g, before) = Minutes(txns, (before + 1)..m)
    <3> SUFFICES ASSUME NEW before \in D
                 PROVE  Rest(txns, from, g, before) = Minutes(txns, (before + 1)..m)
      OBVIOUS
    <3>1. before \in Nat
      BY <1>4
    <3>2. KnownBehind(txns, m, g, before)
      BY <1>5 DEF KnownBehind
    <3> QED BY <3>1, <3>2, RestCounts DEF m
  <2>2. g = [before \in D |-> Minutes(txns, (before + 1)..m)]
    BY DEF g
  <2> QED BY <2>1, <2>2
<1>7. Is(total)
  <2> HIDE DEF Is
  <2> QED BY <1>6
<1>8. \A before \in D : total[before] = Rest(txns, from, total, before)
  <2> HIDE DEF total
  <2> QED BY <1>7
<1> HIDE DEF total, Is, g, m
<1> DEFINE N == {d \in Nat : \A b \in 0..m :
                                m <= b + d => total[b] = Minutes(txns, (b + 1)..m)}
<1>9. 0 \in N
  <2> SUFFICES ASSUME NEW b \in 0..m, m <= b + 0
               PROVE  total[b] = Minutes(txns, (b + 1)..m)
    OBVIOUS
  <2>1. b \in Nat /\ b \in D /\ ~\E c \in 0..m : b < c
    BY <1>1, <1>4
  <2>2. KnownBehind(txns, m, total, b)
    BY <2>1 DEF KnownBehind
  <2>3. Rest(txns, from, total, b) = Minutes(txns, (b + 1)..m)
    BY <2>1, <2>2, RestCounts DEF m
  <2> QED BY <1>8, <2>1, <2>3
<1>10. ASSUME NEW d \in N PROVE d + 1 \in N
  <2> SUFFICES ASSUME NEW b \in 0..m, m <= b + (d + 1)
               PROVE  total[b] = Minutes(txns, (b + 1)..m)
    OBVIOUS
  <2>1. b \in Nat /\ b \in D /\ \A c \in 0..m : b < c => m <= c + d
    BY <1>1, <1>4
  <2>2. KnownBehind(txns, m, total, b)
    BY <2>1 DEF KnownBehind
  <2>3. Rest(txns, from, total, b) = Minutes(txns, (b + 1)..m)
    BY <2>1, <2>2, RestCounts DEF m
  <2> QED BY <1>8, <2>1, <2>3
<1>11. total[0] = Minutes(txns, (0 + 1)..m)
  <2>1. N = Nat
    <3> HIDE DEF N
    <3>1. N \in SUBSET Nat
      BY DEF N
    <3> QED BY <1>9, <1>10, <3>1, NumbersInduction
  <2>2. m \in N
    <3> HIDE DEF N
    <3> QED BY <1>1, <2>1
  <2>3. 0 \in 0..m /\ m <= 0 + m
    BY <1>1
  <2> QED BY <2>2, <2>3
<1>12. 0 + 1 = 1
  OBVIOUS
<1> QED BY <1>3, <1>11, <1>12 DEF m

\* [AirdropService] Reading page by page counts every use since the period began and
\* no other, whatever the size of a page.
THEOREM UsageCounted ==
    (input \in {NoInput} \cup Inputs) /\ [][FALSE]_input => []UsageIsCounted
<1>1. input \in {NoInput} \cup Inputs => UsageIsCounted
  <2> SUFFICES ASSUME input \in {NoInput} \cup Inputs, input.kind = "uses",
                      NEW since \in 0..MaxUses, NEW required \in 0..MaxUses
               PROVE  LET counted == {i \in DOMAIN input.txns : input.txns[i].date >= since
                                                                /\ input.txns[i].used}
                      IN  EnoughUsage(input.txns, since, required) <=>
                              \/ \E i \in counted : input.txns[i].memo = NaN
                              \/ Cardinality(counted) >= required
    BY DEF UsageIsCounted
  <2>1. input \in UseInputs
    <3>1. NoInput.kind = "none"
      BY DEF NoInput
    <3>2. input \in PeriodInputs => input.kind = "periods"
      BY DEF PeriodInputs
    <3>3. input \in ShareInputs => input.kind = "shares"
      BY DEF ShareInputs
    <3> QED BY <3>1, <3>2, <3>3 DEF Inputs
  <2>2. MaxUses \in Nat
    BY InputAssumption
  <2> DEFINE At(n, u) == [i \in 1..n |-> [date |-> n - i, used |-> u[i] # 0, memo |-> u[i]]]
  <2>3. PICK n \in 0..MaxUses :
            input \in {[kind |-> "uses", txns |-> txns] :
                          txns \in {At(n, u) : u \in [1..n -> {NaN, 0, 1}]}}
    BY <2>1 DEF UseInputs
  <2>4. PICK u \in [1..n -> {NaN, 0, 1}] : input.txns = At(n, u)
    <3> HIDE DEF At
    <3> QED BY <2>3
  <2> DEFINE txns == input.txns
             m == Recent(n, since)
             counted == {i \in DOMAIN txns : txns[i].date >= since /\ txns[i].used}
  <2>5. n \in Nat /\ since \in Nat /\ required \in Nat
    BY <2>2
  <2>6. Ordered(txns, n) /\ DOMAIN txns = 1..n
    <3>1. ASSUME NEW i \in 1..n
          PROVE  [date |-> n - i, used |-> u[i] # 0, memo |-> u[i]] \in Use
      <4>1. u[i] \in {NaN, 0, 1} /\ NaN \in Int
        BY DEF NaN
      <4>2. u[i] # 0 => u[i] \in {NaN, 1}
        BY <4>1
      <4>3. n - i \in Int /\ u[i] \in Int
        BY <2>5, <4>1
      <4>4. (u[i] # 0) \in BOOLEAN
        OBVIOUS
      <4>5. [date |-> n - i, used |-> u[i] # 0, memo |-> u[i]]
                \in [date : Int, used : BOOLEAN, memo : Int]
        BY <4>3, <4>4, Zenon
      <4> QED BY <4>2, <4>5 DEF Use
    <3> QED BY <2>4, <3>1 DEF Ordered
  <2> HIDE DEF txns
  <2>7. UsageMinutes(txns, since) = Minutes(txns, 1..m)
    BY <2>5, <2>6, MinutesAreCounted
  <2>8. counted = {i \in 1..m : txns[i].used}
    <3>1. m \in Nat /\ m <= n /\ \A i \in 1..n : n - i >= since <=> i <= m
      BY <2>5 DEF Recent
    <3>2. \A i \in 1..n : txns[i].date = n - i
      BY <2>6 DEF Ordered
    <3> HIDE DEF m
    <3>3. \A i \in 1..n : txns[i].date >= since <=> i <= m
      BY <3>1, <3>2
    <3>4. \A i : i \in 1..m <=> i \in 1..n /\ i <= m
      BY <2>5, <3>1
    <3>5. \A i : i \in counted <=> i \in {j \in 1..m : txns[j].used}
      <4>1. \A i : i \in counted <=> i \in 1..n /\ txns[i].date >= since /\ txns[i].used
        BY <2>6
      <4> HIDE DEF counted
      <4> QED BY <3>3, <3>4, <4>1
    <3> HIDE DEF counted
    <3> QED BY <3>5
  <2>9. IsFiniteSet(1..m)
    <3>1. 1 \in Int /\ m \in Int
      BY <2>5 DEF Recent
    <3> QED BY <3>1, FS_Interval
  <2> HIDE DEF counted, m
  <2>10. /\ Cardinality(counted) \in Nat
         /\ Minutes(txns, 1..m) = NaN <=> \E i \in counted : txns[i].memo = NaN
         /\ ~(\E i \in counted : txns[i].memo = NaN) =>
                Minutes(txns, 1..m) = Cardinality(counted)
    <3>1. /\ Cardinality({i \in 1..m : txns[i].used}) \in Nat
          /\ Minutes(txns, 1..m) = NaN <=> \E i \in 1..m : txns[i].used /\ txns[i].memo = NaN
      BY <2>9, MinutesType
    <3>2. (\E i \in 1..m : txns[i].used /\ txns[i].memo = NaN) <=>
              \E i \in counted : txns[i].memo = NaN
      BY <2>8
    <3>3. ~(\E i \in 1..m : txns[i].used /\ txns[i].memo = NaN) =>
              Minutes(txns, 1..m) = Cardinality(counted)
      BY <2>8 DEF Minutes
    <3> QED BY <2>8, <3>1, <3>2, <3>3
  <2>11. EnoughUsage(txns, since, required) <=>
             ~(Minutes(txns, 1..m) # NaN /\ Minutes(txns, 1..m) < required)
    BY <2>7 DEF EnoughUsage
  <2>12. EnoughUsage(txns, since, required) <=>
             \/ \E i \in counted : txns[i].memo = NaN
             \/ Cardinality(counted) >= required
    <3>1. CASE \E i \in counted : txns[i].memo = NaN
      BY <2>10, <2>11, <3>1
    <3>2. CASE ~\E i \in counted : txns[i].memo = NaN
      <4>1. EnoughUsage(txns, since, required) <=> ~(Cardinality(counted) < required)
        BY <2>10, <2>11, <3>2
      <4>2. ~(Cardinality(counted) < required) <=> Cardinality(counted) >= required
        BY <2>5, <2>10
      <4> QED BY <3>2, <4>1, <4>2
    <3> QED BY <3>1, <3>2
  <2> QED BY <2>12 DEF counted, txns
<1>2. UsageIsCounted /\ [FALSE]_input => UsageIsCounted'
  BY DEF UsageIsCounted
<1> QED BY <1>1, <1>2, PTL

(***************************************************************************)
(* What is only at some places, and rows by date.  Rows left out bring and *)
(* take nothing, so sums over those that stay are sums over all.           *)
(***************************************************************************)

\* Part is s at the places p, which are `places` in order.
IsPart(part, s, places, p, m, n) ==
    /\ Picks(p, m, n)
    /\ Picked(p, m) = places
    /\ part = [j \in 1..m |-> s[p[j]]]

\* One more place is picked.
LEMMA PicksOneMore ==
    ASSUME NEW k \in Nat, NEW places \in SUBSET (1..k),
           NEW s, NEW V, \A i \in 1..(k + 1) : s[i] \in V,
           NEW part, NEW m \in Nat, NEW p, IsPart(part, s, places, p, m, k)
    PROVE  \E q : IsPart(Append(part, s[k + 1]), s, places \cup {k + 1}, q, m + 1, k + 1)
<1> DEFINE q == [j \in 1..(m + 1) |-> IF j = m + 1 THEN k + 1 ELSE p[j]]
<1>1. /\ p \in [1..m -> 1..k] /\ \A i, j \in 1..m : i < j => p[i] < p[j]
      /\ {p[j] : j \in 1..m} = places /\ part = [j \in 1..m |-> s[p[j]]]
  BY DEF IsPart, Picks, Picked
<1>2. /\ q[m + 1] = k + 1
      /\ \A j \in 1..m : q[j] = p[j] /\ q[j] \in 1..k
  BY <1>1
<1>3. 1..(m + 1) = (1..m) \cup {m + 1}
  OBVIOUS
<1>4. Picks(q, m + 1, k + 1)
  <2>1. q \in [1..(m + 1) -> 1..(k + 1)]
    <3>1. \A j \in 1..(m + 1) : q[j] \in 1..(k + 1)
      <4> HIDE DEF q
      <4> QED BY <1>2, <1>3
    <3> QED BY <3>1
  <2>2. ASSUME NEW i \in 1..(m + 1), NEW j \in 1..(m + 1), i < j PROVE q[i] < q[j]
    <3>1. i \in 1..m /\ (j \in 1..m \/ j = m + 1)
      BY <2>2
    <3> HIDE DEF q
    <3>2. CASE j \in 1..m
      BY <1>1, <1>2, <2>2, <3>1, <3>2
    <3>3. CASE j = m + 1
      BY <1>2, <3>1, <3>3
    <3> QED BY <3>1, <3>2, <3>3
  <2> HIDE DEF q
  <2> QED BY <2>1, <2>2 DEF Picks
<1>5. {q[j] : j \in 1..(m + 1)} = places \cup {k + 1}
  <2>1. {q[j] : j \in 1..m} = places
    <3> HIDE DEF q
    <3> QED BY <1>1, <1>2
  <2> HIDE DEF q
  <2> QED BY <1>2, <1>3, <2>1
<1>6. Append(part, s[k + 1]) = [j \in 1..(m + 1) |-> s[q[j]]]
  <2>1. part \in Seq(V) /\ Len(part) = m
    <3>1. \A j \in 1..m : s[p[j]] \in V
      BY <1>1
    <3>2. part \in [1..m -> V]
      BY <1>1, <3>1
    <3> QED BY <3>2
  <2>2. s[k + 1] \in V
    OBVIOUS
  <2> DEFINE a == Append(part, s[k + 1])
  <2>3. /\ a \in Seq(V) /\ Len(a) = m + 1 /\ a[m + 1] = s[k + 1]
        /\ \A j \in 1..m : a[j] = part[j]
    BY <2>1, <2>2, AppendProperties
  <2>4. a = [j \in 1..(m + 1) |-> a[j]]
    BY <2>3
  <2>5. \A j \in 1..(m + 1) : a[j] = s[q[j]]
    <3>1. \A j \in 1..m : a[j] = s[q[j]]
      <4> HIDE DEF q, a
      <4> QED BY <1>1, <1>2, <2>3
    <3> HIDE DEF q, a
    <3> QED BY <1>2, <1>3, <2>3, <3>1
  <2> HIDE DEF q, a
  <2>6. [j \in 1..(m + 1) |-> a[j]] = [j \in 1..(m + 1) |-> s[q[j]]]
    BY <2>5
  <2> QED BY <2>4, <2>6 DEF a
<1> HIDE DEF q
<1> QED BY <1>4, <1>5, <1>6 DEF IsPart, Picked

\* OnlyAt is the part of s at the places.
LEMMA OnlyAtIsPart ==
    ASSUME NEW n \in Nat, NEW W, NEW s \in [1..n -> W], NEW places \in SUBSET (1..n)
    PROVE  \E m \in Nat : \E p : IsPart(OnlyAt(s, places), s, places, p, m, n)
<1> DEFINE V == Seq(W)
           all == [i \in DOMAIN s |-> i]
           Keep(kept, i) == IF i \in places THEN Append(kept, s[i]) ELSE kept
           G == [x \in (1..n) \X V |-> Keep(x[2], x[1])]
           Is(h) == h = [S \in SUBSET DOMAIN all |->
                            IF S = {} THEN <<>> ELSE Keep(h[S \ {Top(S)}], all[Top(S)])]
           it == CHOOSE h : Is(h)
<1>1. DOMAIN s = 1..n /\ DOMAIN all = 1..n /\ \A i \in 1..n : s[i] \in W /\ all[i] = i
  OBVIOUS
<1>2. OnlyAt(s, places) = it[DOMAIN all]
  BY DEF OnlyAt, FoldLeft, MapThenFoldSet, Max, Top
<1> HIDE DEF all
<1>a. /\ \A h, i : i \in places => Keep(h, i) = Append(h, s[i])
      /\ \A h, i : i \notin places => Keep(h, i) = h
  OBVIOUS
<1>3. G \in [(1..n) \X V -> V] /\ <<>> \in V
  <2>1. ASSUME NEW h \in V, NEW i \in 1..n PROVE Keep(h, i) \in V
    BY <1>1
  <2> HIDE DEF V, Keep
  <2>2. G \in [(1..n) \X V -> V]
    BY <2>1
  <2> QED BY <2>2 DEF V
<1> HIDE DEF V, Keep
<1>4. PICK g \in [SUBSET (1..n) -> V] : IsFold(G, <<>>, g, n)
  <2> HIDE DEF G
  <2> QED BY <1>3, FoldExists
<1>5. ASSUME NEW h, NEW S \in SUBSET (1..n), S # {}, h[S \ {Top(S)}] \in V
      PROVE  /\ Top(S) \in 1..n
             /\ G[<<Top(S), h[S \ {Top(S)}]>>] = Keep(h[S \ {Top(S)}], all[Top(S)])
  <2>1. Top(S) \in 1..n
    BY <1>5, LastPlace
  <2>2. <<Top(S), h[S \ {Top(S)}]>> \in (1..n) \X V
    BY <1>5, <2>1
  <2> QED BY <1>1, <2>1, <2>2
<1>6. Is(g)
  <2>1. ASSUME NEW S \in SUBSET (1..n), S # {}
        PROVE  G[<<Top(S), g[S \ {Top(S)}]>>] = Keep(g[S \ {Top(S)}], all[Top(S)])
    <3>1. g[S \ {Top(S)}] \in V
      OBVIOUS
    <3> QED BY <1>5, <2>1, <3>1
  <2> HIDE DEF G
  <2> QED BY <1>1, <1>4, <2>1 DEF IsFold, Turn
<1>7. Is(it)
  <2> HIDE DEF Is
  <2> QED BY <1>6
<1>8. TakesTurns(V, G, <<>>, it, n)
  <2>1. it[{}] = <<>>
    BY <1>7
  <2>2. ASSUME NEW S \in SUBSET (1..n), S # {}, it[S \ {Top(S)}] \in V
        PROVE  it[S] = G[<<Top(S), it[S \ {Top(S)}]>>]
    <3>1. it[S] = Keep(it[S \ {Top(S)}], all[Top(S)])
      <4> HIDE DEF it
      <4> QED BY <1>1, <1>7, <2>2
    <3> HIDE DEF it, G
    <3> QED BY <1>5, <2>2, <3>1
  <2> HIDE DEF it, G
  <2>3. FoldsIn(V, G, <<>>, it, n)
    BY <2>1, <2>2 DEF FoldsIn
  <2> QED BY <1>3, <2>3, FoldTurns
<1> HIDE DEF it, Is
<1> DEFINE Of(k) == \E m \in Nat : \E p : IsPart(it[1..k], s, places \cap (1..k), p, m, k)
           N == {k \in Nat : k <= n => Of(k)}
<1>10. 0 \in N
  <2> DEFINE p == [j \in 1..0 |-> j]
  <2>1. 1..0 = {} /\ it[1..0] = <<>>
    BY <1>1, <1>8 DEF TakesTurns
  <2>2. Picks(p, 0, 0)
    BY <2>1 DEF Picks
  <2>3. {p[j] : j \in 1..0} = places \cap (1..0)
    BY <2>1
  <2>4. it[1..0] = [j \in 1..0 |-> s[p[j]]]
    BY <2>1
  <2> HIDE DEF p
  <2>5. IsPart(it[1..0], s, places \cap (1..0), p, 0, 0)
    BY <2>2, <2>3, <2>4 DEF IsPart, Picked
  <2> QED BY <2>5
<1>11. ASSUME NEW k \in N PROVE k + 1 \in N
  <2> HIDE DEF Of
  <2> SUFFICES ASSUME k + 1 <= n PROVE Of(k + 1)
    OBVIOUS
  <2> USE DEF Of
  <2>1. k \in Nat /\ k \in 0..(n - 1) /\ k \in 0..n /\ k + 1 \in 1..n /\ k <= n
    OBVIOUS
  <2>2a. PICK m \in Nat : \E p : IsPart(it[1..k], s, places \cap (1..k), p, m, k)
    BY <2>1
  <2>2. PICK p : IsPart(it[1..k], s, places \cap (1..k), p, m, k)
    BY <2>2a
  <2>3. it[1..(k + 1)] = Keep(it[1..k], k + 1)
    <3>1. it[1..k] \in V
      BY <1>8, <2>1 DEF TakesTurns
    <3>2. G[<<k + 1, it[1..k]>>] = Keep(it[1..k], k + 1)
      <4>1. <<k + 1, it[1..k]>> \in (1..n) \X V
        BY <2>1, <3>1
      <4> QED BY <4>1
    <3> HIDE DEF G
    <3> QED BY <1>8, <2>1, <3>2 DEF TakesTurns
  <2>4. CASE k + 1 \in places
    <3>1. it[1..(k + 1)] = Append(it[1..k], s[k + 1])
      BY <1>a, <2>3, <2>4
    <3>2. (places \cap (1..k)) \cup {k + 1} = places \cap (1..(k + 1))
      BY <2>1, <2>4
    <3>3. places \cap (1..k) \in SUBSET (1..k) /\ \A i \in 1..(k + 1) : s[i] \in W
      BY <1>1, <2>1
    <3>4. \E q : IsPart(Append(it[1..k], s[k + 1]), s, (places \cap (1..k)) \cup {k + 1},
                        q, m + 1, k + 1)
      <4> HIDE DEF G, N
      <4> QED BY <2>1, <2>2, <3>3, PicksOneMore
    <3>5. m + 1 \in Nat
      OBVIOUS
    <3> HIDE DEF G, N
    <3> QED BY <3>1, <3>2, <3>4, <3>5
  <2>5. CASE k + 1 \notin places
    <3>1. it[1..(k + 1)] = it[1..k]
      BY <1>a, <2>3, <2>5
    <3>2. places \cap (1..k) = places \cap (1..(k + 1))
      BY <2>1, <2>5
    <3>3. Picks(p, m, k + 1)
      <4>1. Picks(p, m, k)
        BY <2>2 DEF IsPart
      <4>2. 1..k \subseteq 1..(k + 1)
        BY <2>1
      <4> HIDE DEF N
      <4> QED BY <4>1, <4>2 DEF Picks
    <3>4. IsPart(it[1..(k + 1)], s, places \cap (1..(k + 1)), p, m, k + 1)
      BY <2>2, <3>1, <3>2, <3>3 DEF IsPart
    <3> QED BY <3>4
  <2> QED BY <2>4, <2>5
<1>12. Of(n)
  <2> HIDE DEF Of
  <2>1. N = Nat
    <3> HIDE DEF N
    <3>1. N \in SUBSET Nat
      BY DEF N
    <3> QED BY <1>10, <1>11, <3>1, NumbersInduction
  <2> QED BY <2>1
<1>13. places \cap (1..n) = places
  OBVIOUS
<1> QED BY <1>1, <1>2, <1>12, <1>13

\* Rows of earlier periods, then those of this one, the newest first.
OldThenNew(rows, a, m) ==
    /\ DOMAIN rows = 1..(a + m)
    /\ \A i \in 1..(a + m) : rows[i].date \in Int
    /\ \A i, j \in 1..(a + m) : i < j /\ i <= a => rows[i].date < rows[j].date
    /\ \A i, j \in 1..(a + m) : i < j /\ a < i => rows[j].date < rows[i].date

\* Where the row that belongs at place l is.
Chronological(l, a, m) == IF l <= a THEN l ELSE 2 * a + m + 1 - l

\* The sort leaves the old rows in their places and reverses the others.
LEMMA Sorts ==
    ASSUME NEW a \in Nat, NEW m \in Nat, NEW rows, OldThenNew(rows, a, m)
    PROVE  SortByDate(rows) = [l \in 1..(a + m) |-> rows[Chronological(l, a, m)]]
<1> DEFINE S == 1..(a + m)
           d(i) == rows[i].date
           Upto(i) == {j \in DOMAIN rows : \/ rows[j].date < rows[i].date
                                           \/ rows[j].date = rows[i].date /\ j <= i}
           Place(i) == Cardinality(Upto(i))
           c(l) == Chronological(l, a, m)
<1>0. SortByDate(rows) = [l \in DOMAIN rows |-> rows[CHOOSE i \in DOMAIN rows : Place(i) = l]]
  BY DEF SortByDate
<1>1. /\ DOMAIN rows = S
      /\ \A i \in S : d(i) \in Int
      /\ \A i, j \in S : i < j /\ i <= a => d(i) < d(j)
      /\ \A i, j \in S : i < j /\ a < i => d(j) < d(i)
      /\ \A i \in S : i \in Nat
  BY DEF OldThenNew
<1>2. ASSUME NEW i \in S, i <= a PROVE Place(i) = i
  <2>1. \A j \in S : (d(j) < d(i) \/ (d(j) = d(i) /\ j <= i)) <=> j <= i
    <3> SUFFICES ASSUME NEW j \in S
                 PROVE  (d(j) < d(i) \/ (d(j) = d(i) /\ j <= i)) <=> j <= i
      OBVIOUS
    <3>1. d(i) \in Int /\ d(j) \in Int /\ i \in Nat /\ j \in Nat
      BY <1>1
    <3>2. (i < j => d(i) < d(j)) /\ (j < i => d(j) < d(i))
      BY <1>1, <1>2, <3>1
    <3> HIDE DEF d
    <3>3. i < j \/ j < i \/ i = j
      BY <3>1
    <3> QED BY <3>1, <3>2, <3>3
  <2>2. Upto(i) = 1..i
    <3>1. Upto(i) = {j \in S : j <= i}
      BY <1>1, <2>1
    <3>2. {j \in S : j <= i} = 1..i
      BY <1>2
    <3> QED BY <3>1, <3>2
  <2>3. Cardinality(1..i) = i
    <3>1. 1 \in Int /\ i \in Int /\ 1 <= i
      BY <1>2
    <3>2. Cardinality(1..i) = IF 1 > i THEN 0 ELSE i - 1 + 1
      BY <3>1, FS_Interval
    <3> QED BY <3>1, <3>2
  <2> QED BY <2>2, <2>3
<1>3. ASSUME NEW i \in S, a < i PROVE Place(i) = 2 * a + m + 1 - i
  <2>1. \A j \in S : (d(j) < d(i) \/ (d(j) = d(i) /\ j <= i)) <=> j <= a \/ i <= j
    <3> SUFFICES ASSUME NEW j \in S
                 PROVE  (d(j) < d(i) \/ (d(j) = d(i) /\ j <= i)) <=> j <= a \/ i <= j
      OBVIOUS
    <3>1. d(i) \in Int /\ d(j) \in Int /\ i \in Nat /\ j \in Nat
      BY <1>1
    <3>2. /\ i < j => d(j) < d(i)
          /\ j < i /\ j <= a => d(j) < d(i)
          /\ j < i /\ a < j => d(i) < d(j)
      BY <1>1, <1>3, <3>1
    <3> HIDE DEF d
    <3>3. i < j \/ j < i \/ i = j
      BY <3>1
    <3>4. j <= a \/ a < j
      BY <3>1
    <3> QED BY <1>3, <3>1, <3>2, <3>3, <3>4
  <2>2. Upto(i) = (1..a) \cup (i..(a + m))
    <3>1. Upto(i) = {j \in S : j <= a \/ i <= j}
      BY <1>1, <2>1
    <3>2. {j \in S : j <= a \/ i <= j} = (1..a) \cup (i..(a + m))
      BY <1>3
    <3> QED BY <3>1, <3>2
  <2>3. /\ IsFiniteSet(1..a) /\ Cardinality(1..a) = a
        /\ IsFiniteSet(i..(a + m)) /\ Cardinality(i..(a + m)) = a + m - i + 1
    <3>1. 1 \in Int /\ i \in Int /\ a \in Int /\ a + m \in Int /\ i <= a + m
      OBVIOUS
    <3>2. /\ IsFiniteSet(1..a) /\ Cardinality(1..a) = IF 1 > a THEN 0 ELSE a - 1 + 1
          /\ IsFiniteSet(i..(a + m))
          /\ Cardinality(i..(a + m)) = IF i > a + m THEN 0 ELSE a + m - i + 1
      BY <3>1, FS_Interval
    <3> QED BY <3>1, <3>2
  <2>4. (1..a) \cap (i..(a + m)) = {}
    BY <1>3
  <2>5. Cardinality((1..a) \cup (i..(a + m))) = a + (a + m - i + 1) - 0
    <3> DEFINE A == 1..a
               B == i..(a + m)
    <3>1. /\ IsFiniteSet(A) /\ Cardinality(A) = a /\ IsFiniteSet(B)
          /\ Cardinality(B) = a + m - i + 1 /\ A \cap B = {}
      BY <2>3, <2>4
    <3>2. Cardinality({}) = 0
      BY FS_EmptySet
    <3> HIDE DEF A, B
    <3>3. Cardinality(A \cup B) = Cardinality(A) + Cardinality(B) - Cardinality(A \cap B)
      BY <3>1, FS_Union
    <3>4. Cardinality(A \cup B) = a + (a + m - i + 1) - 0
      BY <3>1, <3>2, <3>3
    <3> QED BY <3>4 DEF A, B
  <2>6. a + (a + m - i + 1) - 0 = 2 * a + m + 1 - i
    BY <1>3
  <2> HIDE DEF Upto
  <2> QED BY <2>2, <2>5, <2>6
<1>4. ASSUME NEW l \in S
      PROVE  /\ c(l) \in S /\ Place(c(l)) = l
             /\ \A i \in S : Place(i) = l => i = c(l)
  <2> HIDE DEF Place
  <2>1. c(l) \in S /\ (c(l) <= a <=> l <= a)
    BY DEF Chronological
  <2>2. c(l) = (IF l <= a THEN l ELSE 2 * a + m + 1 - l)
    BY DEF Chronological
  <2> HIDE DEF c
  <2>3. Place(c(l)) = l
    <3>1. CASE l <= a
      BY <1>2, <2>1, <2>2, <3>1
    <3>2. CASE ~(l <= a)
      <4>1. a < c(l) /\ c(l) = 2 * a + m + 1 - l
        BY <2>1, <2>2, <3>2
      <4>2. Place(c(l)) = 2 * a + m + 1 - c(l)
        BY <1>3, <2>1, <4>1
      <4> QED BY <4>1, <4>2
    <3> QED BY <3>1, <3>2
  <2>4. ASSUME NEW i \in S, Place(i) = l PROVE i = c(l)
    <3>1. CASE i <= a
      BY <1>2, <2>2, <2>4, <3>1
    <3>2. CASE ~(i <= a)
      <4>1. a < i
        BY <3>2
      <4>2. l = 2 * a + m + 1 - i
        BY <1>3, <2>4, <4>1
      <4> QED BY <2>2, <4>1, <4>2
    <3> QED BY <3>1, <3>2
  <2> QED BY <2>1, <2>3, <2>4
<1>5. ASSUME NEW l \in S PROVE (CHOOSE i \in S : Place(i) = l) = c(l)
  <2> HIDE DEF Place, c
  <2>1. c(l) \in S /\ Place(c(l)) = l /\ \A i \in S : Place(i) = l => i = c(l)
    BY <1>4
  <2>2. /\ (CHOOSE i \in S : Place(i) = l) \in S
        /\ Place(CHOOSE i \in S : Place(i) = l) = l
    BY <2>1
  <2> QED BY <2>1, <2>2
<1>6. \A l \in S : rows[CHOOSE i \in S : Place(i) = l] = rows[c(l)]
  <2> HIDE DEF Place, c
  <2> QED BY <1>5
<1> HIDE DEF Place
<1> QED BY <1>0, <1>1, <1>6

(***************************************************************************)
(* How debits use up credits.  While debit i goes through the rows of a    *)
(* wallet that never sends more than it has, the first debits have used up *)
(* what came first: what is left of a row is a matter of what came in up to *)
(* it and what went out so far, and the amounts at every turn of the two   *)
(* loops are written down so.                                              *)
(***************************************************************************)

\* What a row is about.
RowType == {"CREDIT", "DEBIT", "UNKNOWN"}

\* The rows there can be.
AnyRow == [type : RowType, amount : Nat, date : Int, days : Int, balance : Int]

\* What every row brings, and what it takes.
Credits(S) == [i \in DOMAIN S |-> IF S[i].type = "CREDIT" THEN S[i].amount ELSE 0]
Debits(S) == [i \in DOMAIN S |-> IF S[i].type = "DEBIT" THEN S[i].amount ELSE 0]

\* What came in and went out by the first l rows.
Came(S, l) == SumFunctionOnSet(Credits(S), 1..l)
Went(S, l) == SumFunctionOnSet(Debits(S), 1..l)

\* What is left of a credit with which `came` have come, when `went` have gone.
Remains(came, credit, went) ==
    IF came < went THEN 0 ELSE IF came - went > credit THEN credit ELSE came - went

\* Rows that keep everything but their amounts, which are given.
WithAmounts(S, a) == [j \in DOMAIN S |-> [S[j] EXCEPT !.amount = a[j]]]

\* Rows by date, of a wallet that never sends more than it has.
Solvent(S, m) ==
    /\ S \in [1..m -> AnyRow]
    /\ \A i, j \in 1..m : i < j => S[i].date < S[j].date
    /\ \A l \in 1..m : Went(S, l) <= Came(S, l)

\* The amount of row i when the first l debits have used up credits.
AmountAfter(S, l, i) ==
    IF S[i].type = "CREDIT" THEN Remains(Came(S, i), S[i].amount, Went(S, l))
    ELSE IF S[i].type = "DEBIT" /\ i <= l THEN 0 ELSE S[i].amount

\* The rows when the first l debits have used up credits.
After(S, l) == WithAmounts(S, [i \in DOMAIN S |-> AmountAfter(S, l, i)])

\* The smaller of two numbers.
Least(a, b) == IF a <= b THEN a ELSE b

\* What debit i has used up of the first k rows.
Used(S, i, k) ==
    LET came == Came(S, Least(k, i - 1))
    IN  Least(came, Went(S, i)) - Least(came, Went(S, i - 1))

\* The amount of row j when debit i has come to row k.
AmountDuring(S, i, k, j) ==
    IF j = i THEN S[i].amount - Used(S, i, k)
    ELSE IF S[j].type = "CREDIT"
         THEN Remains(Came(S, j), S[j].amount, Went(S, IF j <= k /\ j < i THEN i ELSE i - 1))
    ELSE IF S[j].type = "DEBIT" /\ j <= i THEN 0 ELSE S[j].amount

\* The rows when debit i has come to row k.
During(S, i, k) == WithAmounts(S, [j \in DOMAIN S |-> AmountDuring(S, i, k, j)])

\* What came in and went out begins with nothing and grows row by row.
LEMMA BooksGrow ==
    ASSUME NEW m \in Nat, NEW S \in [1..m -> AnyRow]
    PROVE  /\ Came(S, 0) = 0 /\ Went(S, 0) = 0
           /\ \A l \in 0..m : Came(S, l) \in Nat /\ Went(S, l) \in Nat
           /\ \A l \in 0..(m - 1) : /\ Came(S, l + 1) = Came(S, l) + Credits(S)[l + 1]
                                    /\ Went(S, l + 1) = Went(S, l) + Debits(S)[l + 1]
           /\ \A k, l \in 0..m : k <= l => Came(S, k) <= Came(S, l) /\ Went(S, k) <= Went(S, l)
<1>1. \A i \in 1..m : Credits(S)[i] \in Nat /\ Debits(S)[i] \in Nat
  <2> SUFFICES ASSUME NEW i \in 1..m PROVE Credits(S)[i] \in Nat /\ Debits(S)[i] \in Nat
    OBVIOUS
  <2>1. S[i].amount \in Nat /\ i \in DOMAIN S
    BY DEF AnyRow
  <2> QED BY <2>1 DEF Credits, Debits
<1>2. Came(S, 0) = 0 /\ Went(S, 0) = 0
  <2>1. 1..0 = {}
    OBVIOUS
  <2> QED BY <2>1, SumOfNone DEF Came, Went
<1>3. ASSUME NEW l \in 0..m PROVE Came(S, l) \in Nat /\ Went(S, l) \in Nat /\ IsFiniteSet(1..l)
  <2>1. IsFiniteSet(1..l)
    <3>1. 1 \in Int /\ l \in Int
      OBVIOUS
    <3> QED BY <3>1, FS_Interval
  <2>2. \A i \in 1..l : Credits(S)[i] \in Nat /\ Debits(S)[i] \in Nat
    BY <1>1
  <2> QED BY <2>1, <2>2, SumIsNat DEF Came, Went
<1>4. ASSUME NEW l \in 0..(m - 1)
      PROVE  /\ Came(S, l + 1) = Came(S, l) + Credits(S)[l + 1]
             /\ Went(S, l + 1) = Went(S, l) + Debits(S)[l + 1]
  <2>1. l \in Nat /\ \A i \in 1..(l + 1) : Credits(S)[i] \in Int /\ Debits(S)[i] \in Int
    BY <1>1
  <2> QED BY <2>1, SumNext DEF Came, Went
<1>5. ASSUME NEW k \in 0..m, NEW l \in 0..m, k <= l
      PROVE  Came(S, k) <= Came(S, l) /\ Went(S, k) <= Went(S, l)
  <2>1. 1..k \in SUBSET (1..l) /\ IsFiniteSet(1..l)
    BY <1>3, <1>5
  <2> DEFINE f == Credits(S)
             g == Debits(S)
  <2>2. \A i \in 1..l : f[i] \in Nat /\ g[i] \in Nat /\ f[i] <= f[i] /\ g[i] <= g[i]
    <3>1. \A i \in 1..l : f[i] \in Nat /\ g[i] \in Nat
      BY <1>1
    <3> HIDE DEF f, g
    <3> QED BY <3>1
  <2> HIDE DEF f, g
  <2>3. SumFunctionOnSet(f, 1..k) <= SumFunctionOnSet(f, 1..l)
    <3>1. \A i \in 1..k : f[i] \in Nat /\ f[i] <= f[i]
      BY <2>1, <2>2
    <3> QED BY <2>1, <2>2, <3>1, SumGrows
  <2>4. SumFunctionOnSet(g, 1..k) <= SumFunctionOnSet(g, 1..l)
    <3>1. \A i \in 1..k : g[i] \in Nat /\ g[i] <= g[i]
      BY <2>1, <2>2
    <3> QED BY <2>1, <2>2, <3>1, SumGrows
  <2> QED BY <2>3, <2>4 DEF Came, Went, f, g
<1> QED BY <1>2, <1>3, <1>4, <1>5

\* A debit of d, of which what the rows before could give is used up, uses up what
\* it can of the next credit.
LEMMA UsesUpOne ==
    ASSUME NEW before \in Nat, NEW c \in Nat, NEW went \in Nat, NEW d \in Nat,
           NEW came, came = before + c,
           NEW debit, debit = d - (Least(before, went + d) - Least(before, went)),
           NEW credit, credit = Remains(came, c, went)
    PROVE  /\ debit - Least(debit, credit) = d - (Least(came, went + d) - Least(came, went))
           /\ credit - Least(debit, credit) = Remains(came, c, went + d)
  BY DEF Least, Remains

\* The amounts of two rows change by the same.
UsedUp(rows, i, j) == Least(rows[i].amount, rows[j].amount)

\* UsesUp takes what two rows have in common off both, or changes nothing.
LEMMA UsesUpIs ==
    ASSUME NEW m \in Nat, NEW rows \in [1..m -> AnyRow], NEW i \in 1..m, NEW j \in 1..m
    PROVE  /\ UsesUp(rows, i, j) \in [1..m -> AnyRow]
           /\ IF /\ rows[i].type = "DEBIT" /\ rows[j].type = "CREDIT"
                 /\ rows[j].date < rows[i].date
              THEN /\ UsesUp(rows, i, j)[i] = [rows[i] EXCEPT !.amount = @ - UsedUp(rows, i, j)]
                   /\ UsesUp(rows, i, j)[j] = [rows[j] EXCEPT !.amount = @ - UsedUp(rows, i, j)]
                   /\ \A k \in 1..m : k # i /\ k # j => UsesUp(rows, i, j)[k] = rows[k]
              ELSE UsesUp(rows, i, j) = rows
<1> DEFINE u == UsedUp(rows, i, j)
           used == IF rows[i].amount <= rows[j].amount THEN rows[i].amount ELSE rows[j].amount
           Applies == /\ rows[i].type = "DEBIT" /\ rows[j].type = "CREDIT"
                      /\ rows[j].date < rows[i].date
<1>1. /\ rows[i] \in AnyRow /\ rows[j] \in AnyRow
      /\ \A k \in 1..m : rows[k] \in AnyRow
  OBVIOUS
<1>2. used = u
  BY DEF UsedUp, Least
<1>3. UsesUp(rows, i, j)
      = IF Applies THEN [rows EXCEPT ![i].amount = @ - used, ![j].amount = @ - used]
                           ELSE rows
  BY DEF UsesUp
<1>4. CASE Applies
  <2>1. i # j
    BY <1>4
  <2>2. /\ rows[i].amount \in Nat /\ rows[j].amount \in Nat
        /\ rows[i].amount - u \in Nat /\ rows[j].amount - u \in Nat
    <3>1. rows[i].amount \in Nat /\ rows[j].amount \in Nat
      BY <1>1 DEF AnyRow
    <3> QED BY <3>1 DEF UsedUp, Least
  <2> DEFINE x == [rows[i] EXCEPT !.amount = @ - u]
             y == [rows[j] EXCEPT !.amount = @ - u]
  <2>3. UsesUp(rows, i, j) = [rows EXCEPT ![i] = x, ![j] = y]
    <3> HIDE DEF used, u
    <3>1. UsesUp(rows, i, j) = [rows EXCEPT ![i].amount = @ - u, ![j].amount = @ - u]
      BY <1>2, <1>3, <1>4
    <3>2. [rows EXCEPT ![i].amount = @ - u, ![j].amount = @ - u] = [rows EXCEPT ![i] = x, ![j] = y]
      BY <2>1
    <3> QED BY <3>1, <3>2
  <2>4. x \in AnyRow /\ y \in AnyRow
    <3> HIDE DEF u
    <3> QED BY <1>1, <2>2 DEF AnyRow
  <2> HIDE DEF x, y, u, used, Applies
  <2>5. /\ UsesUp(rows, i, j) \in [1..m -> AnyRow]
        /\ UsesUp(rows, i, j)[i] = x /\ UsesUp(rows, i, j)[j] = y
        /\ \A k \in 1..m : k # i /\ k # j => UsesUp(rows, i, j)[k] = rows[k]
    BY <2>1, <2>3, <2>4
  <2> QED BY <1>4, <2>5 DEF x, y, u, Applies
<1>5. CASE ~Applies
  <2>1. UsesUp(rows, i, j) = rows
    <3> HIDE DEF used
    <3> QED BY <1>3, <1>5
  <2> QED BY <1>5, <2>1
<1> QED BY <1>4, <1>5

\* Rows with other amounts are rows.
LEMMA WithAmountsTyped ==
    ASSUME NEW m \in Nat, NEW S \in [1..m -> AnyRow], NEW a, \A j \in 1..m : a[j] \in Nat
    PROVE  /\ WithAmounts(S, a) \in [1..m -> AnyRow]
           /\ \A j \in 1..m : /\ WithAmounts(S, a)[j] = [S[j] EXCEPT !.amount = a[j]]
                              /\ WithAmounts(S, a)[j].amount = a[j]
                              /\ WithAmounts(S, a)[j].type = S[j].type
                              /\ WithAmounts(S, a)[j].date = S[j].date
                              /\ WithAmounts(S, a)[j].days = S[j].days
                              /\ WithAmounts(S, a)[j].balance = S[j].balance
<1>1. \A j \in 1..m : WithAmounts(S, a)[j] = [S[j] EXCEPT !.amount = a[j]]
  BY DEF WithAmounts
<1>2. ASSUME NEW j \in 1..m
      PROVE  /\ [S[j] EXCEPT !.amount = a[j]] \in AnyRow
             /\ [S[j] EXCEPT !.amount = a[j]].amount = a[j]
             /\ [S[j] EXCEPT !.amount = a[j]].type = S[j].type
             /\ [S[j] EXCEPT !.amount = a[j]].date = S[j].date
             /\ [S[j] EXCEPT !.amount = a[j]].days = S[j].days
             /\ [S[j] EXCEPT !.amount = a[j]].balance = S[j].balance
  <2>1. S[j] \in AnyRow /\ a[j] \in Nat
    OBVIOUS
  <2> QED BY <2>1 DEF AnyRow
<1>3. WithAmounts(S, a) \in [1..m -> AnyRow]
  BY <1>1, <1>2 DEF WithAmounts
<1> QED BY <1>1, <1>2, <1>3

\* What a turn does to the amounts: if row i is a debit and row k a credit before
\* it, both lose what they have in common.
AmountsTurn(S, i, k, a, b) ==
    IF S[i].type = "DEBIT" /\ S[k].type = "CREDIT" /\ S[k].date < S[i].date
    THEN /\ b[i] = a[i] - Least(a[i], a[k]) /\ b[k] = a[k] - Least(a[i], a[k])
         /\ \A j \in DOMAIN S : j # i /\ j # k => b[j] = a[j]
    ELSE \A j \in DOMAIN S : b[j] = a[j]

\* Rows whose amounts change like those of a turn are the rows of the turn.
LEMMA TurnIs ==
    ASSUME NEW m \in Nat, NEW S \in [1..m -> AnyRow], NEW i \in 1..m, NEW k \in 1..m,
           NEW a, \A j \in 1..m : a[j] \in Nat, NEW b, \A j \in 1..m : b[j] \in Nat,
           AmountsTurn(S, i, k, a, b)
    PROVE  UsesUp(WithAmounts(S, a), i, k) = WithAmounts(S, b)
<1> DEFINE A == WithAmounts(S, a)
           B == WithAmounts(S, b)
           U == UsesUp(A, i, k)
<1>1. /\ A \in [1..m -> AnyRow] /\ B \in [1..m -> AnyRow]
      /\ \A j \in 1..m : /\ A[j] = [S[j] EXCEPT !.amount = a[j]] /\ A[j].amount = a[j]
                         /\ A[j].type = S[j].type /\ A[j].date = S[j].date
                         /\ B[j] = [S[j] EXCEPT !.amount = b[j]]
  <2>1. /\ A \in [1..m -> AnyRow]
        /\ \A j \in 1..m : /\ A[j] = [S[j] EXCEPT !.amount = a[j]] /\ A[j].amount = a[j]
                           /\ A[j].type = S[j].type /\ A[j].date = S[j].date
    <3>1. A \in [1..m -> AnyRow] /\ \A j \in 1..m : A[j] = [S[j] EXCEPT !.amount = a[j]]
      BY WithAmountsTyped
    <3>2. ASSUME NEW j \in 1..m
          PROVE  A[j].amount = a[j] /\ A[j].type = S[j].type /\ A[j].date = S[j].date
      <4>1. S[j] \in AnyRow /\ A[j] = [S[j] EXCEPT !.amount = a[j]]
        BY <3>1
      <4> HIDE DEF A
      <4> QED BY <4>1 DEF AnyRow
    <3> HIDE DEF A
    <3> QED BY <3>1, <3>2
  <2>2. /\ B \in [1..m -> AnyRow]
        /\ \A j \in 1..m : B[j] = [S[j] EXCEPT !.amount = b[j]]
    BY WithAmountsTyped
  <2> HIDE DEF A, B
  <2> QED BY <2>1, <2>2
<1>2. CASE S[i].type = "DEBIT" /\ S[k].type = "CREDIT" /\ S[k].date < S[i].date
  <2>1. /\ U \in [1..m -> AnyRow]
        /\ U[i] = [A[i] EXCEPT !.amount = @ - UsedUp(A, i, k)]
        /\ U[k] = [A[k] EXCEPT !.amount = @ - UsedUp(A, i, k)]
        /\ \A j \in 1..m : j # i /\ j # k => U[j] = A[j]
    <3>1. A[i].type = "DEBIT" /\ A[k].type = "CREDIT" /\ A[k].date < A[i].date
      BY <1>1, <1>2
    <3> HIDE DEF A
    <3> QED BY <1>1, <3>1, UsesUpIs
  <2>2. UsedUp(A, i, k) = Least(a[i], a[k])
    BY <1>1 DEF UsedUp
  <2>3. b[i] = a[i] - Least(a[i], a[k]) /\ b[k] = a[k] - Least(a[i], a[k])
        /\ \A j \in 1..m : j # i /\ j # k => b[j] = a[j]
    BY <1>2 DEF AmountsTurn
  <2>4. ASSUME NEW j \in {i, k} PROVE U[j] = B[j]
    <3>1. U[j] = [A[j] EXCEPT !.amount = A[j].amount - UsedUp(A, i, k)]
      <4> HIDE DEF U, A
      <4> QED BY <2>1
    <3>2. A[j].amount - UsedUp(A, i, k) = b[j]
      <4> HIDE DEF A
      <4> QED BY <1>1, <2>2, <2>3
    <3>3. [A[j] EXCEPT !.amount = b[j]] = [S[j] EXCEPT !.amount = b[j]]
      <4>1. S[j] \in AnyRow /\ A[j] = [S[j] EXCEPT !.amount = a[j]]
        BY <1>1
      <4> HIDE DEF A
      <4> QED BY <4>1 DEF AnyRow
    <3> HIDE DEF U, A, B
    <3> QED BY <1>1, <3>1, <3>2, <3>3
  <2>5. ASSUME NEW j \in 1..m PROVE U[j] = B[j]
    <3>1. CASE j \in {i, k}
      <4> HIDE DEF U, B
      <4> QED BY <2>4, <3>1
    <3>2. CASE j \notin {i, k}
      <4>1. j # i /\ j # k
        BY <3>2
      <4>2. U[j] = A[j] /\ b[j] = a[j]
        <5> HIDE DEF U, A
        <5> QED BY <2>1, <2>3, <4>1
      <4>3. A[j] = [S[j] EXCEPT !.amount = a[j]] /\ B[j] = [S[j] EXCEPT !.amount = b[j]]
        BY <1>1
      <4> HIDE DEF U, A, B
      <4> QED BY <4>2, <4>3
    <3> QED BY <3>1, <3>2
  <2>6. U = B
    <3>1. U \in [1..m -> AnyRow] /\ B \in [1..m -> AnyRow]
      <4> HIDE DEF U, A, B
      <4> QED BY <1>1, <2>1
    <3> HIDE DEF U, A, B
    <3> QED BY <2>5, <3>1
  <2> QED BY <2>6 DEF U, A, B
<1>3. CASE ~(S[i].type = "DEBIT" /\ S[k].type = "CREDIT" /\ S[k].date < S[i].date)
  <2>1. U = A
    <3>1. ~(A[i].type = "DEBIT" /\ A[k].type = "CREDIT" /\ A[k].date < A[i].date)
      BY <1>1, <1>3
    <3> HIDE DEF A
    <3> QED BY <1>1, <3>1, UsesUpIs
  <2>2. \A j \in 1..m : b[j] = a[j]
    BY <1>3 DEF AmountsTurn
  <2>3. A = B
    <3>1. \A j \in 1..m : A[j] = B[j]
      <4> HIDE DEF A, B
      <4> QED BY <1>1, <2>2
    <3>2. A \in [1..m -> AnyRow] /\ B \in [1..m -> AnyRow]
      BY <1>1
    <3> HIDE DEF A, B
    <3> QED BY <3>1, <3>2
  <2> QED BY <2>1, <2>3
<1> QED BY <1>2, <1>3

\* What is known of the numbers of a solvent wallet's rows around row i.
LEMMA SolventBooks ==
    ASSUME NEW m \in Nat, NEW S, Solvent(S, m), NEW i \in 1..m
    PROVE  /\ S \in [1..m -> AnyRow] /\ DOMAIN S = 1..m
           /\ S[i].type \in RowType /\ S[i].amount \in Nat /\ S[i].date \in Int
           /\ \A j \in 1..m : (S[j].date < S[i].date <=> j < i)
           /\ Came(S, i - 1) \in Nat /\ Came(S, i) \in Nat
           /\ Went(S, i - 1) \in Nat /\ Went(S, i) \in Nat /\ Went(S, i) <= Came(S, i)
           /\ Came(S, i) = Came(S, i - 1) + (IF S[i].type = "CREDIT" THEN S[i].amount ELSE 0)
           /\ Went(S, i) = Went(S, i - 1) + (IF S[i].type = "DEBIT" THEN S[i].amount ELSE 0)
<1>1. S \in [1..m -> AnyRow] /\ DOMAIN S = 1..m
  BY DEF Solvent
<1>2. \A j \in 1..m : S[j].type \in RowType /\ S[j].amount \in Nat /\ S[j].date \in Int
  BY <1>1 DEF AnyRow
<1>3. ASSUME NEW j \in 1..m PROVE S[j].date < S[i].date <=> j < i
  <2>1. S[j].date \in Int /\ S[i].date \in Int
    BY <1>2
  <2>2. (j < i => S[j].date < S[i].date) /\ (i < j => S[i].date < S[j].date)
    BY DEF Solvent
  <2>3. i < j \/ j < i \/ i = j
    OBVIOUS
  <2> QED BY <2>1, <2>2, <2>3
<1>4. i - 1 \in 0..m /\ i \in 0..m /\ i - 1 \in 0..(m - 1) /\ (i - 1) + 1 = i
  OBVIOUS
<1>5. /\ Came(S, i - 1) \in Nat /\ Came(S, i) \in Nat
      /\ Went(S, i - 1) \in Nat /\ Went(S, i) \in Nat
  BY <1>1, <1>4, BooksGrow
<1>6. /\ Came(S, (i - 1) + 1) = Came(S, i - 1) + Credits(S)[(i - 1) + 1]
      /\ Went(S, (i - 1) + 1) = Went(S, i - 1) + Debits(S)[(i - 1) + 1]
  BY <1>1, <1>4, BooksGrow
<1>7. /\ Credits(S)[i] = IF S[i].type = "CREDIT" THEN S[i].amount ELSE 0
      /\ Debits(S)[i] = IF S[i].type = "DEBIT" THEN S[i].amount ELSE 0
  BY <1>1 DEF Credits, Debits
<1>8. Went(S, i) <= Came(S, i)
  BY DEF Solvent
<1> QED BY <1>1, <1>2, <1>3, <1>4, <1>5, <1>6, <1>7, <1>8

\* What remains of a credit is an amount.
LEMMA RemainsTyped ==
    ASSUME NEW came \in Nat, NEW c \in Nat, NEW went \in Nat
    PROVE  Remains(came, c, went) \in Nat
  BY DEF Remains

\* No debit uses up more than it is.
LEMMA UsedTyped ==
    ASSUME NEW came \in Nat, NEW went \in Nat, NEW d \in Nat
    PROVE  d - (Least(came, went + d) - Least(came, went)) \in Nat
  BY DEF Least

\* The amounts while a debit uses up credits are amounts.
LEMMA DuringTyped ==
    ASSUME NEW m \in Nat, NEW S, Solvent(S, m), NEW i \in 1..m, S[i].type = "DEBIT",
           NEW k \in 0..m, NEW j \in 1..m
    PROVE  AmountDuring(S, i, k, j) \in Nat
<1>1. /\ S \in [1..m -> AnyRow]
      /\ \A l \in 0..m : Came(S, l) \in Nat /\ Went(S, l) \in Nat
  BY BooksGrow DEF Solvent
<1>2. /\ S[i].amount \in Nat
      /\ Went(S, i - 1) \in Nat /\ Went(S, i) = Went(S, i - 1) + S[i].amount
  BY SolventBooks
<1>3. S[j].amount \in Nat
  BY SolventBooks
<1>4. CASE j = i
  <2>1. Least(k, i - 1) \in 0..m
    BY DEF Least
  <2> DEFINE came == Came(S, Least(k, i - 1))
  <2>2. came \in Nat
    BY <1>1, <2>1
  <2> HIDE DEF came
  <2>3. S[i].amount - (Least(came, Went(S, i - 1) + S[i].amount) - Least(came, Went(S, i - 1)))
        \in Nat
    BY <1>2, <2>2, UsedTyped
  <2> QED BY <1>2, <1>4, <2>3 DEF AmountDuring, Used, came
<1>5. CASE j # i /\ S[j].type = "CREDIT"
  <2>1. (IF j <= k /\ j < i THEN i ELSE i - 1) \in 0..m /\ j \in 0..m
    OBVIOUS
  <2> DEFINE w == IF j <= k /\ j < i THEN i ELSE i - 1
  <2>2. Came(S, j) \in Nat /\ Went(S, w) \in Nat
    <3> HIDE DEF w
    <3> QED BY <1>1, <2>1 DEF w
  <2> QED BY <1>3, <1>5, <2>2, RemainsTyped DEF AmountDuring
<1>6. CASE j # i /\ S[j].type # "CREDIT"
  BY <1>3, <1>6 DEF AmountDuring
<1> QED BY <1>4, <1>5, <1>6

\* Debit i comes to one more row.
LEMMA DebitTurns ==
    ASSUME NEW m \in Nat, NEW S, Solvent(S, m), NEW i \in 1..m, S[i].type = "DEBIT",
           NEW k \in 0..(m - 1)
    PROVE  UsesUp(During(S, i, k), i, k + 1) = During(S, i, k + 1)
<1> DEFINE n == k + 1
           a == [j \in DOMAIN S |-> AmountDuring(S, i, k, j)]
           b == [j \in DOMAIN S |-> AmountDuring(S, i, n, j)]
<1>1. n \in 1..m /\ k \in 0..m /\ n \in 0..m /\ S \in [1..m -> AnyRow] /\ DOMAIN S = 1..m
  BY DEF Solvent
<1>2. /\ S[i].amount \in Nat
      /\ \A j \in 1..m : (S[j].date < S[i].date <=> j < i)
      /\ Went(S, i - 1) \in Nat /\ Went(S, i) = Went(S, i - 1) + S[i].amount
  BY SolventBooks
<1>3. /\ Came(S, n - 1) \in Nat /\ S[n].amount \in Nat
      /\ Came(S, n) = Came(S, n - 1) + (IF S[n].type = "CREDIT" THEN S[n].amount ELSE 0)
  BY <1>1, SolventBooks
<1>4. n - 1 = k
  OBVIOUS
<1>5. \A j \in 1..m : a[j] \in Nat /\ b[j] \in Nat
  BY <1>1, DuringTyped
<1>6. CASE n < i /\ S[n].type = "CREDIT"
  <2>1. Least(k, i - 1) = k /\ Least(n, i - 1) = n
    BY <1>1, <1>6 DEF Least
  <2> DEFINE before == Came(S, k)
             c == S[n].amount
             went == Went(S, i - 1)
             d == S[i].amount
             came == Came(S, n)
             debit == d - (Least(before, went + d) - Least(before, went))
             credit == Remains(came, c, went)
  <2>2. came = before + c
    BY <1>3, <1>4, <1>6
  <2>3. before \in Nat /\ c \in Nat /\ went \in Nat /\ d \in Nat
    BY <1>2, <1>3, <1>4
  <2>4. /\ debit - Least(debit, credit) = d - (Least(came, went + d) - Least(came, went))
        /\ credit - Least(debit, credit) = Remains(came, c, went + d)
    <3>1. /\ debit = d - (Least(before, went + d) - Least(before, went))
          /\ credit = Remains(came, c, went)
      OBVIOUS
    <3> HIDE DEF before, c, went, d, came, debit, credit
    <3> QED BY <2>2, <2>3, <3>1, UsesUpOne
  <2>5. a[i] = debit /\ b[i] = d - (Least(came, went + d) - Least(came, went))
    BY <1>1, <1>2, <2>1 DEF AmountDuring, Used
  <2>6. a[n] = credit /\ b[n] = Remains(came, c, went + d)
    <3>1. n # i /\ ~(n <= k) /\ n <= n
      BY <1>6
    <3> QED BY <1>1, <1>2, <1>6, <3>1 DEF AmountDuring
  <2>7. ASSUME NEW j \in 1..m, j # i, j # n PROVE b[j] = a[j]
    <3>1. j <= n <=> j <= k
      BY <2>7
    <3> QED BY <1>1, <2>7, <3>1 DEF AmountDuring
  <2>8. S[n].date < S[i].date
    BY <1>1, <1>2, <1>6
  <2> HIDE DEF debit, credit, came, before, c, went, d, a, b
  <2>9. AmountsTurn(S, i, n, a, b)
    BY <1>1, <1>6, <2>4, <2>5, <2>6, <2>7, <2>8 DEF AmountsTurn
  <2> HIDE DEF n
  <2>10. UsesUp(WithAmounts(S, a), i, n) = WithAmounts(S, b)
    BY <1>1, <1>5, <2>9, TurnIs
  <2> QED BY <2>10 DEF During, a, b, n
<1>7. CASE ~(n < i /\ S[n].type = "CREDIT")
  <2>1. Came(S, Least(n, i - 1)) = Came(S, Least(k, i - 1))
    <3>1. CASE n < i
      <4>1. Least(k, i - 1) = k /\ Least(n, i - 1) = n
        BY <1>1, <3>1 DEF Least
      <4>2. Came(S, n) = Came(S, k)
        BY <1>3, <1>4, <1>7, <3>1
      <4> QED BY <4>1, <4>2
    <3>2. CASE ~(n < i)
      <4>1. Least(k, i - 1) = i - 1 /\ Least(n, i - 1) = i - 1
        BY <1>1, <3>2 DEF Least
      <4> QED BY <4>1
    <3> QED BY <3>1, <3>2
  <2>2. ASSUME NEW j \in 1..m PROVE b[j] = a[j]
    <3>1. CASE j = i
      BY <1>1, <2>1, <3>1 DEF AmountDuring, Used
    <3>2. CASE j # i /\ j # n
      <4>1. j <= n <=> j <= k
        BY <3>2
      <4> QED BY <1>1, <3>2, <4>1 DEF AmountDuring
    <3>3. CASE j # i /\ j = n
      <4>1. CASE S[j].type = "CREDIT"
        <5>1. ~(j < i)
          BY <1>7, <3>3, <4>1
        <5> QED BY <1>1, <3>3, <4>1, <5>1 DEF AmountDuring
      <4>2. CASE S[j].type # "CREDIT"
        BY <1>1, <3>3, <4>2 DEF AmountDuring
      <4> QED BY <4>1, <4>2
    <3> QED BY <3>1, <3>2, <3>3
  <2>3. ~(S[i].type = "DEBIT" /\ S[n].type = "CREDIT" /\ S[n].date < S[i].date)
    BY <1>1, <1>2, <1>7
  <2> HIDE DEF a, b
  <2>4. AmountsTurn(S, i, n, a, b)
    BY <1>1, <2>2, <2>3 DEF AmountsTurn
  <2> HIDE DEF n
  <2>5. UsesUp(WithAmounts(S, a), i, n) = WithAmounts(S, b)
    BY <1>1, <1>5, <2>4, TurnIs
  <2> QED BY <2>5 DEF During, a, b, n
<1> QED BY <1>6, <1>7

\* It begins with what the debits before it have left.
LEMMA DebitBegins ==
    ASSUME NEW m \in Nat, NEW S, Solvent(S, m), NEW i \in 1..m, S[i].type = "DEBIT"
    PROVE  During(S, i, 0) = After(S, i - 1)
<1>1. S \in [1..m -> AnyRow] /\ DOMAIN S = 1..m
  BY DEF Solvent
<1>2. /\ S[i].amount \in Nat
      /\ Went(S, i - 1) \in Nat /\ Went(S, i) = Went(S, i - 1) + S[i].amount
  BY SolventBooks
<1>3. Came(S, 0) = 0
  BY <1>1, BooksGrow
<1>4. ASSUME NEW j \in 1..m PROVE AmountDuring(S, i, 0, j) = AmountAfter(S, i - 1, j)
  <2>1. CASE j = i
    <3>1. Least(0, i - 1) = 0
      BY DEF Least
    <3>2. Used(S, i, 0) = 0
      BY <1>2, <1>3, <3>1 DEF Used, Least
    <3>3. ~(i <= i - 1)
      OBVIOUS
    <3> QED BY <1>2, <2>1, <3>2, <3>3 DEF AmountDuring, AmountAfter
  <2>2. CASE j # i
    <3>1. (j <= i <=> j <= i - 1) /\ ~(j <= 0)
      BY <2>2
    <3> QED BY <2>2, <3>1 DEF AmountDuring, AmountAfter
  <2> QED BY <2>1, <2>2
<1> QED BY <1>1, <1>4 DEF During, After

\* A credit of which came less than what went after it keeps everything.
LEMMA LaterIsWhole ==
    ASSUME NEW came \in Nat, NEW c \in Nat, NEW went \in Nat, NEW more \in Nat,
           went <= more, more + c <= came
    PROVE  Remains(came, c, went) = Remains(came, c, more)
  BY DEF Remains

\* At the end it is used up.
LEMMA DebitEnds ==
    ASSUME NEW m \in Nat, NEW S, Solvent(S, m), NEW i \in 1..m, S[i].type = "DEBIT"
    PROVE  During(S, i, m) = After(S, i)
<1>1. S \in [1..m -> AnyRow] /\ DOMAIN S = 1..m
  BY DEF Solvent
<1>2. /\ S[i].amount \in Nat /\ Came(S, i - 1) \in Nat
      /\ Went(S, i - 1) \in Nat /\ Went(S, i) = Went(S, i - 1) + S[i].amount
      /\ Went(S, i) <= Came(S, i) /\ Came(S, i) = Came(S, i - 1)
  <2>1. /\ S[i].amount \in Nat /\ Came(S, i - 1) \in Nat
        /\ Went(S, i - 1) \in Nat /\ Went(S, i) <= Came(S, i)
    BY SolventBooks
  <2>2. /\ Came(S, i) = Came(S, i - 1) + (IF S[i].type = "CREDIT" THEN S[i].amount ELSE 0)
        /\ Went(S, i) = Went(S, i - 1) + (IF S[i].type = "DEBIT" THEN S[i].amount ELSE 0)
    BY SolventBooks
  <2> QED BY <2>1, <2>2
<1>3. \A k, l \in 0..m : k <= l => Came(S, k) <= Came(S, l)
  BY <1>1, BooksGrow
<1>4. ASSUME NEW j \in 1..m PROVE AmountDuring(S, i, m, j) = AmountAfter(S, i, j)
  <2>1. CASE j = i
    <3>1. Least(m, i - 1) = i - 1
      BY DEF Least
    <3>2. Used(S, i, m) = S[i].amount
      BY <1>2, <3>1 DEF Used, Least
    <3>3. i <= i
      OBVIOUS
    <3> QED BY <1>2, <2>1, <3>2, <3>3 DEF AmountDuring, AmountAfter
  <2>2. CASE j # i /\ (S[j].type # "CREDIT" \/ j < i)
    <3>1. j <= m
      OBVIOUS
    <3> QED BY <2>2, <3>1 DEF AmountDuring, AmountAfter
  <2>3. CASE j # i /\ S[j].type = "CREDIT" /\ ~(j < i)
    <3>1. /\ Came(S, j) \in Nat /\ Came(S, j - 1) \in Nat /\ S[j].amount \in Nat
          /\ Came(S, j) = Came(S, j - 1) + S[j].amount
      BY <2>3, SolventBooks
    <3>2. Came(S, i) <= Came(S, j - 1)
      <4>1. i \in 0..m /\ j - 1 \in 0..m /\ i <= j - 1
        BY <2>3
      <4> QED BY <1>3, <4>1
    <3>3. Remains(Came(S, j), S[j].amount, Went(S, i - 1))
          = Remains(Came(S, j), S[j].amount, Went(S, i))
      <4>1. Went(S, i) \in Nat /\ Went(S, i - 1) <= Went(S, i)
        BY <1>2
      <4>2. Went(S, i) + S[j].amount <= Came(S, j)
        BY <1>2, <3>1, <3>2, <4>1
      <4> QED BY <1>2, <3>1, <4>1, <4>2, LaterIsWhole
    <3> QED BY <2>3, <3>3 DEF AmountDuring, AmountAfter
  <2> QED BY <2>1, <2>2, <2>3
<1> QED BY <1>1, <1>4 DEF During, After

\* A row that is no debit uses up nothing.
LEMMA OthersStay ==
    ASSUME NEW m \in Nat, NEW S, Solvent(S, m), NEW i \in 1..m, S[i].type # "DEBIT"
    PROVE  After(S, i) = After(S, i - 1)
<1>1. DOMAIN S = 1..m /\ Went(S, i) = Went(S, i - 1)
  <2>1. DOMAIN S = 1..m /\ Went(S, i - 1) \in Nat
    BY SolventBooks
  <2>2. Went(S, i) = Went(S, i - 1) + (IF S[i].type = "DEBIT" THEN S[i].amount ELSE 0)
    BY SolventBooks
  <2> QED BY <2>1, <2>2
<1>2. ASSUME NEW j \in 1..m PROVE AmountAfter(S, i, j) = AmountAfter(S, i - 1, j)
  <2>1. S[j].type = "DEBIT" => (j <= i <=> j <= i - 1)
    <3>1. S[j].type = "DEBIT" => j # i
      OBVIOUS
    <3> QED BY <3>1
  <2> QED BY <1>1, <2>1 DEF AmountAfter
<1> QED BY <1>1, <1>2 DEF After

\* So are those when the first debits have used up credits.
LEMMA AfterTyped ==
    ASSUME NEW m \in Nat, NEW S, Solvent(S, m), NEW l \in 0..m
    PROVE  /\ \A j \in 1..m : AmountAfter(S, l, j) \in Nat
           /\ After(S, l) \in [1..m -> AnyRow]
<1>1. /\ S \in [1..m -> AnyRow] /\ DOMAIN S = 1..m
      /\ \A k \in 0..m : Came(S, k) \in Nat /\ Went(S, k) \in Nat
  BY BooksGrow DEF Solvent
<1>2. ASSUME NEW j \in 1..m PROVE AmountAfter(S, l, j) \in Nat
  <2>1. S[j].amount \in Nat
    BY SolventBooks
  <2>2. j \in 0..m
    OBVIOUS
  <2>3. Remains(Came(S, j), S[j].amount, Went(S, l)) \in Nat
    BY <1>1, <2>1, <2>2, RemainsTyped
  <2> QED BY <2>1, <2>3 DEF AmountAfter
<1>3. \A j \in 1..m : [i \in DOMAIN S |-> AmountAfter(S, l, i)][j] \in Nat
  BY <1>1, <1>2
<1>4. After(S, l) \in [1..m -> AnyRow]
  BY <1>1, <1>3, WithAmountsTyped DEF After
<1> QED BY <1>2, <1>4

\* Row i of rs, when it comes to every place in turn.
Debited(places, rs, i) == FoldLeft(LAMBDA r, j : UsesUp(r, i, j), rs, places)

\* The turns of the loop over the places.
UsingUp(m, i) == [x \in (1..m) \X [1..m -> AnyRow] |-> UsesUp(x[2], i, x[1])]

\* The loop takes its turns, a place at a time.
LEMMA DebitedTurns ==
    ASSUME NEW m \in Nat, NEW rs \in [1..m -> AnyRow], NEW i \in 1..m
    PROVE  /\ UsingUp(m, i) \in [(1..m) \X [1..m -> AnyRow] -> [1..m -> AnyRow]]
           /\ \E it : /\ TakesTurns([1..m -> AnyRow], UsingUp(m, i), rs, it, m)
                      /\ Debited([k \in 1..m |-> k], rs, i) = it[1..m]
<1> DEFINE V == [1..m -> AnyRow]
           all == [k \in 1..m |-> k]
           G == UsingUp(m, i)
           Is(h) == h = [S \in SUBSET DOMAIN all |->
                            IF S = {} THEN rs ELSE UsesUp(h[S \ {Top(S)}], i, all[Top(S)])]
           it == CHOOSE h : Is(h)
<1>1. DOMAIN all = 1..m /\ \A k \in 1..m : all[k] = k
  OBVIOUS
<1>2. Debited(all, rs, i) = it[DOMAIN all]
  <2> HIDE DEF all
  <2> QED BY DEF Debited, FoldLeft, MapThenFoldSet, Max, Top
<1> HIDE DEF all
<1>3. G \in [(1..m) \X V -> V] /\ rs \in V
  <2>1. ASSUME NEW r \in V, NEW k \in 1..m PROVE UsesUp(r, i, k) \in V
    BY UsesUpIs
  <2> HIDE DEF V
  <2>2. [x \in (1..m) \X V |-> UsesUp(x[2], i, x[1])] \in [(1..m) \X V -> V]
    BY <2>1
  <2> QED BY <2>2 DEF UsingUp, V
<1>a. \A k \in 1..m, r \in V : G[<<k, r>>] = UsesUp(r, i, k)
  BY DEF UsingUp
<1> HIDE DEF V, G
<1>4. PICK g \in [SUBSET (1..m) -> V] : IsFold(G, rs, g, m)
  BY <1>3, FoldExists
<1>5. ASSUME NEW h, NEW S \in SUBSET (1..m), S # {}, h[S \ {Top(S)}] \in V
      PROVE  /\ Top(S) \in 1..m
             /\ G[<<Top(S), h[S \ {Top(S)}]>>] = UsesUp(h[S \ {Top(S)}], i, all[Top(S)])
  <2>1. Top(S) \in 1..m
    BY <1>5, LastPlace
  <2> QED BY <1>1, <1>5, <1>a, <2>1
<1>6. Is(g)
  <2>1. ASSUME NEW S \in SUBSET (1..m), S # {}
        PROVE  G[<<Top(S), g[S \ {Top(S)}]>>] = UsesUp(g[S \ {Top(S)}], i, all[Top(S)])
    <3>1. g[S \ {Top(S)}] \in V
      OBVIOUS
    <3> QED BY <1>5, <2>1, <3>1
  <2> QED BY <1>1, <1>4, <2>1 DEF IsFold, Turn
<1>7. Is(it)
  <2> HIDE DEF Is
  <2> QED BY <1>6
<1>8. TakesTurns(V, G, rs, it, m)
  <2>1. it[{}] = rs
    BY <1>7
  <2>2. ASSUME NEW S \in SUBSET (1..m), S # {}, it[S \ {Top(S)}] \in V
        PROVE  it[S] = G[<<Top(S), it[S \ {Top(S)}]>>]
    <3>1. it[S] = UsesUp(it[S \ {Top(S)}], i, all[Top(S)])
      <4> HIDE DEF it
      <4> QED BY <1>1, <1>7, <2>2
    <3> HIDE DEF it
    <3> QED BY <1>5, <2>2, <3>1
  <2> HIDE DEF it
  <2>3. FoldsIn(V, G, rs, it, m)
    BY <2>1, <2>2 DEF FoldsIn
  <2> QED BY <1>3, <2>3, FoldTurns
<1> HIDE DEF it, Is
<1>9. Debited(all, rs, i) = it[1..m]
  BY <1>1, <1>2
<1> QED BY <1>3, <1>8, <1>9 DEF V, G, all

\* The rows while a debit uses up credits are rows.
LEMMA DuringIs ==
    ASSUME NEW m \in Nat, NEW S, Solvent(S, m), NEW i \in 1..m, S[i].type = "DEBIT",
           NEW k \in 0..m
    PROVE  During(S, i, k) \in [1..m -> AnyRow]
<1>1. S \in [1..m -> AnyRow] /\ DOMAIN S = 1..m
  BY DEF Solvent
<1>2. \A j \in 1..m : [x \in DOMAIN S |-> AmountDuring(S, i, k, x)][j] \in Nat
  BY <1>1, DuringTyped
<1> QED BY <1>1, <1>2, WithAmountsTyped DEF During

\* Row i does what it does to the rows before it.
LEMMA DebitedIs ==
    ASSUME NEW m \in Nat, NEW S, Solvent(S, m), NEW i \in 1..m
    PROVE  Debited([k \in 1..m |-> k], After(S, i - 1), i) = After(S, i)
<1> DEFINE V == [1..m -> AnyRow]
           rs == After(S, i - 1)
           G == UsingUp(m, i)
<1>1. rs \in V /\ i - 1 \in 0..m
  BY AfterTyped
<1> HIDE DEF rs
<1>2. PICK it : /\ TakesTurns(V, G, rs, it, m)
                /\ Debited([k \in 1..m |-> k], rs, i) = it[1..m]
  BY <1>1, DebitedTurns
<1>3. \A k \in 1..m, r \in V : G[<<k, r>>] = UsesUp(r, i, k)
  BY DEF UsingUp
<1>4. CASE S[i].type = "DEBIT"
  <2> DEFINE w == [k \in 0..m |-> During(S, i, k)]
  <2>1. w[0] = rs /\ w[m] = After(S, i)
    <3>1. During(S, i, 0) = rs /\ During(S, i, m) = After(S, i)
      BY <1>4, DebitBegins, DebitEnds DEF rs
    <3> QED BY <3>1
  <2>2. ASSUME NEW k \in 0..(m - 1) PROVE w[k + 1] = G[<<k + 1, w[k]>>]
    <3>1. k \in 0..m /\ k + 1 \in 0..m /\ k + 1 \in 1..m
      OBVIOUS
    <3>2. During(S, i, k) \in V
      BY <1>4, <3>1, DuringIs
    <3>3. G[<<k + 1, During(S, i, k)>>] = During(S, i, k + 1)
      <4>1. G[<<k + 1, During(S, i, k)>>] = UsesUp(During(S, i, k), i, k + 1)
        <5> HIDE DEF G, V
        <5> QED BY <1>3, <3>1, <3>2
      <4> QED BY <1>4, <4>1, DebitTurns
    <3> HIDE DEF G
    <3> QED BY <3>1, <3>3
  <2> HIDE DEF w, G, V
  <2>3. it[1..m] = w[m]
    BY <1>2, <2>1, <2>2, TurnsReach
  <2> QED BY <1>2, <2>1, <2>3 DEF rs
<1>5. CASE S[i].type # "DEBIT"
  <2> DEFINE w == [k \in 0..m |-> rs]
  <2>1. w[0] = rs /\ w[m] = rs /\ rs = After(S, i)
    BY <1>5, OthersStay DEF rs
  <2>2. ASSUME NEW k \in 0..(m - 1) PROVE w[k + 1] = G[<<k + 1, w[k]>>]
    <3>1. k \in 0..m /\ k + 1 \in 0..m /\ k + 1 \in 1..m
      OBVIOUS
    <3> DEFINE a == [x \in DOMAIN S |-> AmountAfter(S, i - 1, x)]
    <3>2. rs[i].type = S[i].type
      <4>1. S \in [1..m -> AnyRow] /\ \A j \in 1..m : a[j] \in Nat
        BY <1>1, AfterTyped DEF Solvent
      <4>2. rs = WithAmounts(S, a)
        BY DEF After, rs
      <4> HIDE DEF a
      <4>3. WithAmounts(S, a)[i] = [S[i] EXCEPT !.amount = a[i]]
        BY <4>1, WithAmountsTyped
      <4>4. S[i] \in AnyRow
        BY <4>1
      <4> HIDE DEF rs
      <4>5. rs[i] = [S[i] EXCEPT !.amount = a[i]]
        BY <4>2, <4>3
      <4> QED BY <4>4, <4>5 DEF AnyRow
    <3>3. UsesUp(rs, i, k + 1) = rs
      <4> DEFINE n == k + 1
      <4>1. /\ rs \in [1..m -> AnyRow] /\ n \in 1..m
            /\ ~(rs[i].type = "DEBIT" /\ rs[n].type = "CREDIT" /\ rs[n].date < rs[i].date)
        BY <1>1, <1>5, <3>1, <3>2
      <4> HIDE DEF n, rs, w
      <4>2. UsesUp(rs, i, n) = rs
        BY <4>1, UsesUpIs
      <4> QED BY <4>2 DEF n
    <3>4. G[<<k + 1, rs>>] = rs
      <4> HIDE DEF G, V
      <4> QED BY <1>1, <1>3, <3>1, <3>3
    <3> HIDE DEF G
    <3> QED BY <3>1, <3>4
  <2> HIDE DEF w, G, V
  <2>3. it[1..m] = w[m]
    BY <1>2, <2>1, <2>2, TurnsReach
  <2> QED BY <1>2, <2>1, <2>3 DEF rs
<1> QED BY <1>4, <1>5

\* Before anything went out nothing has changed.
LEMMA AtFirst ==
    ASSUME NEW m \in Nat, NEW S, Solvent(S, m)
    PROVE  After(S, 0) = S
<1>1. S \in [1..m -> AnyRow] /\ DOMAIN S = 1..m /\ Went(S, 0) = 0
  BY BooksGrow DEF Solvent
<1>2. ASSUME NEW j \in 1..m
      PROVE  AmountAfter(S, 0, j) = S[j].amount
             /\ [S[j] EXCEPT !.amount = S[j].amount] = S[j]
  <2>1. S[j] \in AnyRow
    BY <1>1
  <2>2. ~(j <= 0)
    OBVIOUS
  <2>3. S[j].type = "CREDIT" => AmountAfter(S, 0, j) = S[j].amount
    <3>1. /\ Came(S, j) \in Nat /\ Came(S, j - 1) \in Nat /\ S[j].amount \in Nat
          /\ Came(S, j) = Came(S, j - 1) + (IF S[j].type = "CREDIT" THEN S[j].amount ELSE 0)
      BY SolventBooks
    <3> QED BY <1>1, <3>1 DEF AmountAfter, Remains
  <2>4. S[j].type # "CREDIT" => AmountAfter(S, 0, j) = S[j].amount
    BY <2>2 DEF AmountAfter
  <2>5. [S[j] EXCEPT !.amount = S[j].amount] = S[j]
    BY <2>1 DEF AnyRow
  <2> QED BY <2>3, <2>4, <2>5
<1>3. After(S, 0) = [j \in 1..m |-> S[j]]
  BY <1>1, <1>2 DEF After, WithAmounts
<1> QED BY <1>1, <1>3

\* The turns of the loop over the debits.
Debiting(m) == [x \in (1..m) \X [1..m -> AnyRow] |-> Debited([k \in 1..m |-> k], x[2], x[1])]

\* [AirdropService] The two nested loops of finalCalculations leave of every credit
\* what came in up to it less what all debits took, and nothing of a debit.
LEMMA OffsetIs ==
    ASSUME NEW m \in Nat, NEW S, Solvent(S, m)
    PROVE  Offset(S) = After(S, m)
<1> DEFINE V == [1..m -> AnyRow]
           all == [k \in DOMAIN S |-> k]
           one == [k \in 1..m |-> k]
           G == Debiting(m)
           Is(h) == h = [s \in SUBSET DOMAIN all |->
                            IF s = {} THEN S ELSE Debited(all, h[s \ {Top(s)}], all[Top(s)])]
           it == CHOOSE h : Is(h)
<1>1. DOMAIN all = 1..m /\ all = one /\ S \in V /\ \A k \in 1..m : all[k] = k
  BY DEF Solvent
<1>2. Offset(S) = it[DOMAIN all]
  <2>1. Offset(S) = FoldLeft(LAMBDA rs, i : Debited(all, rs, i), S, all)
    BY DEF Offset, Debited
  <2> HIDE DEF all
  <2> QED BY <2>1 DEF FoldLeft, MapThenFoldSet, Max, Top
<1> HIDE DEF all, one
<1>3. G \in [(1..m) \X V -> V]
  <2>1. ASSUME NEW r \in V, NEW k \in 1..m PROVE Debited(one, r, k) \in V
    <3>1. PICK g : /\ TakesTurns(V, UsingUp(m, k), r, g, m)
                   /\ Debited(one, r, k) = g[1..m]
      BY DebitedTurns DEF one
    <3>2. m \in 0..m
      OBVIOUS
    <3> HIDE DEF V
    <3> QED BY <3>1, <3>2 DEF TakesTurns
  <2> HIDE DEF V
  <2>2. [x \in (1..m) \X V |-> Debited(one, x[2], x[1])] \in [(1..m) \X V -> V]
    BY <2>1
  <2> QED BY <2>2 DEF Debiting, V, one
<1>a. \A k \in 1..m, r \in V : G[<<k, r>>] = Debited(one, r, k)
  BY DEF Debiting, one
<1> HIDE DEF V, G
<1>4. PICK g \in [SUBSET (1..m) -> V] : IsFold(G, S, g, m)
  BY <1>1, <1>3, FoldExists
<1>5. ASSUME NEW h, NEW s \in SUBSET (1..m), s # {}, h[s \ {Top(s)}] \in V
      PROVE  /\ Top(s) \in 1..m
             /\ G[<<Top(s), h[s \ {Top(s)}]>>] = Debited(all, h[s \ {Top(s)}], all[Top(s)])
  <2>1. Top(s) \in 1..m
    BY <1>5, LastPlace
  <2> QED BY <1>1, <1>5, <1>a, <2>1
<1>6. Is(g)
  <2>1. ASSUME NEW s \in SUBSET (1..m), s # {}
        PROVE  G[<<Top(s), g[s \ {Top(s)}]>>] = Debited(all, g[s \ {Top(s)}], all[Top(s)])
    <3>1. g[s \ {Top(s)}] \in V
      OBVIOUS
    <3> QED BY <1>5, <2>1, <3>1
  <2> QED BY <1>1, <1>4, <2>1 DEF IsFold, Turn
<1>7. Is(it)
  <2> HIDE DEF Is
  <2> QED BY <1>6
<1>8. TakesTurns(V, G, S, it, m)
  <2>1. it[{}] = S
    BY <1>7
  <2>2. ASSUME NEW s \in SUBSET (1..m), s # {}, it[s \ {Top(s)}] \in V
        PROVE  it[s] = G[<<Top(s), it[s \ {Top(s)}]>>]
    <3>1. it[s] = Debited(all, it[s \ {Top(s)}], all[Top(s)])
      <4> HIDE DEF it
      <4> QED BY <1>1, <1>7, <2>2
    <3> HIDE DEF it
    <3> QED BY <1>5, <2>2, <3>1
  <2> HIDE DEF it
  <2>3. FoldsIn(V, G, S, it, m)
    BY <2>1, <2>2 DEF FoldsIn
  <2> QED BY <1>1, <1>3, <2>3, FoldTurns
<1> HIDE DEF it, Is
<1> DEFINE w == [k \in 0..m |-> After(S, k)]
<1>9. w[0] = S /\ w[m] = After(S, m)
  BY AtFirst
<1>10. ASSUME NEW k \in 0..(m - 1) PROVE w[k + 1] = G[<<k + 1, w[k]>>]
  <2>1. k \in 0..m /\ k + 1 \in 0..m /\ k + 1 \in 1..m /\ (k + 1) - 1 = k
    OBVIOUS
  <2>2. After(S, k) \in V
    BY <2>1, AfterTyped DEF V
  <2>3. Debited(one, After(S, k), k + 1) = After(S, k + 1)
    <3>1. Debited(one, After(S, (k + 1) - 1), k + 1) = After(S, k + 1)
      BY <2>1, DebitedIs DEF one
    <3> QED BY <2>1, <3>1
  <2>4. G[<<k + 1, After(S, k)>>] = After(S, k + 1)
    BY <1>a, <2>1, <2>2, <2>3
  <2> QED BY <2>1, <2>4
<1> HIDE DEF w
<1>11. it[1..m] = w[m]
  BY <1>8, <1>9, <1>10, TurnsReach
<1> QED BY <1>1, <1>2, <1>9, <1>11

(***************************************************************************)
(* The rows of a run stand for entries, one a transaction, of which those  *)
(* without effect leave no row: what is left of the rows is what is left of *)
(* the entries, and that is what the next period begins with.              *)
(***************************************************************************)

\* What comes in and goes out at a place, when, and how many days it is held.
Entry == [credit : Nat, debit : Nat, date : Int, days : Int]

\* What comes in at every place, and goes out, and all that has up to a place.
CreditsOf(E) == [i \in DOMAIN E |-> E[i].credit]
DebitsOf(E) == [i \in DOMAIN E |-> E[i].debit]
In(E, l) == SumFunctionOnSet(CreditsOf(E), 1..l)
Out(E, l) == SumFunctionOnSet(DebitsOf(E), 1..l)

\* N entries by date, with never more out than in.
Books(E, N) ==
    /\ E \in [1..N -> Entry]
    /\ \A i, j \in 1..N : i < j => E[i].date < E[j].date
    /\ \A l \in 1..N : Out(E, l) <= In(E, l)

\* What the debits leave of entry i.
LeftOf(E, N, i) == Remains(In(E, i), E[i].credit, Out(E, N))

\* The m rows S are those of the entries at the places c, all with balance B, and
\* nothing comes or goes at other places.
Covers(S, m, c, E, N, B) ==
    /\ S \in [1..m -> AnyRow]
    /\ Picks(c, m, N)
    /\ \A l \in 1..m : /\ Credits(S)[l] = E[c[l]].credit
                       /\ Debits(S)[l] = E[c[l]].debit
                       /\ S[l].date = E[c[l]].date
                       /\ S[l].days = E[c[l]].days
                       /\ S[l].balance = B
                       /\ S[l].type = "UNKNOWN" => S[l].amount = 0
    /\ \A i \in (1..N) \ Picked(c, m) : E[i].credit = 0 /\ E[i].debit = 0

\* What is left when the next period begins.
Carried(E, N) ==
    [i \in 1..N |-> [credit |-> LeftOf(E, N, i), debit |-> 0,
                     date |-> E[i].date, days |-> E[i].days]]

\* What came in and went out begins with nothing and grows entry by entry.
LEMMA EntriesGrow ==
    ASSUME NEW N \in Nat, NEW E \in [1..N -> Entry]
    PROVE  /\ In(E, 0) = 0 /\ Out(E, 0) = 0
           /\ \A l \in 0..N : In(E, l) \in Nat /\ Out(E, l) \in Nat
           /\ \A l \in 0..(N - 1) : /\ In(E, l + 1) = In(E, l) + E[l + 1].credit
                                    /\ Out(E, l + 1) = Out(E, l) + E[l + 1].debit
           /\ \A i \in 1..N : E[i].credit \in Nat /\ E[i].debit \in Nat
                              /\ E[i].date \in Int /\ E[i].days \in Int
                              /\ CreditsOf(E)[i] = E[i].credit /\ DebitsOf(E)[i] = E[i].debit
<1>1. ASSUME NEW i \in 1..N
      PROVE  /\ E[i].credit \in Nat /\ E[i].debit \in Nat
             /\ E[i].date \in Int /\ E[i].days \in Int
             /\ CreditsOf(E)[i] = E[i].credit /\ DebitsOf(E)[i] = E[i].debit
  <2>1. E[i] \in Entry /\ i \in DOMAIN E
    OBVIOUS
  <2> QED BY <2>1 DEF Entry, CreditsOf, DebitsOf
<1>2. In(E, 0) = 0 /\ Out(E, 0) = 0
  <2>1. 1..0 = {}
    OBVIOUS
  <2> QED BY <2>1, SumOfNone DEF In, Out
<1>3. ASSUME NEW l \in 0..N PROVE In(E, l) \in Nat /\ Out(E, l) \in Nat
  <2>1. IsFiniteSet(1..l)
    <3>1. 1 \in Int /\ l \in Int
      OBVIOUS
    <3> QED BY <3>1, FS_Interval
  <2>2. \A i \in 1..l : CreditsOf(E)[i] \in Nat /\ DebitsOf(E)[i] \in Nat
    <3> SUFFICES ASSUME NEW i \in 1..l PROVE CreditsOf(E)[i] \in Nat /\ DebitsOf(E)[i] \in Nat
      OBVIOUS
    <3>1. i \in 1..N
      OBVIOUS
    <3> QED BY <1>1, <3>1
  <2> QED BY <2>1, <2>2, SumIsNat DEF In, Out
<1>4. ASSUME NEW l \in 0..(N - 1)
      PROVE  /\ In(E, l + 1) = In(E, l) + E[l + 1].credit
             /\ Out(E, l + 1) = Out(E, l) + E[l + 1].debit
  <2>1. \A i \in 1..(l + 1) : CreditsOf(E)[i] \in Int /\ DebitsOf(E)[i] \in Int
    <3> SUFFICES ASSUME NEW i \in 1..(l + 1)
                 PROVE  CreditsOf(E)[i] \in Int /\ DebitsOf(E)[i] \in Int
      OBVIOUS
    <3>1. i \in 1..N
      OBVIOUS
    <3> QED BY <1>1, <3>1
  <2>2. l \in Nat /\ l + 1 \in 1..N
    OBVIOUS
  <2> QED BY <1>1, <2>1, <2>2, SumNext DEF In, Out
<1> QED BY <1>1, <1>2, <1>3, <1>4

\* What the debits leave of an entry is an amount.
LEMMA LeftTyped ==
    ASSUME NEW N \in Nat, NEW E \in [1..N -> Entry], NEW i \in 1..N
    PROVE  LeftOf(E, N, i) \in Nat
<1>1. In(E, i) \in Nat /\ Out(E, N) \in Nat /\ E[i].credit \in Nat
  <2>1. i \in 0..N /\ N \in 0..N
    OBVIOUS
  <2> QED BY <2>1, EntriesGrow
<1> QED BY <1>1, RemainsTyped DEF LeftOf

\* The rows add up like the entries.
LEMMA CoversAdd ==
    ASSUME NEW N \in Nat, NEW E \in [1..N -> Entry], NEW m \in Nat, NEW S, NEW c, NEW B,
           Covers(S, m, c, E, N, B)
    PROVE  /\ \A l \in 1..m : c[l] \in 1..N /\ Came(S, l) = In(E, c[l]) /\ Went(S, l) = Out(E, c[l])
           /\ Came(S, m) = In(E, N) /\ Went(S, m) = Out(E, N)
<1>1. /\ Picks(c, m, N) /\ c \in [1..m -> 1..N]
      /\ \A l \in 1..m : Credits(S)[l] = E[c[l]].credit /\ Debits(S)[l] = E[c[l]].debit
      /\ \A i \in (1..N) \ Picked(c, m) : E[i].credit = 0 /\ E[i].debit = 0
  BY DEF Covers, Picks
<1>2. \A i \in 1..N : /\ E[i].credit \in Nat /\ E[i].debit \in Nat
                      /\ CreditsOf(E)[i] = E[i].credit /\ DebitsOf(E)[i] = E[i].debit
  BY EntriesGrow
<1>3. /\ SumFunctionOnSet(Credits(S), 1..m) = SumFunctionOnSet(CreditsOf(E), 1..N)
      /\ \A l \in 1..m :
             SumFunctionOnSet(Credits(S), 1..l) = SumFunctionOnSet(CreditsOf(E), 1..c[l])
  <2> DEFINE f == CreditsOf(E)
             g == Credits(S)
  <2>1. /\ \A i \in 1..N : f[i] = E[i].credit /\ f[i] \in Int
        /\ \A l \in 1..m : g[l] = E[c[l]].credit /\ c[l] \in 1..N
    BY <1>1, <1>2
  <2> HIDE DEF f, g
  <2>2. \A i \in 1..N : f[i] \in Int
    BY <2>1
  <2>3. \A i \in (1..N) \ Picked(c, m) : f[i] = 0
    BY <1>1, <2>1
  <2>4. \A l \in 1..m : g[l] = f[c[l]]
    BY <2>1
  <2>5. Picks(c, m, N)
    BY <1>1
  <2>6. /\ SumFunctionOnSet(g, 1..m) = SumFunctionOnSet(f, 1..N)
        /\ \A l \in 1..m : SumFunctionOnSet(g, 1..l) = SumFunctionOnSet(f, 1..c[l])
    BY <2>2, <2>3, <2>4, <2>5, SumOfPicked
  <2> QED BY <2>6 DEF f, g
<1>4. /\ SumFunctionOnSet(Debits(S), 1..m) = SumFunctionOnSet(DebitsOf(E), 1..N)
      /\ \A l \in 1..m : SumFunctionOnSet(Debits(S), 1..l) = SumFunctionOnSet(DebitsOf(E), 1..c[l])
  <2> DEFINE f == DebitsOf(E)
             g == Debits(S)
  <2>1. /\ \A i \in 1..N : f[i] = E[i].debit /\ f[i] \in Int
        /\ \A l \in 1..m : g[l] = E[c[l]].debit /\ c[l] \in 1..N
    BY <1>1, <1>2
  <2> HIDE DEF f, g
  <2>2. \A i \in 1..N : f[i] \in Int
    BY <2>1
  <2>3. \A i \in (1..N) \ Picked(c, m) : f[i] = 0
    BY <1>1, <2>1
  <2>4. \A l \in 1..m : g[l] = f[c[l]]
    BY <2>1
  <2>5. Picks(c, m, N)
    BY <1>1
  <2>6. /\ SumFunctionOnSet(g, 1..m) = SumFunctionOnSet(f, 1..N)
        /\ \A l \in 1..m : SumFunctionOnSet(g, 1..l) = SumFunctionOnSet(f, 1..c[l])
    BY <2>2, <2>3, <2>4, <2>5, SumOfPicked
  <2> QED BY <2>6 DEF f, g
<1> QED BY <1>1, <1>3, <1>4 DEF Came, Went, In, Out

\* Rows of books are those of a solvent wallet.
LEMMA CoversSolvent ==
    ASSUME NEW N \in Nat, NEW E, Books(E, N), NEW m \in Nat, NEW S, NEW c, NEW B,
           Covers(S, m, c, E, N, B)
    PROVE  Solvent(S, m)
<1>1. /\ E \in [1..N -> Entry]
      /\ \A i, j \in 1..N : i < j => E[i].date < E[j].date
      /\ \A l \in 1..N : Out(E, l) <= In(E, l)
  BY DEF Books
<1>2. /\ S \in [1..m -> AnyRow] /\ c \in [1..m -> 1..N]
      /\ \A i, j \in 1..m : i < j => c[i] < c[j]
      /\ \A l \in 1..m : S[l].date = E[c[l]].date
  BY DEF Covers, Picks
<1>3. \A l \in 1..m : c[l] \in 1..N /\ Came(S, l) = In(E, c[l]) /\ Went(S, l) = Out(E, c[l])
  BY <1>1, CoversAdd
<1>4. \A l \in 1..m : Went(S, l) <= Came(S, l)
  BY <1>1, <1>3
<1>5. ASSUME NEW i \in 1..m, NEW j \in 1..m, i < j PROVE S[i].date < S[j].date
  <2>1. c[i] < c[j] /\ c[i] \in 1..N /\ c[j] \in 1..N
    BY <1>2, <1>5
  <2>2. E[c[i]].date < E[c[j]].date
    BY <1>1, <2>1
  <2> QED BY <1>2, <2>2
<1> QED BY <1>2, <1>4, <1>5 DEF Solvent

\* What the debits leave of a row is what they leave of its entry.
LEMMA CoversLeft ==
    ASSUME NEW N \in Nat, NEW E, Books(E, N), NEW m \in Nat, NEW S, NEW c, NEW B,
           Covers(S, m, c, E, N, B), NEW l \in 1..m
    PROVE  /\ c[l] \in 1..N
           /\ AmountAfter(S, m, l) = LeftOf(E, N, c[l])
           /\ S[l].type # "CREDIT" => AmountAfter(S, m, l) = 0
<1>1. E \in [1..N -> Entry] /\ l \in DOMAIN S
  BY DEF Books, Covers
<1>2. /\ c[l] \in 1..N /\ Came(S, l) = In(E, c[l]) /\ Went(S, m) = Out(E, N)
  BY <1>1, CoversAdd
<1>3. /\ Credits(S)[l] = E[c[l]].credit /\ S[l].type \in RowType /\ S[l].amount \in Nat
      /\ S[l].type = "UNKNOWN" => S[l].amount = 0
  <2>1. S[l] \in AnyRow
    BY DEF Covers
  <2> QED BY <2>1 DEF Covers, AnyRow
<1>4. Credits(S)[l] = IF S[l].type = "CREDIT" THEN S[l].amount ELSE 0
  BY <1>1 DEF Credits
<1>5. In(E, c[l]) \in Nat /\ Out(E, N) \in Nat
  <2>1. c[l] \in 0..N /\ N \in 0..N
    BY <1>2
  <2> QED BY <1>1, <2>1, EntriesGrow
<1>6. CASE S[l].type = "CREDIT"
  BY <1>2, <1>3, <1>4, <1>6 DEF AmountAfter, LeftOf
<1>7. CASE S[l].type # "CREDIT"
  <2>1. LeftOf(E, N, c[l]) = 0
    <3>1. E[c[l]].credit = 0
      BY <1>3, <1>4, <1>7
    <3> QED BY <1>5, <3>1 DEF LeftOf, Remains
  <2>2. AmountAfter(S, m, l) = 0
    <3>1. l <= m
      OBVIOUS
    <3> QED BY <1>3, <1>7, <3>1 DEF AmountAfter, RowType
  <2> QED BY <1>2, <1>7, <2>1, <2>2
<1> QED BY <1>2, <1>6, <1>7

\* What is left when the next period begins are entries without debits.
LEMMA CarriedTyped ==
    ASSUME NEW N \in Nat, NEW E \in [1..N -> Entry]
    PROVE  /\ Carried(E, N) \in [1..N -> Entry]
           /\ \A i \in 1..N : /\ Carried(E, N)[i].credit = LeftOf(E, N, i)
                              /\ Carried(E, N)[i].debit = 0
                              /\ Carried(E, N)[i].date = E[i].date
                              /\ Carried(E, N)[i].days = E[i].days
<1>1. ASSUME NEW i \in 1..N
      PROVE  /\ Carried(E, N)[i] \in Entry
             /\ Carried(E, N)[i].credit = LeftOf(E, N, i) /\ Carried(E, N)[i].debit = 0
             /\ Carried(E, N)[i].date = E[i].date /\ Carried(E, N)[i].days = E[i].days
  <2>1. LeftOf(E, N, i) \in Nat /\ E[i].date \in Int /\ E[i].days \in Int
    BY LeftTyped, EntriesGrow
  <2> QED BY <2>1 DEF Carried, Entry
<1>2. Carried(E, N) = [i \in 1..N |-> Carried(E, N)[i]]
  BY DEF Carried
<1> HIDE DEF Carried
<1> QED BY <1>1, <1>2

\* What the debits leave of the rows.
LEMMA AfterIs ==
    ASSUME NEW m \in Nat, NEW S, Solvent(S, m), NEW i \in 1..m
    PROVE  /\ After(S, m)[i] \in AnyRow
           /\ After(S, m)[i].amount = AmountAfter(S, m, i)
           /\ After(S, m)[i].type = S[i].type
           /\ After(S, m)[i].date = S[i].date
           /\ After(S, m)[i].days = S[i].days
           /\ After(S, m)[i].balance = S[i].balance
<1> DEFINE a == [x \in DOMAIN S |-> AmountAfter(S, m, x)]
<1>1. S \in [1..m -> AnyRow] /\ \A j \in 1..m : a[j] \in Nat
  <2>1. m \in 0..m /\ S \in [1..m -> AnyRow]
    BY DEF Solvent
  <2> QED BY <2>1, AfterTyped
<1>2. After(S, m) = WithAmounts(S, a) /\ a[i] = AmountAfter(S, m, i)
  BY <1>1 DEF After
<1> HIDE DEF a
<1>3. WithAmounts(S, a) \in [1..m -> AnyRow] /\ WithAmounts(S, a)[i] = [S[i] EXCEPT !.amount = a[i]]
  BY <1>1, WithAmountsTyped
<1>4. S[i] \in AnyRow /\ After(S, m)[i] \in AnyRow
  BY <1>1, <1>2, <1>3
<1>5. After(S, m)[i] = [S[i] EXCEPT !.amount = a[i]]
  BY <1>2, <1>3
<1> QED BY <1>2, <1>4, <1>5 DEF AnyRow

\* The rows with something left.
LeftRows(S) == OnlyAt(Offset(S), {i \in DOMAIN Offset(S) : Offset(S)[i].amount # 0})

\* Of the rows, those with something left cover what is carried.
LEMMA SettledIs ==
    ASSUME NEW N \in Nat, NEW E, Books(E, N), NEW m \in Nat, NEW S, NEW c, NEW B,
           Covers(S, m, c, E, N, B)
    PROVE  \E a \in Nat : \E r : /\ Covers(LeftRows(S), a, r, Carried(E, N), N, B)
                                 /\ \A j \in 1..a : LeftRows(S)[j].type = "CREDIT"
<1> DEFINE left == LeftRows(S)
           A == After(S, m)
           C == Carried(E, N)
           places == {i \in 1..m : A[i].amount # 0}
<1>1. Solvent(S, m) /\ Offset(S) = A /\ A \in [1..m -> AnyRow] /\ DOMAIN A = 1..m
  <2>1. Solvent(S, m)
    BY CoversSolvent
  <2>2. m \in 0..m
    OBVIOUS
  <2>3. A \in [1..m -> AnyRow]
    BY <2>1, <2>2, AfterTyped
  <2> QED BY <2>1, <2>3, OffsetIs
<1>2. left = OnlyAt(A, places)
  BY <1>1 DEF LeftRows
<1> HIDE DEF left
<1>3. \A i \in 1..m : /\ A[i] \in AnyRow /\ A[i].amount = AmountAfter(S, m, i)
                      /\ A[i].type = S[i].type /\ A[i].date = S[i].date
                      /\ A[i].days = S[i].days /\ A[i].balance = S[i].balance
  BY <1>1, AfterIs
<1> HIDE DEF A
<1>4a. PICK a \in Nat : \E p : IsPart(left, A, places, p, a, m)
  <2>1. places \in SUBSET (1..m)
    OBVIOUS
  <2> HIDE DEF places
  <2> QED BY <1>1, <1>2, <2>1, OnlyAtIsPart
<1>4. PICK p : IsPart(left, A, places, p, a, m)
  BY <1>4a
<1>5. /\ p \in [1..a -> 1..m] /\ \A i, j \in 1..a : i < j => p[i] < p[j]
      /\ Picked(p, a) = places /\ left = [j \in 1..a |-> A[p[j]]]
  BY <1>4 DEF IsPart, Picks
<1>6. /\ c \in [1..m -> 1..N] /\ \A i, j \in 1..m : i < j => c[i] < c[j]
      /\ \A l \in 1..m : /\ S[l].date = E[c[l]].date /\ S[l].days = E[c[l]].days
                         /\ S[l].balance = B
      /\ \A i \in (1..N) \ Picked(c, m) : E[i].credit = 0
  BY DEF Covers, Picks
<1>7. E \in [1..N -> Entry]
  BY DEF Books
<1>8. /\ C \in [1..N -> Entry]
      /\ \A i \in 1..N : /\ C[i].credit = LeftOf(E, N, i) /\ C[i].debit = 0
                         /\ C[i].date = E[i].date /\ C[i].days = E[i].days
  BY <1>7, CarriedTyped
<1>9. \A l \in 1..m : /\ c[l] \in 1..N /\ AmountAfter(S, m, l) = LeftOf(E, N, c[l])
                      /\ S[l].type # "CREDIT" => AmountAfter(S, m, l) = 0
  BY CoversLeft
<1> HIDE DEF C
<1> DEFINE r == [j \in 1..a |-> c[p[j]]]
<1>10. ASSUME NEW j \in 1..a
       PROVE  /\ p[j] \in 1..m /\ A[p[j]].amount # 0 /\ left[j] = A[p[j]]
              /\ left[j] \in AnyRow /\ r[j] = c[p[j]] /\ r[j] \in 1..N
              /\ left[j].type = "CREDIT" /\ left[j].amount = C[r[j]].credit
              /\ left[j].date = C[r[j]].date /\ left[j].days = C[r[j]].days
              /\ left[j].balance = B
  <2>1. p[j] \in 1..m /\ left[j] = A[p[j]] /\ r[j] = c[p[j]]
    BY <1>5
  <2>2. p[j] \in places
    <3>1. p[j] \in Picked(p, a)
      BY DEF Picked
    <3> HIDE DEF places
    <3> QED BY <1>5, <3>1
  <2> DEFINE l == p[j]
  <2>3. l \in 1..m /\ A[l].amount # 0
    BY <2>2
  <2> HIDE DEF l, r
  <2>4. S[l].type = "CREDIT"
    BY <1>3, <1>9, <2>3
  <2>5. c[l] \in 1..N
    BY <1>9, <2>3
  <2>6. A[l].amount = C[c[l]].credit
    BY <1>3, <1>8, <1>9, <2>3, <2>5
  <2>7. A[l].date = C[c[l]].date /\ A[l].days = C[c[l]].days /\ A[l].balance = B
    BY <1>3, <1>6, <1>8, <2>3, <2>5
  <2>8. left[j] = A[l] /\ r[j] = c[l] /\ A[l] \in AnyRow
    BY <1>3, <2>1, <2>3 DEF l
  <2>9. left[j].type = "CREDIT"
    BY <1>3, <2>3, <2>4, <2>8
  <2> QED BY <2>1, <2>3, <2>5, <2>6, <2>7, <2>8, <2>9 DEF l
<1>11. left \in [1..a -> AnyRow] /\ DOMAIN left = 1..a
  BY <1>5, <1>10
<1>12. Picks(r, a, N)
  <2>1. r \in [1..a -> 1..N]
    BY <1>10
  <2>2. ASSUME NEW i \in 1..a, NEW j \in 1..a, i < j PROVE r[i] < r[j]
    <3>1. p[i] < p[j] /\ p[i] \in 1..m /\ p[j] \in 1..m
      BY <1>5, <2>2
    <3> QED BY <1>6, <3>1
  <2> HIDE DEF r
  <2> QED BY <2>1, <2>2 DEF Picks
<1>13. ASSUME NEW i \in (1..N) \ Picked(r, a) PROVE C[i].credit = 0 /\ C[i].debit = 0
  <2>1. LeftOf(E, N, i) = 0
    <3>1. CASE i \in Picked(c, m)
      <4>1. PICK l \in 1..m : i = c[l]
        BY <3>1 DEF Picked
      <4>2. l \notin places
        <5> SUFFICES ASSUME l \in places PROVE FALSE
          OBVIOUS
        <5>1. PICK j \in 1..a : l = p[j]
          <6>1. l \in Picked(p, a)
            BY <1>5
          <6> QED BY <6>1 DEF Picked
        <5>2. r[j] = i
          BY <4>1, <5>1
        <5>3. r[j] \in Picked(r, a)
          <6> HIDE DEF r
          <6> QED BY DEF Picked
        <5> HIDE DEF r
        <5> QED BY <1>13, <5>2, <5>3
      <4>3. A[l].amount = 0
        BY <4>2
      <4> QED BY <1>3, <1>9, <4>1, <4>3
    <3>2. CASE i \notin Picked(c, m)
      <4>1. E[i].credit = 0
        BY <1>6, <3>2
      <4>2. In(E, i) \in Nat /\ Out(E, N) \in Nat
        <5>1. i \in 0..N /\ N \in 0..N
          OBVIOUS
        <5> QED BY <1>7, <5>1, EntriesGrow
      <4> QED BY <4>1, <4>2 DEF LeftOf, Remains
    <3> QED BY <3>1, <3>2
  <2> QED BY <1>8, <2>1
<1>14. ASSUME NEW j \in 1..a
       PROVE  Credits(left)[j] = C[r[j]].credit /\ Debits(left)[j] = C[r[j]].debit
  <2>1. /\ left[j].type = "CREDIT" /\ left[j].amount = C[r[j]].credit /\ r[j] \in 1..N
    BY <1>10
  <2>2. C[r[j]].debit = 0
    <3> HIDE DEF r
    <3> QED BY <1>8, <2>1
  <2> QED BY <1>11, <2>1, <2>2 DEF Credits, Debits
<1> HIDE DEF r
<1>15. Covers(left, a, r, C, N, B)
  <2>1. \A l \in 1..a : /\ Credits(left)[l] = C[r[l]].credit
                        /\ Debits(left)[l] = C[r[l]].debit
                        /\ left[l].date = C[r[l]].date
                        /\ left[l].days = C[r[l]].days
                        /\ left[l].balance = B
                        /\ left[l].type = "UNKNOWN" => left[l].amount = 0
    BY <1>10, <1>14
  <2> QED BY <1>11, <1>12, <1>13, <2>1 DEF Covers
<1>16. \A j \in 1..a : left[j].type = "CREDIT"
  BY <1>10
<1> QED BY <1>15, <1>16 DEF C, left

\* What is left of every entry, by the days it is held.
Weights(E, N) == [i \in 1..N |-> LeftOf(E, N, i) * E[i].days]

\* A product of integers is one.
LEMMA ProductIsInt ==
    ASSUME NEW a \in Int, NEW b \in Int
    PROVE  a * b \in Int /\ 0 * b = 0
  OBVIOUS

\* The rows left weigh what the entries weigh.
LEMMA LeftWeighs ==
    ASSUME NEW N \in Nat, NEW E \in [1..N -> Entry], NEW a \in Nat, NEW left, NEW r, NEW B,
           Covers(left, a, r, Carried(E, N), N, B), \A j \in 1..a : left[j].type = "CREDIT"
    PROVE  Sum([i \in DOMAIN left |-> left[i].amount * left[i].days])
           = SumFunctionOnSet(Weights(E, N), 1..N)
<1> DEFINE C == Carried(E, N)
           g == [i \in DOMAIN left |-> left[i].amount * left[i].days]
           f == Weights(E, N)
<1>1. /\ C \in [1..N -> Entry]
      /\ \A i \in 1..N : /\ C[i].credit = LeftOf(E, N, i) /\ C[i].days = E[i].days
  BY CarriedTyped
<1>2. \A i \in 1..N : C[i].credit \in Nat /\ C[i].days \in Int
  BY <1>1, EntriesGrow
<1> HIDE DEF C
<1>3. /\ left \in [1..a -> AnyRow] /\ Picks(r, a, N) /\ r \in [1..a -> 1..N]
      /\ \A j \in 1..a : Credits(left)[j] = C[r[j]].credit /\ left[j].days = C[r[j]].days
      /\ \A i \in (1..N) \ Picked(r, a) : C[i].credit = 0
  BY DEF Covers, Picks, C
<1>4. \A i \in 1..N : f[i] = C[i].credit * C[i].days
  BY <1>1 DEF Weights
<1>5. DOMAIN left = 1..a /\ \A j \in 1..a : g[j] = C[r[j]].credit * C[r[j]].days
  <2>1. DOMAIN left = 1..a
    BY <1>3
  <2>2. ASSUME NEW j \in 1..a PROVE g[j] = C[r[j]].credit * C[r[j]].days
    <3>1. Credits(left)[j] = left[j].amount
      BY <2>1 DEF Credits
    <3>2. left[j].amount = C[r[j]].credit /\ left[j].days = C[r[j]].days
      BY <1>3, <3>1
    <3>3. g[j] = left[j].amount * left[j].days
      BY <2>1
    <3> HIDE DEF g
    <3> QED BY <3>2, <3>3
  <2> QED BY <2>1, <2>2
<1>6. g = [j \in 1..a |-> g[j]]
  BY <1>5
<1> HIDE DEF f, g
<1>7. \A i \in 1..N : f[i] \in Int
  <2> SUFFICES ASSUME NEW i \in 1..N PROVE f[i] \in Int
    OBVIOUS
  <2>1. C[i].credit \in Int /\ C[i].days \in Int
    BY <1>2
  <2> QED BY <1>4, <2>1, ProductIsInt
<1>8. \A i \in (1..N) \ Picked(r, a) : f[i] = 0
  <2> SUFFICES ASSUME NEW i \in (1..N) \ Picked(r, a) PROVE f[i] = 0
    OBVIOUS
  <2>1. C[i].credit = 0 /\ C[i].days \in Int /\ i \in 1..N
    BY <1>2, <1>3
  <2> QED BY <1>4, <2>1, ProductIsInt
<1>9. \A j \in 1..a : g[j] = f[r[j]] /\ r[j] \in 1..N
  BY <1>3, <1>4, <1>5
<1>10. SumFunctionOnSet(g, 1..a) = SumFunctionOnSet(f, 1..N)
  <2>1. \A j \in 1..a : g[j] = f[r[j]]
    BY <1>9
  <2> QED BY <1>3, <1>7, <1>8, <2>1, SumOfPicked
<1>11. g \in [1..a -> Int]
  <2>1. \A j \in 1..a : g[j] \in Int
    BY <1>7, <1>9
  <2> QED BY <1>6, <2>1
<1>12. Sum(g) = SumFunctionOnSet(g, 1..a)
  BY <1>11, SumIsSum
<1> QED BY <1>10, <1>12 DEF f, g

\* The rows of a wallet say that it holds what came in less what went out.
LEMMA RowsSay ==
    ASSUME NEW m \in Nat, NEW S \in [1..m -> AnyRow]
    PROVE  BalanceCheck(S) = Came(S, m) - Went(S, m)
<1> DEFINE g == [i \in DOMAIN S |-> CASE S[i].type = "CREDIT" -> S[i].amount
                                      [] S[i].type = "DEBIT"  -> -S[i].amount
                                      [] OTHER                -> 0]
           cr == Credits(S)
           db == Debits(S)
<1>1. ASSUME NEW i \in 1..m
      PROVE  g[i] \in Int /\ cr[i] \in Int /\ db[i] \in Int /\ cr[i] = g[i] + db[i]
  <2>1. S[i].amount \in Nat /\ S[i].type \in RowType /\ i \in DOMAIN S
    BY DEF AnyRow
  <2>2. CASE S[i].type = "CREDIT"
    <3>1. g[i] = S[i].amount /\ cr[i] = S[i].amount /\ db[i] = 0
      BY <2>1, <2>2 DEF Credits, Debits
    <3> QED BY <2>1, <3>1
  <2>3. CASE S[i].type = "DEBIT"
    <3>1. g[i] = -S[i].amount /\ cr[i] = 0 /\ db[i] = S[i].amount
      BY <2>1, <2>3 DEF Credits, Debits
    <3> QED BY <2>1, <3>1
  <2>4. CASE S[i].type # "CREDIT" /\ S[i].type # "DEBIT"
    <3>1. g[i] = 0 /\ cr[i] = 0 /\ db[i] = 0
      BY <2>1, <2>4 DEF Credits, Debits
    <3> QED BY <3>1
  <2> QED BY <2>2, <2>3, <2>4
<1>2. BalanceCheck(S) = Sum(g) /\ g = [i \in 1..m |-> g[i]]
  BY DEF BalanceCheck
<1> HIDE DEF g, cr, db
<1>3. g \in [1..m -> Int]
  <2>1. \A i \in 1..m : g[i] \in Int
    BY <1>1
  <2> QED BY <1>2, <2>1
<1>4. Sum(g) = SumFunctionOnSet(g, 1..m)
  BY <1>3, SumIsSum
<1>5. IsFiniteSet(1..m)
  <2>1. 1 \in Int /\ m \in Int
    OBVIOUS
  <2> QED BY <2>1, FS_Interval
<1>6. /\ SumFunctionOnSet(g, 1..m) \in Int /\ SumFunctionOnSet(db, 1..m) \in Int
      /\ SumFunctionOnSet(cr, 1..m) = SumFunctionOnSet(g, 1..m) + SumFunctionOnSet(db, 1..m)
  <2>1. \A i \in 1..m : g[i] \in Int /\ db[i] \in Int /\ cr[i] = g[i] + db[i]
    BY <1>1
  <2>2. SumFunctionOnSet(g, 1..m) \in Int /\ SumFunctionOnSet(db, 1..m) \in Int
    BY <1>5, <2>1, SumIsInt
  <2> QED BY <1>5, <2>1, <2>2, SumPlus
<1> QED BY <1>2, <1>4, <1>6 DEF Came, Went, cr, db

\* What finalCalculations makes of rows that cover the entries.
LEMMA FinalIs ==
    ASSUME NEW N \in Nat, NEW E, Books(E, N), NEW m \in Nat, NEW rows, NEW c, NEW B,
           Covers(SortByDate(rows), m, c, E, N, B)
    PROVE  /\ \E a \in Nat : \E r :
                  /\ Covers(FinalCalculations(rows).rows, a, r, Carried(E, N), N, B)
                  /\ \A j \in 1..a : FinalCalculations(rows).rows[j].type = "CREDIT"
           /\ FinalCalculations(rows).finalAmount = SumFunctionOnSet(Weights(E, N), 1..N)
           /\ B = In(E, N) - Out(E, N) => ~FinalCalculations(rows).error
<1> DEFINE S == SortByDate(rows)
           left == LeftRows(S)
           F == FinalCalculations(rows)
<1>1. /\ F.rows = left
      /\ F.finalAmount = Sum([i \in DOMAIN left |-> left[i].amount * left[i].days])
      /\ F.error = (left # <<>> /\ Last(left).balance # BalanceCheck(S))
  <2> HIDE DEF S
  <2>1. F = [rows |-> left,
             finalAmount |-> Sum([i \in DOMAIN left |-> left[i].amount * left[i].days]),
             error |-> left # <<>> /\ Last(left).balance # BalanceCheck(S)]
    BY DEF FinalCalculations, LeftRows, S
  <2> HIDE DEF F, left
  <2> QED BY <2>1
<1> HIDE DEF F
<1>2a. PICK a \in Nat : \E r : /\ Covers(left, a, r, Carried(E, N), N, B)
                               /\ \A j \in 1..a : left[j].type = "CREDIT"
  <2> HIDE DEF S
  <2>1. Covers(S, m, c, E, N, B)
    BY DEF S
  <2> QED BY <2>1, SettledIs
<1>2. PICK r : /\ Covers(left, a, r, Carried(E, N), N, B)
               /\ \A j \in 1..a : left[j].type = "CREDIT"
  BY <1>2a
<1> HIDE DEF left
<1>3. E \in [1..N -> Entry]
  BY DEF Books
<1>4. F.finalAmount = SumFunctionOnSet(Weights(E, N), 1..N)
  BY <1>1, <1>2, <1>3, LeftWeighs
<1>5. ASSUME B = In(E, N) - Out(E, N), left # <<>> PROVE Last(left).balance = BalanceCheck(S)
  <2>1. Came(S, m) = In(E, N) /\ Went(S, m) = Out(E, N) /\ S \in [1..m -> AnyRow]
    <3>1. Covers(S, m, c, E, N, B)
      OBVIOUS
    <3>2. S \in [1..m -> AnyRow]
      BY <3>1 DEF Covers
    <3> HIDE DEF S
    <3> QED BY <1>3, <3>1, <3>2, CoversAdd
  <2>2. BalanceCheck(S) = B
    <3> HIDE DEF S
    <3> QED BY <1>5, <2>1, RowsSay
  <2>3. left \in [1..a -> AnyRow] /\ \A l \in 1..a : left[l].balance = B
    BY <1>2 DEF Covers
  <2>4. Len(left) \in 1..a
    <3>1. left \in Seq(AnyRow) /\ Len(left) = a
      BY <2>3
    <3>2. Len(left) # 0
      BY <1>5, <3>1, EmptySeq
    <3> QED BY <3>1, <3>2
  <2> QED BY <2>2, <2>3, <2>4 DEF Last
<1>6. B = In(E, N) - Out(E, N) => ~F.error
  BY <1>1, <1>5
<1> QED BY <1>1, <1>2, <1>4, <1>6 DEF F

(***************************************************************************)
(* The rows of a history, and the entries of a run.                        *)
(***************************************************************************)

\* The transactions there can be.
AnyTxn == [pre : Nat, post : Nat, date : Int, failed : BOOLEAN]

\* What a transaction takes from the wallet.
Sent(t) == IF t.post < t.pre THEN t.pre - t.post ELSE 0

\* Transactions by date, of which those that fail change nothing.
PastOf(h, n) ==
    /\ h \in [1..n -> AnyTxn]
    /\ \A i \in 1..n : h[i].failed => h[i].post = h[i].pre
    /\ \A i, j \in 1..n : i < j => h[i].date < h[j].date

\* The row of a transaction is a credit of what it brings or a debit of what it takes.
LEMMA RowOfTxn ==
    ASSUME NEW t \in AnyTxn, NEW end \in Int
    PROVE  /\ RowOf(t, end) \in AnyRow
           /\ RowOf(t, end).date = t.date
           /\ RowOf(t, end).days = DaysBetween(t.date, end)
           /\ (IF RowOf(t, end).type = "CREDIT" THEN RowOf(t, end).amount ELSE 0) = Received(t)
           /\ (IF RowOf(t, end).type = "DEBIT" THEN RowOf(t, end).amount ELSE 0) = Sent(t)
           /\ RowOf(t, end).type = "UNKNOWN" => RowOf(t, end).amount = 0
           /\ Received(t) \in Nat /\ Sent(t) \in Nat /\ DaysBetween(t.date, end) \in Int
<1>1. t.pre \in Nat /\ t.post \in Nat /\ t.date \in Int /\ t.pre # Absent
  BY DEF AnyTxn, Absent
<1>2. DaysBetween(t.date, end) \in Int
  <2>1. end - t.date \in Int
    BY <1>1
  <2>2. (end - t.date) \div 2 \in Int
    BY <2>1
  <2> QED BY <2>2 DEF DaysBetween
<1> DEFINE ty == IF t.post > t.pre THEN "CREDIT" ELSE IF t.post < t.pre THEN "DEBIT" ELSE "UNKNOWN"
           am == IF t.post > t.pre THEN t.post - t.pre ELSE t.pre - t.post
           da == DaysBetween(t.date, end)
<1>3. RowOf(t, end) = [type |-> ty, amount |-> am, date |-> t.date, days |-> da, balance |-> 0]
  BY <1>1 DEF RowOf
<1>4. ty \in RowType /\ am \in Nat
  BY <1>1 DEF RowType
<1>5. /\ (IF ty = "CREDIT" THEN am ELSE 0) = Received(t)
      /\ (IF ty = "DEBIT" THEN am ELSE 0) = Sent(t)
      /\ ty = "UNKNOWN" => am = 0
      /\ Received(t) \in Nat /\ Sent(t) \in Nat
  BY <1>1 DEF Received, Sent
<1> DEFINE r == RowOf(t, end)
<1>6. da \in Int
  BY <1>2
<1> HIDE DEF ty, am, da, r
<1>7. r = [type |-> ty, amount |-> am, date |-> t.date, days |-> da, balance |-> 0]
  BY <1>3 DEF r
<1>8. r \in AnyRow /\ r.date = t.date /\ r.days = da /\ r.type = ty /\ r.amount = am
  BY <1>1, <1>4, <1>6, <1>7 DEF AnyRow
<1> QED BY <1>2, <1>5, <1>8 DEF r, da

\* The rows of what happened at the places p of a history, from the newest on.
RowsAt(h, p, m, end) == [k \in 1..m |-> RowOf(h[p[m + 1 - k]], end)]

\* The rows of a history are those of what did not fail, from the newest on.
LEMMA NewRowsAre ==
    ASSUME NEW n \in Nat, NEW h, PastOf(h, n), NEW end \in Int
    PROVE  \E m \in Nat : \E p :
               /\ Picks(p, m, n)
               /\ \A i \in (1..n) \ Picked(p, m) : h[i].failed
               /\ NewRows(Reverse(h), end) = RowsAt(h, p, m, end)
<1>1. h \in [1..n -> AnyTxn] /\ h \in Seq(AnyTxn) /\ Len(h) = n
  BY DEF PastOf
<1> DEFINE rev == Reverse(h)
           places == {i \in DOMAIN rev : ~rev[i].failed /\ rev[i].post # Absent}
           counted == OnlyAt(rev, places)
<1>2. rev = [i \in 1..n |-> h[(n - i) + 1]]
  BY <1>1 DEF Reverse
<1>3. rev \in [1..n -> AnyTxn] /\ DOMAIN rev = 1..n /\ \A i \in 1..n : rev[i] = h[(n - i) + 1]
  <2>1. \A i \in 1..n : (n - i) + 1 \in 1..n
    OBVIOUS
  <2> HIDE DEF rev
  <2> QED BY <1>1, <1>2, <2>1
<1>4. NewRows(rev, end) = [i \in DOMAIN counted |-> RowOf(counted[i], end)]
  BY DEF NewRows
<1> HIDE DEF rev
<1>5. \A i \in 1..n : i \in places <=> ~rev[i].failed
  <2>1. \A i \in 1..n : rev[i].post # Absent
    BY <1>3 DEF AnyTxn, Absent
  <2> QED BY <1>3, <2>1
<1>6a. PICK m \in Nat : \E q : IsPart(counted, rev, places, q, m, n)
  <2>1. places \in SUBSET (1..n)
    BY <1>3
  <2> HIDE DEF places
  <2> QED BY <1>3, <2>1, OnlyAtIsPart
<1>6. PICK q : IsPart(counted, rev, places, q, m, n)
  BY <1>6a
<1>7. /\ q \in [1..m -> 1..n] /\ \A i, j \in 1..m : i < j => q[i] < q[j]
      /\ Picked(q, m) = places /\ counted = [j \in 1..m |-> rev[q[j]]]
  <2> HIDE DEF counted, places
  <2> QED BY <1>6 DEF IsPart, Picks
<1> HIDE DEF places, counted
<1> DEFINE p == [l \in 1..m |-> n + 1 - q[m + 1 - l]]
<1>8. \A l \in 1..m : m + 1 - l \in 1..m /\ q[m + 1 - l] \in 1..n /\ p[l] \in 1..n
                      /\ p[l] = n + 1 - q[m + 1 - l]
  <2> SUFFICES ASSUME NEW l \in 1..m
               PROVE  m + 1 - l \in 1..m /\ q[m + 1 - l] \in 1..n /\ p[l] \in 1..n
                      /\ p[l] = n + 1 - q[m + 1 - l]
    OBVIOUS
  <2>1. m + 1 - l \in 1..m /\ p[l] = n + 1 - q[m + 1 - l]
    OBVIOUS
  <2>2. q[m + 1 - l] \in 1..n
    BY <1>7, <2>1
  <2> HIDE DEF p
  <2> QED BY <2>1, <2>2
<1>9. Picks(p, m, n)
  <2>1. p \in [1..m -> 1..n]
    BY <1>8
  <2>2. ASSUME NEW i \in 1..m, NEW j \in 1..m, i < j PROVE p[i] < p[j]
    <3>1. m + 1 - j < m + 1 - i /\ m + 1 - j \in 1..m /\ m + 1 - i \in 1..m
      BY <2>2
    <3>2. q[m + 1 - j] < q[m + 1 - i]
      BY <1>7, <3>1
    <3> HIDE DEF p
    <3> QED BY <1>8, <3>2
  <2> HIDE DEF p
  <2> QED BY <2>1, <2>2 DEF Picks
<1>10. ASSUME NEW i \in (1..n) \ Picked(p, m) PROVE h[i].failed
  <2> DEFINE k == n + 1 - i
  <2>1. k \in 1..n /\ (n - k) + 1 = i
    OBVIOUS
  <2>2. rev[k] = h[i]
    BY <1>3, <2>1
  <2>3. ASSUME k \in places PROVE FALSE
    <3>1. PICK j \in 1..m : k = q[j]
      BY <1>7, <2>3 DEF Picked
    <3>2. m + 1 - j \in 1..m /\ m + 1 - (m + 1 - j) = j
      OBVIOUS
    <3>3. p[m + 1 - j] = n + 1 - q[j]
      BY <3>2
    <3>4. p[m + 1 - j] = i
      BY <3>1, <3>3
    <3>5. i \in Picked(p, m)
      <4> HIDE DEF p
      <4> QED BY <3>2, <3>4 DEF Picked
    <3> QED BY <1>10, <3>5
  <2> HIDE DEF k
  <2>4. h[i] \in AnyTxn
    BY <1>1
  <2>5. h[i].failed \in BOOLEAN
    BY <2>4 DEF AnyTxn
  <2> QED BY <1>5, <2>1, <2>2, <2>3, <2>5
<1>11. NewRows(rev, end) = [k \in 1..m |-> RowOf(h[p[m + 1 - k]], end)]
  <2>1. DOMAIN counted = 1..m
    BY <1>7
  <2>2. ASSUME NEW k \in 1..m PROVE counted[k] = h[p[m + 1 - k]]
    <3>1. counted[k] = rev[q[k]] /\ q[k] \in 1..n
      BY <1>7
    <3>2. rev[q[k]] = h[(n - q[k]) + 1]
      BY <1>3, <3>1
    <3>3. m + 1 - k \in 1..m /\ m + 1 - (m + 1 - k) = k
      OBVIOUS
    <3>4. p[m + 1 - k] = n + 1 - q[k]
      BY <3>3
    <3>5. (n - q[k]) + 1 = n + 1 - q[k]
      BY <3>1
    <3> HIDE DEF p
    <3> QED BY <3>1, <3>2, <3>4, <3>5
  <2> HIDE DEF p
  <2> QED BY <1>4, <2>1, <2>2
<1> HIDE DEF p
<1> QED BY <1>9, <1>10, <1>11 DEF rev, RowsAt

\* The days a whole period adds.
WholePeriod == DaysBetween(0, PeriodLength - 1)

\* A row a period later.
AgedRow(t) == [t EXCEPT !.days = @ + WholePeriod]

\* Two rows that differ at most in their balances.
SameButBalance(r, t) ==
    r.type = t.type /\ r.amount = t.amount /\ r.date = t.date /\ r.days = t.days

\* A whole period adds a number of days.
LEMMA WholePeriodTyped == WholePeriod \in Int
<1>1. PeriodDays \in Nat
  BY InputAssumption
<1>2. (PeriodLength - 1) - 0 \in Int
  BY <1>1 DEF PeriodLength
<1>3. ((PeriodLength - 1) - 0) \div 2 \in Int
  BY <1>2
<1> QED BY <1>3 DEF WholePeriod, DaysBetween

\* The rows of a run, of what happened at the places p of a history.
RunOf(old, h, p, m, end) == WithBalance(Aged(old) \o RowsAt(h, p, m, end), Reverse(h))

\* The balance after the first n transactions.
NewestBalance(h, n, B0) == IF n = 0 THEN B0 ELSE h[n].post

\* R are a run's rows: the old ones, aged, then the new ones, all with balance B.
RunAre(R, old, a, h, p, m, end, B) ==
    /\ R \in [1..(a + m) -> AnyRow]
    /\ \A k \in 1..(a + m) : R[k].balance = B
    /\ \A k \in 1..a : SameButBalance(R[k], AgedRow(old[k]))
    /\ \A k \in (a + 1)..(a + m) : SameButBalance(R[k], RowOf(h[p[m + 1 - (k - a)]], end))

\* The rows of a run: what is left of earlier periods, aged, then the new ones,
\* all with the newest balance.
LEMMA RunRows ==
    ASSUME NEW a \in Nat, NEW old \in [1..a -> AnyRow], NEW B0, \A k \in 1..a : old[k].balance = B0,
           NEW n \in Nat, NEW h, PastOf(h, n), NEW end \in Int,
           NewestBalance(h, n, B0) \in Int, NEW m \in Nat, NEW p, Picks(p, m, n)
    PROVE  RunAre(RunOf(old, h, p, m, end), old, a, h, p, m, end, NewestBalance(h, n, B0))
<1> DEFINE B == NewestBalance(h, n, B0)
           new == RowsAt(h, p, m, end)
           R == RunOf(old, h, p, m, end)
           older == Aged(old)
           X == older \o new
<1>0. R = WithBalance(Aged(old) \o new, Reverse(h)) /\ B = NewestBalance(h, n, B0) /\ B \in Int
  BY DEF RunOf
<1> HIDE DEF R, B
<1>1. /\ older \in [1..a -> AnyRow]
      /\ \A k \in 1..a : older[k] = [old[k] EXCEPT !.days = @ + WholePeriod]
  <2>1. older = [k \in 1..a |-> [old[k] EXCEPT !.days = @ + WholePeriod]]
    BY DEF Aged, WholePeriod
  <2>2. ASSUME NEW k \in 1..a PROVE [old[k] EXCEPT !.days = @ + WholePeriod] \in AnyRow
    <3>1. old[k] \in AnyRow /\ WholePeriod \in Int
      BY WholePeriodTyped
    <3>2. old[k].days + WholePeriod \in Int
      BY <3>1 DEF AnyRow
    <3> QED BY <3>1, <3>2 DEF AnyRow
  <2> HIDE DEF older
  <2> QED BY <2>1, <2>2
<1>2. /\ h \in [1..n -> AnyTxn] /\ p \in [1..m -> 1..n]
  BY DEF PastOf, Picks
<1>3. /\ new \in [1..m -> AnyRow]
      /\ \A k \in 1..m : new[k] = RowOf(h[p[m + 1 - k]], end)
  <2>1. ASSUME NEW k \in 1..m PROVE RowOf(h[p[m + 1 - k]], end) \in AnyRow
    <3>1. m + 1 - k \in 1..m
      OBVIOUS
    <3>2. h[p[m + 1 - k]] \in AnyTxn
      BY <1>2, <3>1
    <3> QED BY <3>2, RowOfTxn
  <2> QED BY <2>1 DEF RowsAt
<1> HIDE DEF older, new
<1>4. /\ X \in [1..(a + m) -> AnyRow]
      /\ \A k \in 1..(a + m) : X[k] = IF k <= a THEN older[k] ELSE new[k - a]
  <2>1. older \in Seq(AnyRow) /\ Len(older) = a
    <3>1. older \in [1..a -> AnyRow]
      BY <1>1
    <3> QED BY <3>1
  <2>2. new \in Seq(AnyRow) /\ Len(new) = m
    <3>1. new \in [1..m -> AnyRow]
      BY <1>3
    <3> DEFINE N == new
    <3> HIDE DEF N
    <3>2. N \in [1..m -> AnyRow]
      BY <3>1 DEF N
    <3>3. N \in Seq(AnyRow) /\ Len(N) = m
      BY ONLY m \in Nat, <3>2
    <3> QED BY <3>3 DEF N
  <2>3. /\ X \in Seq(AnyRow) /\ Len(X) = a + m
        /\ \A k \in 1..(a + m) : X[k] = IF k <= a THEN older[k] ELSE new[k - a]
    BY <2>1, <2>2, ConcatProperties
  <2> HIDE DEF X
  <2>4. X \in [1..(a + m) -> AnyRow]
    BY <2>3
  <2> QED BY <2>3, <2>4
<1> HIDE DEF X
<1>5. Reverse(h) = [i \in 1..n |-> h[(n - i) + 1]]
  <2>1. Len(h) = n
    BY <1>2
  <2> QED BY <2>1 DEF Reverse
<1>6. \A k \in 1..a : X[k] = [old[k] EXCEPT !.days = @ + WholePeriod]
  <2> SUFFICES ASSUME NEW k \in 1..a PROVE X[k] = [old[k] EXCEPT !.days = @ + WholePeriod]
    OBVIOUS
  <2>1. k \in 1..(a + m) /\ k <= a
    OBVIOUS
  <2>2. X[k] = older[k]
    BY <1>4, <2>1
  <2> QED BY <1>1, <2>2
<1>7. \A k \in (a + 1)..(a + m) : X[k] = RowOf(h[p[m + 1 - (k - a)]], end)
  <2> SUFFICES ASSUME NEW k \in (a + 1)..(a + m) PROVE X[k] = RowOf(h[p[m + 1 - (k - a)]], end)
    OBVIOUS
  <2>1. k - a \in 1..m /\ ~(k <= a) /\ k \in 1..(a + m)
    OBVIOUS
  <2> QED BY <1>3, <1>4, <2>1
<1>8. /\ R \in [1..(a + m) -> AnyRow]
      /\ \A k \in 1..(a + m) : R[k].balance = B /\ SameButBalance(R[k], X[k])
  <2>1. CASE n = 0
    <3>1. m = 0
      <4>1. m # 0 => p[1] \in 1..n
        BY <1>2
      <4> QED BY <2>1, <4>1
    <3>2. Reverse(h) = <<>>
      BY <1>5, <2>1
    <3>3. R = X
      BY <1>0, <3>2 DEF WithBalance, X, older
    <3>4. \A k \in 1..a : X[k].balance = B0
      <4> SUFFICES ASSUME NEW k \in 1..a PROVE X[k].balance = B0
        OBVIOUS
      <4>1. old[k] \in AnyRow /\ old[k].balance = B0
        OBVIOUS
      <4>2. [old[k] EXCEPT !.days = @ + WholePeriod].balance = old[k].balance
        BY <4>1 DEF AnyRow
      <4> QED BY <1>6, <4>1, <4>2
    <3>5. a + m = a /\ B = B0
      BY <1>0, <2>1, <3>1 DEF NewestBalance
    <3> QED BY <1>4, <3>3, <3>4, <3>5 DEF SameButBalance
  <2>2. CASE n # 0
    <3>1. n \in 1..n /\ 1 \in 1..n /\ (n - 1) + 1 = n
      BY <2>2
    <3>2. Reverse(h)[1] = h[n]
      BY <1>5, <3>1
    <3>3. Reverse(h) # <<>>
      <4>1. Reverse(h) \in Seq(AnyTxn) /\ Len(Reverse(h)) = n
        <5> DEFINE rev == Reverse(h)
        <5>1. rev = [i \in 1..n |-> rev[i]] /\ \A i \in 1..n : rev[i] \in AnyTxn
          <6>1. \A i \in 1..n : (n - i) + 1 \in 1..n
            OBVIOUS
          <6> QED BY <1>2, <1>5, <6>1
        <5> HIDE DEF rev
        <5>2. rev \in [1..n -> AnyTxn]
          BY <5>1
        <5>3. rev \in Seq(AnyTxn) /\ Len(rev) = n
          BY <5>2
        <5> QED BY <5>3 DEF rev
      <4> QED BY <2>2, <4>1, EmptySeq
    <3>4. h[n].post = B /\ B # Absent
      <4>1. h[n] \in AnyTxn
        BY <1>2, <3>1
      <4> QED BY <1>0, <2>2, <4>1 DEF AnyTxn, Absent, NewestBalance
    <3>5. R = [k \in DOMAIN X |-> [X[k] EXCEPT !.balance = B]]
      <4>1. (IF Reverse(h)[1].post = Absent THEN 0 ELSE Reverse(h)[1].post) = B
        BY <3>2, <3>4
      <4>2. R = [k \in DOMAIN X |->
                    [X[k] EXCEPT !.balance = IF Reverse(h)[1].post = Absent THEN 0
                                             ELSE Reverse(h)[1].post]]
        BY <1>0, <3>3 DEF WithBalance, X, older
      <4> QED BY <4>1, <4>2
    <3>6. ASSUME NEW k \in 1..(a + m)
          PROVE  /\ [X[k] EXCEPT !.balance = B] \in AnyRow
                 /\ [X[k] EXCEPT !.balance = B].balance = B
                 /\ SameButBalance([X[k] EXCEPT !.balance = B], X[k])
      <4>1. X[k] \in AnyRow
        BY <1>4
      <4> QED BY <1>0, <4>1 DEF AnyRow, SameButBalance
    <3>7. DOMAIN X = 1..(a + m)
      BY <1>4
    <3>8. R = [k \in 1..(a + m) |-> [X[k] EXCEPT !.balance = B]]
      BY <3>5, <3>7
    <3>9. \A k \in 1..(a + m) : R[k] = [X[k] EXCEPT !.balance = B]
      BY <3>8
    <3>10. \A k \in 1..(a + m) : R[k] \in AnyRow /\ R[k].balance = B /\ SameButBalance(R[k], X[k])
      BY <3>6, <3>9
    <3>11. R = [k \in 1..(a + m) |-> R[k]]
      BY <3>8
    <3>12. R \in [1..(a + m) -> AnyRow]
      BY <3>10, <3>11
    <3> QED BY <3>10, <3>12
  <2> QED BY <2>1, <2>2
<1>9. \A k \in 1..a : k \in 1..(a + m)
  OBVIOUS
<1>10. \A k \in (a + 1)..(a + m) : k \in 1..(a + m)
  OBVIOUS
<1>11. \A k \in 1..a : SameButBalance(R[k], AgedRow(old[k]))
  BY <1>6, <1>8, <1>9 DEF AgedRow
<1>12. \A k \in (a + 1)..(a + m) : SameButBalance(R[k], RowOf(h[p[m + 1 - (k - a)]], end))
  BY <1>7, <1>8, <1>10
<1> QED BY <1>8, <1>11, <1>12 DEF R, B, RunAre

\* The entries of a run: those carried from earlier periods, and a history.
Entries(E0, n0, h, n, end) ==
    [i \in 1..(n0 + n) |->
        IF i <= n0 THEN [E0[i] EXCEPT !.days = @ + WholePeriod]
        ELSE [credit |-> Received(h[i - n0]), debit |-> Sent(h[i - n0]),
              date |-> h[i - n0].date, days |-> DaysBetween(h[i - n0].date, end)]]

\* What there is to know of the entries of a run.
EntriesAre(E, E0, n0, h, n, end) ==
    /\ E \in [1..(n0 + n) -> Entry]
    /\ \A i \in 1..n0 : /\ E[i].credit = E0[i].credit /\ E[i].debit = E0[i].debit
                        /\ E[i].date = E0[i].date /\ E[i].days = E0[i].days + WholePeriod
    /\ \A k \in 1..n : /\ E[n0 + k].credit = Received(h[k]) /\ E[n0 + k].debit = Sent(h[k])
                       /\ E[n0 + k].date = h[k].date
                       /\ E[n0 + k].days = DaysBetween(h[k].date, end)

\* The entries of a run are that.
LEMMA EntriesTyped ==
    ASSUME NEW n0 \in Nat, NEW E0 \in [1..n0 -> Entry], NEW n \in Nat, NEW h, PastOf(h, n),
           NEW end \in Int
    PROVE  EntriesAre(Entries(E0, n0, h, n, end), E0, n0, h, n, end)
<1>1. h \in [1..n -> AnyTxn]
  BY DEF PastOf
<1> DEFINE E == Entries(E0, n0, h, n, end)
           e(i) == IF i <= n0 THEN [E0[i] EXCEPT !.days = @ + WholePeriod]
                   ELSE [credit |-> Received(h[i - n0]), debit |-> Sent(h[i - n0]),
                         date |-> h[i - n0].date, days |-> DaysBetween(h[i - n0].date, end)]
<1>2. E = [i \in 1..(n0 + n) |-> e(i)]
  BY DEF Entries
<1>3. ASSUME NEW i \in 1..n0
      PROVE  /\ i \in 1..(n0 + n) /\ e(i) \in Entry
             /\ e(i).credit = E0[i].credit /\ e(i).debit = E0[i].debit
             /\ e(i).date = E0[i].date /\ e(i).days = E0[i].days + WholePeriod
  <2>1. E0[i] \in Entry /\ WholePeriod \in Int /\ i <= n0 /\ i \in 1..(n0 + n)
    BY WholePeriodTyped
  <2>2. E0[i].days + WholePeriod \in Int
    BY <2>1 DEF Entry
  <2>3. e(i) = [E0[i] EXCEPT !.days = @ + WholePeriod]
    BY <2>1
  <2> HIDE DEF e
  <2> QED BY <2>1, <2>2, <2>3 DEF Entry
<1>4. ASSUME NEW k \in 1..n
      PROVE  /\ n0 + k \in 1..(n0 + n) /\ e(n0 + k) \in Entry
             /\ e(n0 + k).credit = Received(h[k]) /\ e(n0 + k).debit = Sent(h[k])
             /\ e(n0 + k).date = h[k].date /\ e(n0 + k).days = DaysBetween(h[k].date, end)
  <2>1. h[k] \in AnyTxn /\ ~(n0 + k <= n0) /\ (n0 + k) - n0 = k /\ n0 + k \in 1..(n0 + n)
    BY <1>1
  <2>2. /\ Received(h[k]) \in Nat /\ Sent(h[k]) \in Nat /\ DaysBetween(h[k].date, end) \in Int
    BY <2>1, RowOfTxn
  <2>3. h[k].date \in Int
    BY <2>1 DEF AnyTxn
  <2>4. e(n0 + k) = [credit |-> Received(h[k]), debit |-> Sent(h[k]),
                     date |-> h[k].date, days |-> DaysBetween(h[k].date, end)]
    BY <2>1
  <2> HIDE DEF e
  <2> QED BY <2>1, <2>2, <2>3, <2>4 DEF Entry
<1> HIDE DEF e, E
<1>5. ASSUME NEW i \in 1..(n0 + n) PROVE e(i) \in Entry
  <2>1. CASE i <= n0
    <3>1. i \in 1..n0
      BY <2>1
    <3> QED BY <1>3, <3>1
  <2>2. CASE ~(i <= n0)
    <3>1. i - n0 \in 1..n /\ n0 + (i - n0) = i
      BY <2>2
    <3>2. e(n0 + (i - n0)) \in Entry
      BY <1>4, <3>1
    <3> QED BY <3>1, <3>2
  <2> QED BY <2>1, <2>2
<1>6. \A i \in 1..(n0 + n) : E[i] = e(i)
  BY <1>2
<1>7. E \in [1..(n0 + n) -> Entry]
  BY <1>2, <1>5
<1>8. \A i \in 1..n0 : E[i] = e(i)
  BY <1>3, <1>6
<1>9. \A k \in 1..n : E[n0 + k] = e(n0 + k)
  BY <1>4, <1>6
<1>10. \A i \in 1..n0 : /\ E[i].credit = E0[i].credit /\ E[i].debit = E0[i].debit
                        /\ E[i].date = E0[i].date /\ E[i].days = E0[i].days + WholePeriod
  BY <1>3, <1>8
<1>11. \A k \in 1..n : /\ E[n0 + k].credit = Received(h[k]) /\ E[n0 + k].debit = Sent(h[k])
                       /\ E[n0 + k].date = h[k].date
                       /\ E[n0 + k].days = DaysBetween(h[k].date, end)
  BY <1>4, <1>9
<1> QED BY <1>7, <1>10, <1>11 DEF EntriesAre, E

\* The rows of a run, sorted, cover its entries.
LEMMA RunCovers ==
    ASSUME NEW n0 \in Nat, NEW E0 \in [1..n0 -> Entry],
           \A i, j \in 1..n0 : i < j => E0[i].date < E0[j].date,
           NEW a \in Nat, NEW old, NEW r, NEW B0, Covers(old, a, r, E0, n0, B0),
           NEW n \in Nat, NEW h, PastOf(h, n),
           \A i \in 1..n0, j \in 1..n : E0[i].date < h[j].date,
           NEW end \in Int, NewestBalance(h, n, B0) \in Int
    PROVE  \E l \in Nat : \E c :
               Covers(SortByDate(WithBalance(Aged(old) \o NewRows(Reverse(h), end), Reverse(h))),
                      l, c, Entries(E0, n0, h, n, end), n0 + n, NewestBalance(h, n, B0))
<1> DEFINE E == Entries(E0, n0, h, n, end)
           B == NewestBalance(h, n, B0)
           new == NewRows(Reverse(h), end)
           R == WithBalance(Aged(old) \o new, Reverse(h))
           S == SortByDate(R)
<1>1a. PICK m \in Nat : \E p : /\ Picks(p, m, n)
                               /\ \A i \in (1..n) \ Picked(p, m) : h[i].failed
                               /\ new = RowsAt(h, p, m, end)
  BY NewRowsAre
<1>1. PICK p : /\ Picks(p, m, n)
               /\ \A i \in (1..n) \ Picked(p, m) : h[i].failed
               /\ new = RowsAt(h, p, m, end)
  BY <1>1a
<1>2. /\ old \in [1..a -> AnyRow] /\ r \in [1..a -> 1..n0]
      /\ \A i, j \in 1..a : i < j => r[i] < r[j]
      /\ \A k \in 1..a : /\ Credits(old)[k] = E0[r[k]].credit
                         /\ Debits(old)[k] = E0[r[k]].debit
                         /\ old[k].date = E0[r[k]].date
                         /\ old[k].days = E0[r[k]].days
                         /\ old[k].balance = B0
                         /\ old[k].type = "UNKNOWN" => old[k].amount = 0
      /\ \A i \in (1..n0) \ Picked(r, a) : E0[i].credit = 0 /\ E0[i].debit = 0
  BY DEF Covers, Picks
<1>3. /\ h \in [1..n -> AnyTxn]
      /\ \A i \in 1..n : h[i].failed => h[i].post = h[i].pre
      /\ \A i, j \in 1..n : i < j => h[i].date < h[j].date
  BY DEF PastOf
<1>4. p \in [1..m -> 1..n] /\ \A i, j \in 1..m : i < j => p[i] < p[j]
  BY <1>1 DEF Picks
<1> HIDE DEF new
<1>5. /\ R \in [1..(a + m) -> AnyRow]
      /\ \A k \in 1..(a + m) : R[k].balance = B
      /\ \A k \in 1..a : SameButBalance(R[k], AgedRow(old[k]))
      /\ \A k \in (a + 1)..(a + m) : SameButBalance(R[k], RowOf(h[p[m + 1 - (k - a)]], end))
  <2>1. R = RunOf(old, h, p, m, end)
    BY <1>1 DEF RunOf
  <2>2. \A k \in 1..a : old[k].balance = B0
    BY <1>2
  <2>3. old \in [1..a -> AnyRow] /\ Picks(p, m, n)
    BY <1>1, <1>2
  <2>4. RunAre(RunOf(old, h, p, m, end), old, a, h, p, m, end, NewestBalance(h, n, B0))
    BY <2>2, <2>3, RunRows
  <2> HIDE DEF R
  <2> QED BY <2>1, <2>4 DEF RunAre
<1> HIDE DEF R, B
<1>6. /\ E \in [1..(n0 + n) -> Entry]
      /\ \A i \in 1..n0 : /\ E[i].credit = E0[i].credit /\ E[i].debit = E0[i].debit
                          /\ E[i].date = E0[i].date /\ E[i].days = E0[i].days + WholePeriod
      /\ \A k \in 1..n : /\ E[n0 + k].credit = Received(h[k]) /\ E[n0 + k].debit = Sent(h[k])
                         /\ E[n0 + k].date = h[k].date
                         /\ E[n0 + k].days = DaysBetween(h[k].date, end)
  <2>1. EntriesAre(Entries(E0, n0, h, n, end), E0, n0, h, n, end)
    BY EntriesTyped
  <2> QED BY <2>1 DEF EntriesAre
<1> HIDE DEF E
\* What is in the rows: the old ones, and the new ones.
<1>7. ASSUME NEW k \in 1..a
      PROVE  /\ r[k] \in 1..n0 /\ k \in 1..(a + m)
             /\ (IF R[k].type = "CREDIT" THEN R[k].amount ELSE 0) = E[r[k]].credit
             /\ (IF R[k].type = "DEBIT" THEN R[k].amount ELSE 0) = E[r[k]].debit
             /\ R[k].date = E[r[k]].date /\ R[k].days = E[r[k]].days
             /\ R[k].type = "UNKNOWN" => R[k].amount = 0
  <2>1. old[k] \in AnyRow /\ r[k] \in 1..n0 /\ k \in DOMAIN old /\ k \in 1..(a + m)
    BY <1>2
  <2>2. /\ Credits(old)[k] = IF old[k].type = "CREDIT" THEN old[k].amount ELSE 0
        /\ Debits(old)[k] = IF old[k].type = "DEBIT" THEN old[k].amount ELSE 0
    BY <2>1 DEF Credits, Debits
  <2>3. /\ R[k].type = old[k].type /\ R[k].amount = old[k].amount
        /\ R[k].date = old[k].date /\ R[k].days = old[k].days + WholePeriod
    <3>1. SameButBalance(R[k], AgedRow(old[k]))
      BY <1>5
    <3> QED BY <2>1, <3>1 DEF SameButBalance, AgedRow, AnyRow
  <2> QED BY <1>2, <1>6, <2>1, <2>2, <2>3
<1>8. ASSUME NEW k \in 1..m
      PROVE  /\ p[k] \in 1..n /\ a + m + 1 - k \in 1..(a + m)
             /\ (IF R[a + m + 1 - k].type = "CREDIT" THEN R[a + m + 1 - k].amount ELSE 0)
                = E[n0 + p[k]].credit
             /\ (IF R[a + m + 1 - k].type = "DEBIT" THEN R[a + m + 1 - k].amount ELSE 0)
                = E[n0 + p[k]].debit
             /\ R[a + m + 1 - k].date = E[n0 + p[k]].date
             /\ R[a + m + 1 - k].days = E[n0 + p[k]].days
             /\ R[a + m + 1 - k].type = "UNKNOWN" => R[a + m + 1 - k].amount = 0
  <2> DEFINE x == a + m + 1 - k
             t == h[p[k]]
  <2>1. x \in (a + 1)..(a + m) /\ x \in 1..(a + m) /\ m + 1 - (x - a) = k
    OBVIOUS
  <2>2. p[k] \in 1..n /\ t \in AnyTxn
    BY <1>3, <1>4
  <2>3. SameButBalance(R[x], RowOf(t, end))
    BY <1>5, <2>1
  <2>4. /\ E[n0 + p[k]].credit = Received(t) /\ E[n0 + p[k]].debit = Sent(t)
        /\ E[n0 + p[k]].date = t.date /\ E[n0 + p[k]].days = DaysBetween(t.date, end)
    BY <1>6, <2>2
  <2> HIDE DEF x, t
  <2>5. /\ RowOf(t, end).date = t.date
        /\ RowOf(t, end).days = DaysBetween(t.date, end)
        /\ (IF RowOf(t, end).type = "CREDIT" THEN RowOf(t, end).amount ELSE 0) = Received(t)
        /\ (IF RowOf(t, end).type = "DEBIT" THEN RowOf(t, end).amount ELSE 0) = Sent(t)
        /\ RowOf(t, end).type = "UNKNOWN" => RowOf(t, end).amount = 0
    BY <2>2, RowOfTxn
  <2>6. /\ (IF R[x].type = "CREDIT" THEN R[x].amount ELSE 0) = E[n0 + p[k]].credit
        /\ (IF R[x].type = "DEBIT" THEN R[x].amount ELSE 0) = E[n0 + p[k]].debit
        /\ R[x].date = E[n0 + p[k]].date /\ R[x].days = E[n0 + p[k]].days
        /\ R[x].type = "UNKNOWN" => R[x].amount = 0
    BY <2>3, <2>4, <2>5 DEF SameButBalance
  <2> QED BY <2>1, <2>2, <2>6 DEF x
<1>9. OldThenNew(R, a, m)
  <2>1. DOMAIN R = 1..(a + m)
    BY <1>5
  <2>2. ASSUME NEW k \in 1..(a + m) PROVE R[k].date \in Int
    <3>1. R[k] \in AnyRow
      BY <1>5
    <3> QED BY <3>1 DEF AnyRow
  <2>3. ASSUME NEW k \in 1..(a + m), ~(k <= a)
        PROVE  /\ a + m + 1 - k \in 1..m
               /\ R[k].date = E[n0 + p[a + m + 1 - k]].date
               /\ p[a + m + 1 - k] \in 1..n
               /\ R[k].date = h[p[a + m + 1 - k]].date
    <3>1. a + m + 1 - k \in 1..m /\ a + m + 1 - (a + m + 1 - k) = k
      BY <2>3
    <3> DEFINE y == a + m + 1 - k
    <3> HIDE DEF y
    <3>2. y \in 1..m /\ a + m + 1 - y = k
      BY <3>1 DEF y
    <3>3. R[k].date = E[n0 + p[y]].date /\ p[y] \in 1..n
      BY <1>8, <3>2
    <3>4. E[n0 + p[y]].date = h[p[y]].date
      BY <1>6, <3>3
    <3> QED BY <3>2, <3>3, <3>4 DEF y
  <2>4. ASSUME NEW i \in 1..(a + m), NEW j \in 1..(a + m), i < j, i <= a
        PROVE  R[i].date < R[j].date
    <3>1. i \in 1..a
      BY <2>4
    <3>2. r[i] \in 1..n0 /\ R[i].date = E0[r[i]].date
      BY <1>6, <1>7, <3>1
    <3>3. CASE j <= a
      <4>1. j \in 1..a
        BY <3>3
      <4>2. r[j] \in 1..n0 /\ R[j].date = E0[r[j]].date /\ r[i] < r[j]
        BY <1>2, <1>6, <1>7, <2>4, <3>1, <4>1
      <4> QED BY <3>2, <4>2
    <3>4. CASE ~(j <= a)
      <4>1. /\ p[a + m + 1 - j] \in 1..n
            /\ R[j].date = h[p[a + m + 1 - j]].date
        BY <2>3, <3>4
      <4> QED BY <3>2, <4>1
    <3> QED BY <3>3, <3>4
  <2>5. ASSUME NEW i \in 1..(a + m), NEW j \in 1..(a + m), i < j, a < i
        PROVE  R[j].date < R[i].date
    <3>1. ~(i <= a) /\ ~(j <= a) /\ a + m + 1 - j < a + m + 1 - i
      BY <2>5
    <3>2. /\ a + m + 1 - i \in 1..m /\ p[a + m + 1 - i] \in 1..n
          /\ R[i].date = h[p[a + m + 1 - i]].date
      BY <2>3, <3>1
    <3>3. /\ a + m + 1 - j \in 1..m /\ p[a + m + 1 - j] \in 1..n
          /\ R[j].date = h[p[a + m + 1 - j]].date
      BY <2>3, <3>1
    <3>4. p[a + m + 1 - j] < p[a + m + 1 - i]
      BY <1>4, <3>1, <3>2, <3>3
    <3> QED BY <1>3, <3>2, <3>3, <3>4
  <2> QED BY <2>1, <2>2, <2>4, <2>5 DEF OldThenNew
<1> DEFINE x(l) == IF l <= a THEN l ELSE a + m + 1 - (l - a)
           c == [l \in 1..(a + m) |-> IF l <= a THEN r[l] ELSE n0 + p[l - a]]
<1>10. S = [l \in 1..(a + m) |-> R[x(l)]]
  <2>1. SortByDate(R) = [l \in 1..(a + m) |-> R[Chronological(l, a, m)]]
    BY <1>9, Sorts
  <2>2. ASSUME NEW l \in 1..(a + m) PROVE Chronological(l, a, m) = x(l)
    BY DEF Chronological
  <2> HIDE DEF x
  <2> QED BY <2>1, <2>2
<1>11. ASSUME NEW l \in 1..(a + m)
       PROVE  /\ S[l] = R[x(l)] /\ x(l) \in 1..(a + m) /\ c[l] \in 1..(n0 + n)
              /\ l <= a => l \in 1..a /\ c[l] = r[l] /\ r[l] \in 1..n0
              /\ ~(l <= a) => l - a \in 1..m /\ c[l] = n0 + p[l - a] /\ p[l - a] \in 1..n
              /\ (IF R[x(l)].type = "CREDIT" THEN R[x(l)].amount ELSE 0) = E[c[l]].credit
              /\ (IF R[x(l)].type = "DEBIT" THEN R[x(l)].amount ELSE 0) = E[c[l]].debit
              /\ R[x(l)].date = E[c[l]].date /\ R[x(l)].days = E[c[l]].days
              /\ R[x(l)].type = "UNKNOWN" => R[x(l)].amount = 0
  <2>0. S[l] = R[x(l)]
    <3> HIDE DEF x
    <3> QED BY <1>10
  <2>1. CASE l <= a
    <3>1. l \in 1..a /\ x(l) = l /\ c[l] = r[l]
      BY <2>1
    <3>2. r[l] \in 1..n0 /\ r[l] \in 1..(n0 + n)
      BY <1>2, <3>1
    <3> HIDE DEF x, c, S
    <3> QED BY <1>7, <2>0, <2>1, <3>1, <3>2
  <2>2. CASE ~(l <= a)
    <3>1. l - a \in 1..m /\ x(l) = a + m + 1 - (l - a) /\ c[l] = n0 + p[l - a]
      BY <2>2
    <3>2. p[l - a] \in 1..n /\ n0 + p[l - a] \in 1..(n0 + n)
      BY <1>4, <3>1
    <3> DEFINE k == l - a
    <3> HIDE DEF k, x, c, S
    <3>3. /\ k \in 1..m /\ x(l) = a + m + 1 - k /\ c[l] = n0 + p[k]
          /\ p[k] \in 1..n /\ n0 + p[k] \in 1..(n0 + n)
      BY <3>1, <3>2 DEF k
    <3>4. /\ x(l) \in 1..(a + m)
          /\ (IF R[x(l)].type = "CREDIT" THEN R[x(l)].amount ELSE 0) = E[c[l]].credit
          /\ (IF R[x(l)].type = "DEBIT" THEN R[x(l)].amount ELSE 0) = E[c[l]].debit
          /\ R[x(l)].date = E[c[l]].date /\ R[x(l)].days = E[c[l]].days
          /\ R[x(l)].type = "UNKNOWN" => R[x(l)].amount = 0
      BY <1>8, <3>3
    <3> QED BY <2>0, <2>2, <3>3, <3>4 DEF k
  <2> QED BY <2>1, <2>2
<1>12. S \in [1..(a + m) -> AnyRow] /\ DOMAIN S = 1..(a + m)
  <2>1. \A l \in 1..(a + m) : R[x(l)] \in AnyRow
    <3> HIDE DEF x
    <3> QED BY <1>5, <1>11
  <2> HIDE DEF x, S
  <2> QED BY <1>10, <2>1
<1>13. Picks(c, a + m, n0 + n)
  <2>1. c \in [1..(a + m) -> 1..(n0 + n)]
    <3>1. \A l \in 1..(a + m) : c[l] \in 1..(n0 + n)
      BY <1>11
    <3>2. c = [l \in 1..(a + m) |-> c[l]]
      OBVIOUS
    <3> HIDE DEF c
    <3> QED BY <3>1, <3>2
  <2> HIDE DEF c, x, S
  <2>2. ASSUME NEW i \in 1..(a + m), NEW j \in 1..(a + m), i < j PROVE c[i] < c[j]
    <3>1. CASE j <= a
      <4>1. i <= a
        BY <2>2, <3>1
      <4>2. i \in 1..a /\ j \in 1..a /\ c[i] = r[i] /\ c[j] = r[j]
        BY <1>11, <3>1, <4>1
      <4> QED BY <1>2, <2>2, <4>2
    <3>2. CASE i <= a /\ ~(j <= a)
      <4>1. c[i] = r[i] /\ r[i] \in 1..n0
        BY <1>11, <3>2
      <4>2. c[j] = n0 + p[j - a] /\ p[j - a] \in 1..n
        BY <1>11, <3>2
      <4> QED BY <4>1, <4>2
    <3>3. CASE ~(i <= a)
      <4>1. ~(j <= a)
        BY <2>2, <3>3
      <4>2. i - a \in 1..m /\ c[i] = n0 + p[i - a] /\ p[i - a] \in 1..n
        BY <1>11, <3>3
      <4>3. j - a \in 1..m /\ c[j] = n0 + p[j - a] /\ p[j - a] \in 1..n
        BY <1>11, <4>1
      <4>4. i - a < j - a
        BY <2>2
      <4>5. p[i - a] < p[j - a]
        BY <1>4, <4>2, <4>3, <4>4
      <4> QED BY <4>2, <4>3, <4>5
    <3> QED BY <3>1, <3>2, <3>3
  <2> QED BY <2>1, <2>2 DEF Picks
<1>14. ASSUME NEW i \in (1..(n0 + n)) \ Picked(c, a + m) PROVE E[i].credit = 0 /\ E[i].debit = 0
  <2>1. \A l \in 1..(a + m) : c[l] # i
    <3> HIDE DEF c
    <3> QED BY DEF Picked
  <2>2. CASE i <= n0
    <3>1. i \in 1..n0
      BY <2>2
    <3>2. i \notin Picked(r, a)
      <4> SUFFICES ASSUME NEW k \in 1..a, i = r[k] PROVE FALSE
        BY DEF Picked
      <4>1. k \in 1..(a + m) /\ k <= a
        OBVIOUS
      <4>2. c[k] = r[k]
        BY <4>1
      <4> HIDE DEF c
      <4> QED BY <2>1, <4>1, <4>2
    <3> QED BY <1>2, <1>6, <3>1, <3>2
  <2>3. CASE ~(i <= n0)
    <3> DEFINE k == i - n0
    <3>1. k \in 1..n /\ i = n0 + k
      BY <2>3
    <3> HIDE DEF k
    <3>2. k \notin Picked(p, m)
      <4> SUFFICES ASSUME NEW y \in 1..m, k = p[y] PROVE FALSE
        BY DEF Picked
      <4>1. a + y \in 1..(a + m) /\ ~(a + y <= a) /\ (a + y) - a = y
        OBVIOUS
      <4>2. c[a + y] = n0 + p[y]
        BY <4>1
      <4> HIDE DEF c
      <4> QED BY <2>1, <3>1, <4>1, <4>2
    <3>3. h[k].failed
      BY <1>1, <3>1, <3>2
    <3>4. h[k] \in AnyTxn /\ h[k].post = h[k].pre
      BY <1>3, <3>1, <3>3
    <3>5. Received(h[k]) = 0 /\ Sent(h[k]) = 0
      BY <3>4 DEF AnyTxn, Received, Sent
    <3> QED BY <1>6, <3>1, <3>5
  <2> QED BY <2>2, <2>3
<1>15. Covers(S, a + m, c, E, n0 + n, B)
  <2>1. ASSUME NEW l \in 1..(a + m)
        PROVE  /\ Credits(S)[l] = E[c[l]].credit
               /\ Debits(S)[l] = E[c[l]].debit
               /\ S[l].date = E[c[l]].date
               /\ S[l].days = E[c[l]].days
               /\ S[l].balance = B
               /\ S[l].type = "UNKNOWN" => S[l].amount = 0
    <3> HIDE DEF c, x, S
    <3>1. l \in DOMAIN S /\ S[l].balance = B
      BY <1>5, <1>11, <1>12
    <3>2. /\ Credits(S)[l] = IF S[l].type = "CREDIT" THEN S[l].amount ELSE 0
          /\ Debits(S)[l] = IF S[l].type = "DEBIT" THEN S[l].amount ELSE 0
      BY <3>1 DEF Credits, Debits
    <3> QED BY <1>11, <3>1, <3>2
  <2> HIDE DEF c, x, S
  <2> QED BY <1>12, <1>13, <1>14, <2>1 DEF Covers
<1>16. a + m \in Nat
  OBVIOUS
<1> HIDE DEF c, x
<1> QED BY <1>15, <1>16 DEF E, R, S, new, B

(***************************************************************************)
(* A run after another, over two periods: what each leaves, what it weighs, *)
(* and that what came less what went is the wallet's balance.              *)
(***************************************************************************)

\* Every transaction begins with the balance the one before it left.
ChainOf(h, n, b) == \A i \in 1..n : h[i].pre = NewestBalance(h, i - 1, b)

\* E0 are entries of credits, one date after the other, before the n of h.
Earlier(E0, n0, h, n) ==
    /\ E0 \in [1..n0 -> Entry]
    /\ \A i, j \in 1..n0 : i < j => E0[i].date < E0[j].date
    /\ \A i \in 1..n0 : E0[i].debit = 0
    /\ \A i \in 1..n0, j \in 1..n : E0[i].date < h[j].date

\* The entries come to the balances of the transactions.
BalancesAre(E, n0, h, n, b) ==
    \A k \in 0..n : In(E, n0 + k) - Out(E, n0 + k) = NewestBalance(h, k, b)

\* What is left of a run is what its entries carry.
RunCarries(run, E, N, B) == \E x \in Nat : \E c : Covers(run.rows, x, c, Carried(E, N), N, B)

\* A run's result is what its entries weigh, with no error if they come to balance B.
RunWeighs(run, E, N, B) ==
    /\ run.finalAmount = SumFunctionOnSet(Weights(E, N), 1..N)
    /\ B = In(E, N) - Out(E, N) => ~run.error

\* A run: what calculate makes of a history, given what is left of earlier ones.
LEMMA RunIs ==
    ASSUME NEW n0 \in Nat, NEW E0, NEW n \in Nat, NEW h, PastOf(h, n), Earlier(E0, n0, h, n),
           NEW a \in Nat, NEW old, NEW r, NEW B0, Covers(old, a, r, E0, n0, B0),
           NEW end \in Int, NewestBalance(h, n, B0) \in Int,
           NEW E, E = Entries(E0, n0, h, n, end), Books(E, n0 + n)
    PROVE  /\ RunCarries(Calculated(old, Reverse(h), end), E, n0 + n, NewestBalance(h, n, B0))
           /\ RunWeighs(Calculated(old, Reverse(h), end), E, n0 + n, NewestBalance(h, n, B0))
<1> DEFINE R == WithBalance(Aged(old) \o NewRows(Reverse(h), end), Reverse(h))
           N == n0 + n
           B == NewestBalance(h, n, B0)
<1>1a. PICK m \in Nat : \E c : Covers(SortByDate(R), m, c, E, N, B)
  <2>1. /\ E0 \in [1..n0 -> Entry]
        /\ \A i, j \in 1..n0 : i < j => E0[i].date < E0[j].date
        /\ \A i \in 1..n0, j \in 1..n : E0[i].date < h[j].date
    BY DEF Earlier
  <2> QED BY <2>1, RunCovers
<1>1. PICK c : Covers(SortByDate(R), m, c, E, N, B)
  BY <1>1a
<1>2. Calculated(old, Reverse(h), end) = FinalCalculations(R)
  BY DEF Calculated
<1>3. N \in Nat
  OBVIOUS
<1> HIDE DEF R, N, B
<1>4. Books(E, N)
  BY DEF N
<1>5. /\ \E x \in Nat : \E y :
            /\ Covers(FinalCalculations(R).rows, x, y, Carried(E, N), N, B)
            /\ \A j \in 1..x : FinalCalculations(R).rows[j].type = "CREDIT"
      /\ FinalCalculations(R).finalAmount = SumFunctionOnSet(Weights(E, N), 1..N)
      /\ B = In(E, N) - Out(E, N) => ~FinalCalculations(R).error
  BY <1>1, <1>3, <1>4, FinalIs
<1>6. \E x \in Nat : \E y : Covers(Calculated(old, Reverse(h), end).rows, x, y, Carried(E, N), N, B)
  BY <1>2, <1>5
<1> QED BY <1>2, <1>5, <1>6 DEF N, B, RunCarries, RunWeighs

\* What comes in less what goes out is the balance.
LEMMA BalanceOfRun ==
    ASSUME NEW n0 \in Nat, NEW E0, NEW n \in Nat, NEW h, PastOf(h, n), NEW end, NEW E,
           EntriesAre(E, E0, n0, h, n, end), NEW b \in Nat, ChainOf(h, n, b),
           In(E, n0) - Out(E, n0) = b
    PROVE  \A k \in 0..n : In(E, n0 + k) - Out(E, n0 + k) = NewestBalance(h, k, b)
<1> DEFINE K == {k \in Nat : k <= n => In(E, n0 + k) - Out(E, n0 + k) = NewestBalance(h, k, b)}
<1>1. /\ E \in [1..(n0 + n) -> Entry] /\ h \in [1..n -> AnyTxn]
      /\ \A k \in 1..n : E[n0 + k].credit = Received(h[k]) /\ E[n0 + k].debit = Sent(h[k])
  BY DEF EntriesAre, PastOf
<1>2. 0 \in K
  BY DEF NewestBalance
<1>3. ASSUME NEW k \in K PROVE k + 1 \in K
  <2> SUFFICES ASSUME k + 1 <= n
               PROVE  In(E, n0 + (k + 1)) - Out(E, n0 + (k + 1)) = NewestBalance(h, k + 1, b)
    OBVIOUS
  <2>1. k \in Nat /\ In(E, n0 + k) - Out(E, n0 + k) = NewestBalance(h, k, b)
    OBVIOUS
  <2> HIDE DEF K
  <2>2. k + 1 \in 1..n /\ h[k + 1] \in AnyTxn
    BY <1>1, <2>1
  <2>3. h[k + 1].pre = NewestBalance(h, k, b)
    <3>1. (k + 1) - 1 = k
      BY <2>1
    <3> QED BY <2>2, <3>1 DEF ChainOf
  <2>4. NewestBalance(h, k + 1, b) = h[k + 1].post
    BY <2>1 DEF NewestBalance
  <2> DEFINE l == n0 + k
             N == n0 + n
  <2>5. l \in 0..(N - 1) /\ l + 1 = n0 + (k + 1) /\ N \in Nat /\ l \in 0..N
    BY <2>1
  <2>6. E \in [1..N -> Entry]
    BY <1>1
  <2> HIDE DEF l, N
  <2>7. /\ In(E, l + 1) = In(E, l) + E[l + 1].credit
        /\ Out(E, l + 1) = Out(E, l) + E[l + 1].debit
        /\ In(E, l) \in Nat /\ Out(E, l) \in Nat
    BY <2>5, <2>6, EntriesGrow
  <2>8. E[l + 1].credit = Received(h[k + 1]) /\ E[l + 1].debit = Sent(h[k + 1])
    BY <1>1, <2>2, <2>5
  <2>9. /\ Received(h[k + 1]) - Sent(h[k + 1]) = h[k + 1].post - h[k + 1].pre
        /\ Received(h[k + 1]) \in Nat /\ Sent(h[k + 1]) \in Nat
        /\ h[k + 1].post \in Nat /\ h[k + 1].pre \in Nat
    BY <2>2 DEF AnyTxn, Received, Sent
  <2>10. In(E, l) - Out(E, l) = h[k + 1].pre
    BY <2>1, <2>3 DEF l
  <2>11. In(E, l + 1) - Out(E, l + 1) = h[k + 1].post
    BY <2>7, <2>8, <2>9, <2>10
  <2> QED BY <2>4, <2>5, <2>11
<1>4. K = Nat
  <2> HIDE DEF K
  <2>1. K \in SUBSET Nat
    BY DEF K
  <2> QED BY <1>2, <1>3, <2>1, NumbersInduction
<1> QED BY <1>4

\* Entries of credits only.
NoDebits(E, N) == E \in [1..N -> Entry] /\ \A i \in 1..N : E[i].debit = 0

\* The first entries of a run come to what was carried.
LEMMA FirstOfRun ==
    ASSUME NEW n0 \in Nat, NEW E0, NoDebits(E0, n0), NEW n \in Nat, NEW h, NEW end, NEW E,
           EntriesAre(E, E0, n0, h, n, end), NEW l \in 0..n0
    PROVE  In(E, l) = In(E0, l) /\ Out(E, l) = 0
<1>0. E0 \in [1..n0 -> Entry] /\ \A i \in 1..n0 : E0[i].debit = 0
  BY DEF NoDebits
<1>1. /\ E \in [1..(n0 + n) -> Entry]
      /\ \A i \in 1..n0 : E[i].credit = E0[i].credit /\ E[i].debit = E0[i].debit
  BY DEF EntriesAre
<1>2. n0 + n \in Nat /\ IsFiniteSet(1..l)
  <2>1. 1 \in Int /\ l \in Int
    OBVIOUS
  <2> QED BY <2>1, FS_Interval
<1> DEFINE N == n0 + n
<1>3. \A i \in 1..N : CreditsOf(E)[i] = E[i].credit /\ DebitsOf(E)[i] = E[i].debit
  <2>1. N \in Nat /\ E \in [1..N -> Entry]
    BY <1>1, <1>2
  <2> HIDE DEF N
  <2> QED BY <2>1, EntriesGrow
<1>4. \A i \in 1..n0 : CreditsOf(E0)[i] = E0[i].credit
  BY <1>0, EntriesGrow
<1>5. ASSUME NEW i \in 1..l
      PROVE  CreditsOf(E)[i] = CreditsOf(E0)[i] /\ DebitsOf(E)[i] = 0
  <2>1. i \in 1..n0 /\ i \in 1..N
    OBVIOUS
  <2> QED BY <1>0, <1>1, <1>3, <1>4, <2>1
<1>6. SumFunctionOnSet(CreditsOf(E), 1..l) = SumFunctionOnSet(CreditsOf(E0), 1..l)
  <2> DEFINE f == CreditsOf(E)
             g == CreditsOf(E0)
  <2>1. \A i \in 1..l : f[i] = g[i]
    BY <1>5
  <2> HIDE DEF f, g
  <2>2. SumFunctionOnSet(f, 1..l) = SumFunctionOnSet(g, 1..l)
    BY <1>2, <2>1, SumSame
  <2> QED BY <2>2 DEF f, g
<1>7. SumFunctionOnSet(DebitsOf(E), 1..l) = 0
  <2> DEFINE f == DebitsOf(E)
  <2>1. \A i \in 1..l : f[i] = 0
    BY <1>5
  <2>2. l \in Nat /\ 0 \in Int /\ 0 * l = 0
    OBVIOUS
  <2> HIDE DEF f
  <2>3. SumFunctionOnSet(f, 1..l) = 0 * l
    BY <2>1, <2>2, SumOfSame
  <2> QED BY <2>2, <2>3 DEF f
<1> QED BY <1>6, <1>7 DEF In, Out

\* What is carried comes to what was left.
LEMMA CarriedComes ==
    ASSUME NEW N \in Nat, NEW E \in [1..N -> Entry], NEW l \in 0..N
    PROVE  In(Carried(E, N), l) = IF In(E, l) < Out(E, N) THEN 0 ELSE In(E, l) - Out(E, N)
<1> DEFINE C == Carried(E, N)
           L(k) == IF In(E, k) < Out(E, N) THEN 0 ELSE In(E, k) - Out(E, N)
           K == {k \in Nat : k <= N => In(C, k) = L(k)}
<1>1. C \in [1..N -> Entry] /\ \A i \in 1..N : C[i].credit = LeftOf(E, N, i)
  BY CarriedTyped
<1>2. N \in 0..N /\ Out(E, N) \in Nat /\ In(E, 0) = 0
  BY EntriesGrow
<1> HIDE DEF C
<1>3. 0 \in K
  <2>1. In(C, 0) = 0
    BY <1>1, EntriesGrow
  <2> QED BY <1>2, <2>1
<1>4. ASSUME NEW k \in K PROVE k + 1 \in K
  <2> SUFFICES ASSUME k + 1 <= N PROVE In(C, k + 1) = L(k + 1)
    OBVIOUS
  <2>1. k \in 0..(N - 1) /\ k + 1 \in 1..N /\ k \in 0..N /\ In(C, k) = L(k)
    OBVIOUS
  <2>2. In(C, k + 1) = In(C, k) + C[k + 1].credit
    BY <1>1, <2>1, EntriesGrow
  <2>3. /\ In(E, k + 1) = In(E, k) + E[k + 1].credit
        /\ In(E, k) \in Nat /\ E[k + 1].credit \in Nat
    BY <2>1, EntriesGrow
  <2>4. C[k + 1].credit = Remains(In(E, k + 1), E[k + 1].credit, Out(E, N))
    BY <1>1, <2>1 DEF LeftOf
  <2> QED BY <1>2, <2>1, <2>2, <2>3, <2>4 DEF Remains
<1>5. K = Nat
  <2> HIDE DEF K
  <2>1. K \in SUBSET Nat
    BY DEF K
  <2> QED BY <1>3, <1>4, <2>1, NumbersInduction
<1> QED BY <1>5 DEF C

\* The entries of a run are books.
LEMMA RunBooks ==
    ASSUME NEW n0 \in Nat, NEW E0, NEW n \in Nat, NEW h, PastOf(h, n), Earlier(E0, n0, h, n),
           NEW end, NEW E, EntriesAre(E, E0, n0, h, n, end),
           NEW b \in Nat, ChainOf(h, n, b), In(E0, n0) = b
    PROVE  Books(E, n0 + n) /\ BalancesAre(E, n0, h, n, b)
<1>0. /\ E0 \in [1..n0 -> Entry]
      /\ \A i, j \in 1..n0 : i < j => E0[i].date < E0[j].date
      /\ \A i \in 1..n0 : E0[i].debit = 0
      /\ \A i \in 1..n0, j \in 1..n : E0[i].date < h[j].date
  BY DEF Earlier
<1> DEFINE N == n0 + n
<1>1. /\ E \in [1..N -> Entry] /\ h \in [1..n -> AnyTxn]
      /\ \A i, j \in 1..n : i < j => h[i].date < h[j].date
      /\ \A i \in 1..n0 : E[i].date = E0[i].date
      /\ \A k \in 1..n : E[n0 + k].date = h[k].date
  BY DEF EntriesAre, PastOf
<1>2. \A l \in 0..n0 : In(E, l) = In(E0, l) /\ Out(E, l) = 0
  <2>1. NoDebits(E0, n0)
    BY <1>0 DEF NoDebits
  <2> QED BY <2>1, FirstOfRun
<1>3. \A l \in 0..N : In(E, l) \in Nat /\ Out(E, l) \in Nat
  <2>1. N \in Nat
    OBVIOUS
  <2> HIDE DEF N
  <2> QED BY <1>1, <2>1, EntriesGrow
<1>4. \A k \in 0..n : In(E, n0 + k) - Out(E, n0 + k) = NewestBalance(h, k, b)
  <2>1. n0 \in 0..n0
    OBVIOUS
  <2>2. In(E, n0) - Out(E, n0) = b
    BY <1>2, <2>1
  <2> QED BY <2>2, BalanceOfRun
<1>5. ASSUME NEW l \in 1..N PROVE Out(E, l) <= In(E, l)
  <2>1. In(E, l) \in Nat /\ Out(E, l) \in Nat
    BY <1>3
  <2>2. CASE l <= n0
    <3>1. l \in 0..n0
      BY <2>2
    <3> QED BY <1>2, <2>1, <3>1
  <2>3. CASE ~(l <= n0)
    <3> DEFINE k == l - n0
    <3>1. k \in 1..n /\ k \in 0..n /\ n0 + k = l /\ k # 0
      BY <2>3
    <3> HIDE DEF k
    <3>2. h[k].post \in Nat
      <4>1. h[k] \in AnyTxn
        BY <1>1, <3>1
      <4> QED BY <4>1 DEF AnyTxn
    <3>3. In(E, l) - Out(E, l) = h[k].post
      BY <1>4, <3>1 DEF NewestBalance
    <3> QED BY <2>1, <3>2, <3>3
  <2> QED BY <2>2, <2>3
<1>6. ASSUME NEW i \in 1..N, NEW j \in 1..N, i < j PROVE E[i].date < E[j].date
  <2>1. CASE j <= n0
    <3>1. i \in 1..n0 /\ j \in 1..n0
      BY <1>6, <2>1
    <3> QED BY <1>0, <1>1, <1>6, <3>1
  <2>2. CASE ~(j <= n0)
    <3> DEFINE k == j - n0
    <3>1. k \in 1..n /\ n0 + k = j
      BY <2>2
    <3> HIDE DEF k
    <3>2. E[j].date = h[k].date
      BY <1>1, <3>1
    <3>3. CASE i <= n0
      <4>1. i \in 1..n0
        BY <3>3
      <4> QED BY <1>0, <1>1, <3>1, <3>2, <4>1
    <3>4. CASE ~(i <= n0)
      <4> DEFINE x == i - n0
      <4>1. x \in 1..n /\ n0 + x = i
        BY <3>4
      <4> HIDE DEF x
      <4>2. x < k
        BY <1>6, <3>1, <4>1
      <4>3. E[i].date = h[x].date
        BY <1>1, <4>1
      <4> QED BY <1>1, <3>1, <3>2, <4>1, <4>2, <4>3
    <3> QED BY <3>3, <3>4
  <2> QED BY <2>1, <2>2
<1>7. Books(E, N)
  BY <1>1, <1>5, <1>6 DEF Books
<1> QED BY <1>4, <1>7 DEF BalancesAre

\* A number, but no less than 0 and no more than c.
Least0(x, c) == IF x < 0 THEN 0 ELSE IF x > c THEN c ELSE x

\* What remains of a credit depends on what came less what went.
LEMMA RemainsIs ==
    ASSUME NEW came \in Int, NEW c \in Nat, NEW went \in Int
    PROVE  Remains(came, c, went) = Least0(came - went, c)
  BY DEF Remains, Least0

\* What two periods leave of a credit is what their debits together leave of it.
LEMMA RemainsOfBoth ==
    ASSUME NEW came \in Nat, NEW c \in Nat, NEW went \in Nat, NEW more \in Nat,
           NEW later, later = (IF came < went THEN 0 ELSE came - went)
    PROVE  Remains(later, Remains(came, c, went), more) = Least0(came - went - more, c)
  BY DEF Remains, Least0

\* The transactions of a period.
LEMMA HistoryIs ==
    ASSUME NEW b \in Nat, NEW h \in Histories(b)
    PROVE  /\ Len(h) \in Nat
           /\ PastOf(h, Len(h))
           /\ ChainOf(h, Len(h), b)
           /\ \A i \in 1..Len(h) : 0 <= h[i].date /\ h[i].date < PeriodLength
           /\ BalanceAfter(h, b) = NewestBalance(h, Len(h), b)
           /\ NewestBalance(h, Len(h), b) \in Nat
<1> DEFINE Txns(dates, after, failed) ==
               [i \in 1..Len(dates) |->
                   [pre |-> IF i = 1 THEN b ELSE after[i - 1], post |-> after[i],
                    date |-> dates[i], failed |-> i \in failed]]
           Dated(dates) ==
               {x \in {Txns(dates, after, failed) :
                          after \in [1..Len(dates) -> 0..MaxBalance],
                          failed \in SUBSET (1..Len(dates))} :
                \A i \in DOMAIN x : x[i].failed => x[i].post = x[i].pre}
           Increasing(dates) == \A i, j \in DOMAIN dates : i < j => dates[i] < dates[j]
<1>0. PICK dates \in UNION {[1..n -> 0..PeriodLength - 1] : n \in 0..MaxTxns} :
          Increasing(dates) /\ h \in Dated(dates)
  <2> DEFINE D == UNION {[1..n -> 0..PeriodLength - 1] : n \in 0..MaxTxns}
  <2>1. Histories(b) = UNION {Dated(dates) : dates \in {d \in D : Increasing(d)}}
    BY DEF Histories
  <2> HIDE DEF D, Dated, Increasing
  <2>2. \E dates \in D : Increasing(dates) /\ h \in Dated(dates)
    BY <2>1
  <2> QED BY <2>2 DEF D
<1>1. PICK k \in 0..MaxTxns : dates \in [1..k -> 0..PeriodLength - 1]
  OBVIOUS
<1>2. /\ MaxTxns \in Nat /\ MaxBalance \in Nat /\ PeriodLength \in Nat /\ k \in Nat
      /\ dates \in [1..k -> 0..PeriodLength - 1]
  <2>1. MaxTxns \in Nat /\ MaxBalance \in Nat /\ PeriodDays \in Nat
    BY InputAssumption
  <2>2. 2 * PeriodDays \in Nat
    BY <2>1
  <2> QED BY <1>1, <2>1, <2>2 DEF PeriodLength
<1>3. Len(dates) = k /\ DOMAIN dates = 1..k
  BY <1>2
<1>a. PICK after \in [1..Len(dates) -> 0..MaxBalance], failed \in SUBSET (1..Len(dates)) :
          h = Txns(dates, after, failed)
  <2> HIDE DEF Increasing, Txns
  <2> QED BY <1>0
<1>4. /\ after \in [1..k -> 0..MaxBalance]
      /\ h = [i \in 1..k |-> [pre |-> IF i = 1 THEN b ELSE after[i - 1], post |-> after[i],
                              date |-> dates[i], failed |-> i \in failed]]
  BY <1>3, <1>a
<1>5. \A i \in DOMAIN h : h[i].failed => h[i].post = h[i].pre
  BY <1>0
<1>6. ASSUME NEW i \in 1..k
      PROVE  /\ h[i] \in AnyTxn /\ h[i].date = dates[i] /\ h[i].post = after[i]
             /\ h[i].pre = IF i = 1 THEN b ELSE after[i - 1]
  <2>1. h[i] = [pre |-> IF i = 1 THEN b ELSE after[i - 1], post |-> after[i],
                date |-> dates[i], failed |-> i \in failed]
    BY <1>4
  <2>2. after[i] \in Nat /\ dates[i] \in Int /\ (i \in failed) \in BOOLEAN
    BY <1>2, <1>4
  <2>3. (IF i = 1 THEN b ELSE after[i - 1]) \in Nat
    <3>1. i # 1 => i - 1 \in 1..k
      OBVIOUS
    <3> QED BY <1>2, <1>4, <3>1
  <2> DEFINE pre == IF i = 1 THEN b ELSE after[i - 1]
             ok == i \in failed
  <2> HIDE DEF pre, ok
  <2>4. h[i] = [pre |-> pre, post |-> after[i], date |-> dates[i], failed |-> ok]
    BY <2>1 DEF pre, ok
  <2>5. pre \in Nat /\ ok \in BOOLEAN
    BY <2>2, <2>3 DEF pre, ok
  <2>6. /\ h[i] \in AnyTxn /\ h[i].date = dates[i] /\ h[i].post = after[i] /\ h[i].pre = pre
    BY <2>2, <2>4, <2>5 DEF AnyTxn
  <2> QED BY <2>6 DEF pre
<1>7. DOMAIN h = 1..k /\ h \in [1..k -> AnyTxn]
  <2>1. DOMAIN h = 1..k /\ h = [i \in 1..k |-> h[i]]
    BY <1>4
  <2> QED BY <1>6, <2>1
<1>8. Len(h) = k
  BY <1>2, <1>7
<1>9. PastOf(h, k)
  <2>1. \A i, j \in 1..k : i < j => h[i].date < h[j].date
    <3>1. \A i, j \in 1..k : i < j => dates[i] < dates[j]
      <4> HIDE DEF Dated
      <4> QED BY <1>0, <1>3
    <3>2. \A i \in 1..k : h[i].date = dates[i]
      BY <1>6
    <3> QED BY <3>1, <3>2
  <2> QED BY <1>5, <1>7, <2>1 DEF PastOf
<1>10. ChainOf(h, k, b)
  <2> SUFFICES ASSUME NEW i \in 1..k PROVE h[i].pre = NewestBalance(h, i - 1, b)
    BY DEF ChainOf
  <2>1. i # 1 => i - 1 \in 1..k /\ i - 1 # 0
    OBVIOUS
  <2>2. i = 1 => i - 1 = 0
    OBVIOUS
  <2> QED BY <1>6, <2>1, <2>2 DEF NewestBalance
<1>11. \A i \in 1..k : 0 <= h[i].date /\ h[i].date < PeriodLength
  <2> SUFFICES ASSUME NEW i \in 1..k PROVE 0 <= h[i].date /\ h[i].date < PeriodLength
    OBVIOUS
  <2>1. dates[i] \in 0..PeriodLength - 1 /\ h[i].date = dates[i]
    BY <1>2, <1>6
  <2> QED BY <1>2, <2>1
<1>12. BalanceAfter(h, b) = NewestBalance(h, k, b) /\ NewestBalance(h, k, b) \in Nat
  <2>1. CASE k = 0
    <3>1. h \in Seq(AnyTxn) /\ Len(h) = 0
      BY <1>7, <2>1
    <3>2. h = <<>>
      BY <3>1
    <3> QED BY <2>1, <3>2 DEF BalanceAfter, NewestBalance
  <2>2. CASE k # 0
    <3>1. k \in 1..k /\ h[k] \in AnyTxn
      BY <1>2, <1>6, <2>2
    <3>2. h # <<>>
      <4>1. h \in Seq(AnyTxn) /\ Len(h) # 0
        BY <1>2, <1>7, <1>8, <2>2
      <4> QED BY <4>1, EmptySeq
    <3>3. h[k].post \in Nat
      BY <3>1 DEF AnyTxn
    <3> QED BY <1>8, <2>2, <3>2, <3>3 DEF BalanceAfter, NewestBalance, Last
  <2> QED BY <2>1, <2>2
<1> QED BY <1>2, <1>8, <1>9, <1>10, <1>11, <1>12

\* In the next period it is the same, later.
LEMMA NextIs ==
    ASSUME NEW n \in Nat, NEW b, NEW h, PastOf(h, n), ChainOf(h, n, b),
           \A i \in 1..n : 0 <= h[i].date /\ h[i].date < PeriodLength
    PROVE  /\ PastOf(NextPeriod(h), n)
           /\ ChainOf(NextPeriod(h), n, b)
           /\ \A i \in 1..n : PeriodLength <= NextPeriod(h)[i].date
           /\ NewestBalance(NextPeriod(h), n, b) = NewestBalance(h, n, b)
<1> DEFINE x == NextPeriod(h)
<1>1. /\ h \in [1..n -> AnyTxn] /\ PeriodLength \in Nat
      /\ \A i \in 1..n : h[i].failed => h[i].post = h[i].pre
      /\ \A i, j \in 1..n : i < j => h[i].date < h[j].date
  <2>1. PeriodDays \in Nat
    BY InputAssumption
  <2> QED BY <2>1 DEF PastOf, PeriodLength
<1>2. x = [i \in 1..n |-> [h[i] EXCEPT !.date = @ + PeriodLength]]
  BY <1>1 DEF NextPeriod
<1> HIDE DEF x
<1>3. ASSUME NEW i \in 1..n
      PROVE  /\ x[i] \in AnyTxn /\ x[i].date = h[i].date + PeriodLength
             /\ x[i].pre = h[i].pre /\ x[i].post = h[i].post /\ x[i].failed = h[i].failed
             /\ h[i].date \in Int
  <2>1. h[i] \in AnyTxn /\ x[i] = [h[i] EXCEPT !.date = @ + PeriodLength]
    BY <1>1, <1>2
  <2>2. h[i].date \in Int /\ h[i].date + PeriodLength \in Int
    BY <1>1, <2>1 DEF AnyTxn
  <2> QED BY <2>1, <2>2 DEF AnyTxn
<1>4. x \in [1..n -> AnyTxn]
  BY <1>2, <1>3
<1>5. PastOf(x, n)
  <2>1. \A i \in 1..n : x[i].failed => x[i].post = x[i].pre
    BY <1>1, <1>3
  <2>2. \A i, j \in 1..n : i < j => x[i].date < x[j].date
    BY <1>1, <1>3
  <2> QED BY <1>4, <2>1, <2>2 DEF PastOf
<1>6. \A i \in 0..n : NewestBalance(x, i, b) = NewestBalance(h, i, b)
  <2> SUFFICES ASSUME NEW i \in 0..n PROVE NewestBalance(x, i, b) = NewestBalance(h, i, b)
    OBVIOUS
  <2>1. i # 0 => i \in 1..n
    OBVIOUS
  <2> QED BY <1>3, <2>1 DEF NewestBalance
<1>7. ChainOf(x, n, b)
  <2> SUFFICES ASSUME NEW i \in 1..n PROVE x[i].pre = NewestBalance(x, i - 1, b)
    BY DEF ChainOf
  <2>1. i - 1 \in 0..n
    OBVIOUS
  <2>2. h[i].pre = NewestBalance(h, i - 1, b)
    BY DEF ChainOf
  <2> QED BY <1>3, <1>6, <2>1, <2>2
<1>8. \A i \in 1..n : PeriodLength <= x[i].date
  BY <1>1, <1>3
<1>9. n \in 0..n
  OBVIOUS
<1> QED BY <1>5, <1>6, <1>7, <1>8, <1>9 DEF x

\* The sequence of nothing is that of no places.
LEMMA NothingIs ==
    ASSUME NEW X
    PROVE  <<>> \in [1..0 -> X] /\ DOMAIN <<>> = {} /\ 1..0 = {}
<1>1. <<>> \in Seq(X) /\ Len(<<>>) = 0
  BY EmptySeq
<1>2. <<>> \in [1..Len(<<>>) -> X]
  BY <1>1, LenProperties
<1>3. <<>> \in [1..0 -> X]
  BY <1>1, <1>2
<1>4. 1..0 = {}
  OBVIOUS
<1>5. DOMAIN <<>> = 1..0
  BY <1>3
<1> QED BY <1>3, <1>4, <1>5

\* A wallet's first run begins with nothing.
LEMMA FirstRun ==
    ASSUME NEW n \in Nat, NEW h, PastOf(h, n), ChainOf(h, n, 0), NEW end \in Int,
           NewestBalance(h, n, 0) \in Nat,
           NEW E, E = Entries(<<>>, 0, h, n, end)
    PROVE  /\ Books(E, n)
           /\ \A k \in 1..n : /\ E[k].credit = Received(h[k]) /\ E[k].date = h[k].date
                              /\ E[k].days = DaysBetween(h[k].date, end)
           /\ In(E, n) - Out(E, n) = NewestBalance(h, n, 0)
           /\ RunCarries(Calculated(<<>>, Reverse(h), end), E, n, NewestBalance(h, n, 0))
<1> DEFINE none == <<>>
<1>1. none \in [1..0 -> Entry] /\ none \in [1..0 -> AnyRow] /\ 1..0 = {} /\ DOMAIN none = {}
  BY NothingIs
<1> HIDE DEF none
<1>2. 0 \in Nat /\ 0 + n = n /\ 0 \in 0..0 /\ n \in 0..n
  OBVIOUS
<1>3. Covers(none, 0, none, none, 0, 0)
  <2>1. none \in [1..0 -> 1..0]
    BY NothingIs DEF none
  <2>2. Picks(none, 0, 0)
    BY <1>1, <2>1 DEF Picks
  <2> QED BY <1>1, <2>2 DEF Covers
<1>4. EntriesAre(E, none, 0, h, n, end)
  <2>1. E = Entries(none, 0, h, n, end)
    BY DEF none
  <2>2. EntriesAre(Entries(none, 0, h, n, end), none, 0, h, n, end)
    BY <1>1, <1>2, EntriesTyped
  <2> QED BY <2>1, <2>2
<1>5. Earlier(none, 0, h, n)
  BY <1>1 DEF Earlier
<1>6. In(none, 0) = 0
  BY <1>1, <1>2, EntriesGrow
<1>7. Books(E, 0 + n) /\ BalancesAre(E, 0, h, n, 0)
  BY <1>2, <1>4, <1>5, <1>6, RunBooks
<1>8. In(E, n) - Out(E, n) = NewestBalance(h, n, 0)
  BY <1>2, <1>7 DEF BalancesAre
<1>9. RunCarries(Calculated(none, Reverse(h), end), E, 0 + n, NewestBalance(h, n, 0))
  <2>1. E = Entries(none, 0, h, n, end) /\ NewestBalance(h, n, 0) \in Int
    BY DEF none
  <2> QED BY <1>2, <1>3, <1>5, <1>7, <2>1, RunIs
<1>10. \A k \in 1..n : /\ E[k].credit = Received(h[k]) /\ E[k].date = h[k].date
                       /\ E[k].days = DaysBetween(h[k].date, end)
  <2> SUFFICES ASSUME NEW k \in 1..n
               PROVE  /\ E[k].credit = Received(h[k]) /\ E[k].date = h[k].date
                      /\ E[k].days = DaysBetween(h[k].date, end)
    OBVIOUS
  <2>1. 0 + k = k
    OBVIOUS
  <2> QED BY <1>4, <2>1 DEF EntriesAre
<1> QED BY <1>2, <1>7, <1>8, <1>9, <1>10 DEF none

\* The entries are all before the transactions.
AllBefore(E, m, h, n) == \A i \in 1..m, j \in 1..n : E[i].date < h[j].date

\* The next run has entries E, is without error, and comes to what they weigh.
NextRun(run, E, E1, n1, h, n, end, B) ==
    /\ EntriesAre(E, Carried(E1, n1), n1, h, n, end)
    /\ Books(E, n1 + n)
    /\ In(E, n1 + n) - Out(E, n1 + n) = B
    /\ ~run.error
    /\ run.finalAmount = SumFunctionOnSet(Weights(E, n1 + n), 1..(n1 + n))

\* The next one begins with what that left.
LEMMA SecondRun ==
    ASSUME NEW n1 \in Nat, NEW E1, Books(E1, n1), NEW B1 \in Nat, In(E1, n1) - Out(E1, n1) = B1,
           NEW a \in Nat, NEW old, NEW r, Covers(old, a, r, Carried(E1, n1), n1, B1),
           NEW n \in Nat, NEW h, PastOf(h, n), ChainOf(h, n, B1),
           NewestBalance(h, n, B1) \in Nat,
           AllBefore(E1, n1, h, n), NEW end \in Int,
           NEW E, E = Entries(Carried(E1, n1), n1, h, n, end)
    PROVE  NextRun(Calculated(old, Reverse(h), end), E, E1, n1, h, n, end,
                   NewestBalance(h, n, B1))
<1> DEFINE C == Carried(E1, n1)
<1>1. /\ E1 \in [1..n1 -> Entry]
      /\ \A i, j \in 1..n1 : i < j => E1[i].date < E1[j].date
  BY DEF Books
<1>2. /\ C \in [1..n1 -> Entry]
      /\ \A i \in 1..n1 : C[i].debit = 0 /\ C[i].date = E1[i].date
  BY <1>1, CarriedTyped
<1>3. In(C, n1) = B1
  <2>1. n1 \in 0..n1
    OBVIOUS
  <2>2. In(E1, n1) \in Nat /\ Out(E1, n1) \in Nat
    BY <1>1, <2>1, EntriesGrow
  <2>3. In(C, n1) = IF In(E1, n1) < Out(E1, n1) THEN 0 ELSE In(E1, n1) - Out(E1, n1)
    BY <1>1, <2>1, CarriedComes
  <2> QED BY <2>2, <2>3
<1> HIDE DEF C
<1>4. Earlier(C, n1, h, n)
  BY <1>1, <1>2 DEF Earlier, AllBefore
<1>5. EntriesAre(E, C, n1, h, n, end) /\ E = Entries(C, n1, h, n, end)
  <2>1. E = Entries(C, n1, h, n, end)
    BY DEF C
  <2> QED BY <1>2, <2>1, EntriesTyped
<1>6. Books(E, n1 + n) /\ BalancesAre(E, n1, h, n, B1)
  BY <1>3, <1>4, <1>5, RunBooks
<1>7. NewestBalance(h, n, B1) = In(E, n1 + n) - Out(E, n1 + n)
  <2>1. n \in 0..n
    OBVIOUS
  <2> QED BY <1>6, <2>1 DEF BalancesAre
<1>8. RunWeighs(Calculated(old, Reverse(h), end), E, n1 + n, NewestBalance(h, n, B1))
  <2>1. Covers(old, a, r, C, n1, B1) /\ NewestBalance(h, n, B1) \in Int
    BY DEF C
  <2> QED BY <1>4, <1>5, <1>6, <2>1, RunIs
<1> QED BY <1>5, <1>6, <1>7, <1>8 DEF C, RunWeighs, NextRun

\* What came in up to a transaction.
Receipts(all) == [j \in DOMAIN all |-> Received(all[j])]
UpTo(all, l) == SumFunctionOnSet(Receipts(all), 1..l)

\* What came in begins with nothing and grows transaction by transaction.
LEMMA ReceiptsGrow ==
    ASSUME NEW N \in Nat, NEW all \in [1..N -> AnyTxn]
    PROVE  /\ UpTo(all, 0) = 0
           /\ \A l \in 0..N : UpTo(all, l) \in Nat
           /\ \A l \in 0..(N - 1) : UpTo(all, l + 1) = UpTo(all, l) + Received(all[l + 1])
           /\ \A i \in 1..N : Received(all[i]) \in Nat
<1>1. ASSUME NEW i \in 1..N
      PROVE  Received(all[i]) \in Nat /\ Receipts(all)[i] = Received(all[i])
  <2>1. all[i] \in AnyTxn /\ i \in DOMAIN all
    OBVIOUS
  <2> QED BY <2>1 DEF Receipts, Received, AnyTxn
<1>2. UpTo(all, 0) = 0
  <2>1. 1..0 = {}
    OBVIOUS
  <2> QED BY <2>1, SumOfNone DEF UpTo
<1>3. ASSUME NEW l \in 0..N PROVE UpTo(all, l) \in Nat
  <2>1. IsFiniteSet(1..l)
    <3>1. 1 \in Int /\ l \in Int
      OBVIOUS
    <3> QED BY <3>1, FS_Interval
  <2>2. \A i \in 1..l : Receipts(all)[i] \in Nat
    <3> SUFFICES ASSUME NEW i \in 1..l PROVE Receipts(all)[i] \in Nat
      OBVIOUS
    <3>1. i \in 1..N
      OBVIOUS
    <3> QED BY <1>1, <3>1
  <2> QED BY <2>1, <2>2, SumIsNat DEF UpTo
<1>4. ASSUME NEW l \in 0..(N - 1) PROVE UpTo(all, l + 1) = UpTo(all, l) + Received(all[l + 1])
  <2>1. \A i \in 1..(l + 1) : Receipts(all)[i] \in Int
    <3> SUFFICES ASSUME NEW i \in 1..(l + 1) PROVE Receipts(all)[i] \in Int
      OBVIOUS
    <3>1. i \in 1..N
      OBVIOUS
    <3> QED BY <1>1, <3>1
  <2>2. l \in Nat /\ l + 1 \in 1..N
    OBVIOUS
  <2> QED BY <1>1, <2>1, <2>2, SumNext DEF UpTo
<1> QED BY <1>1, <1>2, <1>3, <1>4

\* What is still held, by what came in.
LEMMA StillHeldIs ==
    ASSUME NEW N \in Nat, NEW all \in [1..N -> AnyTxn], NEW i \in 1..N
    PROVE  StillHeld(all, i)
           = Least0(all[N].post + UpTo(all, i) - UpTo(all, N), Received(all[i]))
<1> DEFINE rc == Receipts(all)
           Later == {j \in DOMAIN all : j > i}
           later == SumFunctionOnSet(rc, Later)
<1>1. DOMAIN all = 1..N /\ Len(all) = N /\ N \in 1..N /\ all[N] \in AnyTxn /\ all[i] \in AnyTxn
  OBVIOUS
<1>2. StillHeld(all, i)
      = CASE Last(all).post - later < 0 -> 0
          [] Last(all).post - later > Received(all[i]) -> Received(all[i])
          [] OTHER -> Last(all).post - later
  BY DEF StillHeld, Receipts
<1>3. Later = (i + 1)..N /\ 1..N = (1..i) \cup Later /\ (1..i) \cap Later = {}
  BY <1>1
<1>4. IsFiniteSet(1..i) /\ IsFiniteSet(Later)
  <2>1. 1 \in Int /\ i \in Int /\ i + 1 \in Int /\ N \in Int
    OBVIOUS
  <2>2. IsFiniteSet(1..i) /\ IsFiniteSet((i + 1)..N)
    BY <2>1, FS_Interval
  <2> QED BY <1>3, <2>2
<1>5. \A j \in 1..N : rc[j] \in Nat
  <2> SUFFICES ASSUME NEW j \in 1..N PROVE rc[j] \in Nat
    OBVIOUS
  <2>1. rc[j] = Received(all[j])
    BY DEF Receipts
  <2> QED BY <2>1, ReceiptsGrow
<1> HIDE DEF rc, Later
<1>6. SumFunctionOnSet(rc, 1..N) = SumFunctionOnSet(rc, 1..i) + later /\ later \in Int
  <2> DEFINE A == 1..i
  <2>1. A \cap Later = {} /\ IsFiniteSet(A) /\ 1..N = A \cup Later
    BY <1>3, <1>4
  <2>2. \A j \in A \cup Later : rc[j] \in Int
    BY <1>5, <2>1
  <2> HIDE DEF A
  <2>3. SumFunctionOnSet(rc, A \cup Later) = SumFunctionOnSet(rc, A) + later
    BY <1>4, <2>1, <2>2, SumOfUnion
  <2>4. later \in Int
    BY <1>4, <2>2, SumIsInt
  <2> QED BY <2>1, <2>3, <2>4 DEF A
<1>7. UpTo(all, N) = UpTo(all, i) + later /\ UpTo(all, i) \in Nat /\ UpTo(all, N) \in Nat
  <2>1. i \in 0..N /\ N \in 0..N
    OBVIOUS
  <2>2. UpTo(all, i) \in Nat /\ UpTo(all, N) \in Nat
    BY <2>1, ReceiptsGrow
  <2> QED BY <1>6, <2>2 DEF UpTo, rc
<1>8. Last(all).post = all[N].post /\ all[N].post \in Nat /\ Received(all[i]) \in Nat
  BY <1>1, ReceiptsGrow DEF Last, AnyTxn
<1> HIDE DEF later
<1>9. Last(all).post - later = all[N].post + UpTo(all, i) - UpTo(all, N)
  BY <1>6, <1>7, <1>8
<1> DEFINE x == Last(all).post - later
           c == Received(all[i])
<1>10. x \in Int /\ c \in Nat
  BY <1>6, <1>8
<1>11. StillHeld(all, i) = CASE x < 0 -> 0 [] x > c -> c [] OTHER -> x
  BY <1>2
<1> HIDE DEF x, c
<1>12. StillHeld(all, i) = Least0(x, c)
  BY <1>10, <1>11 DEF Least0
<1> QED BY <1>9, <1>12 DEF x, c

(***************************************************************************)
(* What is held in the end.  What two periods leave of a credit depends on *)
(* what came up to it and what went out in both, and so does what is still *)
(* held of what it brought.                                                *)
(***************************************************************************)

\* Two histories one after the other.
Joined(all, h1, n1, h2, n2) ==
    /\ all \in [1..(n1 + n2) -> AnyTxn]
    /\ \A i \in 1..n1 : all[i] = h1[i]
    /\ \A k \in 1..n2 : all[n1 + k] = h2[k]

\* Joined histories are that.
LEMMA JoinedIs ==
    ASSUME NEW n1 \in Nat, NEW h1 \in [1..n1 -> AnyTxn],
           NEW n2 \in Nat, NEW h2 \in [1..n2 -> AnyTxn]
    PROVE  Joined(h1 \o h2, h1, n1, h2, n2)
<1> DEFINE X == h1 \o h2
<1>1. h1 \in Seq(AnyTxn) /\ Len(h1) = n1
  OBVIOUS
<1>2. h2 \in Seq(AnyTxn) /\ Len(h2) = n2
  OBVIOUS
<1>3. /\ X \in Seq(AnyTxn) /\ Len(X) = n1 + n2
      /\ \A i \in 1..(n1 + n2) : X[i] = IF i <= n1 THEN h1[i] ELSE h2[i - n1]
  BY <1>1, <1>2, ConcatProperties
<1> HIDE DEF X
<1>4. X \in [1..(n1 + n2) -> AnyTxn]
  BY <1>3
<1>5. ASSUME NEW i \in 1..n1 PROVE X[i] = h1[i]
  <2>1. i \in 1..(n1 + n2) /\ i <= n1
    OBVIOUS
  <2> QED BY <1>3, <2>1
<1>6. ASSUME NEW k \in 1..n2 PROVE X[n1 + k] = h2[k]
  <2>1. n1 + k \in 1..(n1 + n2) /\ ~(n1 + k <= n1) /\ (n1 + k) - n1 = k
    OBVIOUS
  <2> QED BY <1>3, <2>1
<1> QED BY <1>4, <1>5, <1>6 DEF X, Joined

\* From a place on, entries that bring what the transactions bring.
Brings(E, all, b, M) == \A i \in (b + 1)..M : E[i].credit = Received(all[i])

\* From such a place on, as much comes in as the transactions bring.
LEMMA ComesSame ==
    ASSUME NEW M \in Nat, NEW E \in [1..M -> Entry], NEW N \in Nat, M <= N,
           NEW all \in [1..N -> AnyTxn], NEW b \in 0..M, Brings(E, all, b, M)
    PROVE  \A l \in b..M : In(E, l) - In(E, b) = UpTo(all, l) - UpTo(all, b)
<1> DEFINE K == {k \in Nat :
                    b + k <= M => In(E, b + k) - In(E, b) = UpTo(all, b + k) - UpTo(all, b)}
<1>1. In(E, b) \in Nat /\ UpTo(all, b) \in Nat
  <2>1. b \in 0..N
    OBVIOUS
  <2> QED BY <2>1, EntriesGrow, ReceiptsGrow
<1>2. 0 \in K
  <2>1. b + 0 = b
    OBVIOUS
  <2> QED BY <1>1, <2>1
<1>3. ASSUME NEW k \in K PROVE k + 1 \in K
  <2> SUFFICES ASSUME b + (k + 1) <= M
               PROVE  In(E, b + (k + 1)) - In(E, b) = UpTo(all, b + (k + 1)) - UpTo(all, b)
    OBVIOUS
  <2> DEFINE l == b + k
  <2>1. l \in 0..(M - 1) /\ l \in 0..(N - 1) /\ l \in 0..N /\ l \in 0..M /\ l + 1 = b + (k + 1)
        /\ l + 1 \in 1..M /\ l + 1 \in (b + 1)..M
    OBVIOUS
  <2>2. In(E, l) - In(E, b) = UpTo(all, l) - UpTo(all, b)
    OBVIOUS
  <2> HIDE DEF l, K
  <2>3. /\ In(E, l + 1) = In(E, l) + E[l + 1].credit
        /\ In(E, l) \in Nat /\ E[l + 1].credit \in Nat
    BY <2>1, EntriesGrow
  <2>4. UpTo(all, l + 1) = UpTo(all, l) + Received(all[l + 1]) /\ UpTo(all, l) \in Nat
    BY <2>1, ReceiptsGrow
  <2>5. E[l + 1].credit = Received(all[l + 1])
    BY <2>1 DEF Brings
  <2>6. In(E, l + 1) - In(E, b) = UpTo(all, l + 1) - UpTo(all, b)
    <3> DEFINE c == E[l + 1].credit
               i0 == In(E, b)
               i1 == In(E, l)
               u0 == UpTo(all, b)
               u1 == UpTo(all, l)
    <3>1. /\ c \in Int /\ i0 \in Int /\ i1 \in Int /\ u0 \in Int /\ u1 \in Int /\ i1 - i0 = u1 - u0
          /\ In(E, l + 1) = i1 + c /\ UpTo(all, l + 1) = u1 + c
      BY <1>1, <2>2, <2>3, <2>4, <2>5
    <3> HIDE DEF c, i0, i1, u0, u1
    <3>2. (i1 + c) - i0 = (u1 + c) - u0
      BY <3>1
    <3> QED BY <3>1, <3>2 DEF i0, u0
  <2> QED BY <2>1, <2>6
<1>4. K = Nat
  <2> HIDE DEF K
  <2>1. K \in SUBSET Nat
    BY DEF K
  <2> QED BY <1>2, <1>3, <2>1, NumbersInduction
<1> SUFFICES ASSUME NEW l \in b..M PROVE In(E, l) - In(E, b) = UpTo(all, l) - UpTo(all, b)
  OBVIOUS
<1>5. l - b \in Nat /\ b + (l - b) = l /\ l <= M
  OBVIOUS
<1>6. l - b \in K
  BY <1>4, <1>5
<1> QED BY <1>5, <1>6

\* Entries of two periods: those of the first, and what they leave with those of
\* the next.
TwoPeriods(E1, n1, E2, n2, all, end1, end2) ==
    /\ Books(E1, n1) /\ Books(E2, n1 + n2)
    /\ all \in [1..(n1 + n2) -> AnyTxn]
    /\ \A i \in 1..n1 : /\ E1[i].credit = Received(all[i])
                        /\ E1[i].days = DaysBetween(all[i].date, end1)
                        /\ E2[i].credit = LeftOf(E1, n1, i)
                        /\ E2[i].days = E1[i].days + WholePeriod
    /\ \A i \in (n1 + 1)..(n1 + n2) : /\ E2[i].credit = Received(all[i])
                                      /\ E2[i].days = DaysBetween(all[i].date, end2)
    /\ \A l \in 0..n1 : In(E2, l) = In(Carried(E1, n1), l)
    /\ \A i \in 1..n1 : 0 <= all[i].date /\ all[i].date < PeriodLength
    /\ \A i \in (n1 + 1)..(n1 + n2) : PeriodLength <= all[i].date
    /\ n1 + n2 # 0 => In(E2, n1 + n2) - Out(E2, n1 + n2) = all[n1 + n2].post

\* What is left of two periods' transactions is what is still held of them.
LEMMA LeftIsHeld ==
    ASSUME NEW n1 \in Nat, NEW n2 \in Nat, NEW E1, NEW E2, NEW all, NEW end1, NEW end2,
           TwoPeriods(E1, n1, E2, n2, all, end1, end2), NEW i \in 1..(n1 + n2)
    PROVE  LeftOf(E2, n1 + n2, i) = StillHeld(all, i)
<1> DEFINE N == n1 + n2
<1>1. /\ E1 \in [1..n1 -> Entry] /\ E2 \in [1..N -> Entry] /\ all \in [1..N -> AnyTxn]
      /\ N \in Nat /\ n1 <= N /\ 0 \in 0..n1 /\ n1 \in 0..n1 /\ n1 \in 0..N /\ N \in 0..N
      /\ N # 0 /\ N \in n1..N /\ n1 \in 0..n1 /\ i \in 1..N /\ i \in 0..N
  BY DEF TwoPeriods, Books
<1>2. /\ \A x \in 1..n1 : /\ E1[x].credit = Received(all[x])
                          /\ E2[x].credit = LeftOf(E1, n1, x)
      /\ \A x \in (n1 + 1)..N : E2[x].credit = Received(all[x])
      /\ \A l \in 0..n1 : In(E2, l) = In(Carried(E1, n1), l)
      /\ In(E2, N) - Out(E2, N) = all[N].post
      /\ Out(E1, n1) <= In(E1, n1)
  <2>1. Out(E1, n1) <= In(E1, n1)
    <3>1. CASE n1 = 0
      <4>1. In(E1, 0) = 0 /\ Out(E1, 0) = 0
        BY <1>1, EntriesGrow
      <4> QED BY <3>1, <4>1
    <3>2. CASE n1 # 0
      <4>1. n1 \in 1..n1
        BY <3>2
      <4> QED BY <4>1 DEF TwoPeriods, Books
    <3> QED BY <3>1, <3>2
  <2> QED BY <1>1, <2>1 DEF TwoPeriods
<1> HIDE DEF N
<1>3. \A l \in 0..n1 : In(E1, l) - In(E1, 0) = UpTo(all, l) - UpTo(all, 0)
  <2>1. \A x \in (0 + 1)..n1 : E1[x].credit = Received(all[x])
    BY <1>2
  <2>2. Brings(E1, all, 0, n1)
    BY <2>1 DEF Brings
  <2> QED BY <1>1, <2>2, ComesSame
<1>4. \A l \in n1..N : In(E2, l) - In(E2, n1) = UpTo(all, l) - UpTo(all, n1)
  <2>1. Brings(E2, all, n1, N)
    BY <1>2 DEF Brings
  <2> QED BY <1>1, <2>1, ComesSame
<1>5. /\ In(E1, 0) = 0 /\ UpTo(all, 0) = 0
      /\ \A l \in 0..n1 : In(E1, l) \in Nat /\ Out(E1, l) \in Nat
      /\ \A l \in 0..N : In(E2, l) \in Nat /\ Out(E2, l) \in Nat
      /\ \A l \in 0..N : UpTo(all, l) \in Nat
      /\ Received(all[i]) \in Nat
  BY <1>1, EntriesGrow, ReceiptsGrow
<1> DEFINE went == Out(E1, n1)
           more == Out(E2, N)
<1>6. \A l \in 0..n1 : In(E2, l) = IF In(E1, l) < went THEN 0 ELSE In(E1, l) - went
  <2>1. \A l \in 0..n1 : In(Carried(E1, n1), l) = IF In(E1, l) < went THEN 0 ELSE In(E1, l) - went
    BY <1>1, CarriedComes
  <2> QED BY <1>2, <2>1
<1>7. went \in Nat /\ more \in Nat
  BY <1>1, <1>5
<1>8. In(E2, n1) = In(E1, n1) - went /\ UpTo(all, n1) = In(E1, n1)
  <2>1. In(E1, n1) \in Nat /\ UpTo(all, n1) \in Nat
    BY <1>1, <1>5
  <2>2. In(E2, n1) = IF In(E1, n1) < went THEN 0 ELSE In(E1, n1) - went
    BY <1>1, <1>6
  <2>3. In(E1, n1) - In(E1, 0) = UpTo(all, n1) - UpTo(all, 0)
    BY <1>1, <1>3
  <2> QED BY <1>2, <1>5, <1>7, <2>1, <2>2, <2>3
<1>9. UpTo(all, N) = In(E2, N) + went
  <2>1. In(E2, N) - In(E2, n1) = UpTo(all, N) - UpTo(all, n1)
    BY <1>1, <1>4
  <2>2. In(E2, N) \in Nat /\ In(E1, n1) \in Nat /\ UpTo(all, N) \in Nat /\ UpTo(all, n1) \in Nat
    BY <1>1, <1>5
  <2> QED BY <1>7, <1>8, <2>1, <2>2
<1>10. StillHeld(all, i) = Least0(all[N].post + UpTo(all, i) - UpTo(all, N), Received(all[i]))
  BY <1>1, StillHeldIs
<1>11. LeftOf(E2, N, i) = Remains(In(E2, i), E2[i].credit, more)
  BY DEF LeftOf
<1>12. In(E2, N) \in Nat /\ UpTo(all, i) \in Nat /\ UpTo(all, N) \in Nat /\ In(E2, i) \in Nat
  BY <1>1, <1>5
<1>13. CASE i <= n1
  <2>1. i \in 1..n1 /\ i \in 0..n1
    BY <1>1, <1>13
  <2>2. E2[i].credit = Remains(In(E1, i), Received(all[i]), went)
    BY <1>2, <2>1 DEF LeftOf
  <2>3. In(E2, i) = IF In(E1, i) < went THEN 0 ELSE In(E1, i) - went
    BY <1>6, <2>1
  <2>4. In(E1, i) \in Nat /\ UpTo(all, i) = In(E1, i)
    <3>1. In(E1, i) - In(E1, 0) = UpTo(all, i) - UpTo(all, 0) /\ In(E1, i) \in Nat
      BY <1>3, <1>5, <2>1
    <3> QED BY <1>5, <1>12, <3>1
  <2> HIDE DEF went, more
  <2>5. LeftOf(E2, N, i) = Least0(In(E1, i) - went - more, Received(all[i]))
    <3> DEFINE came == In(E1, i)
               later == In(E2, i)
               c == Received(all[i])
    <3>1. /\ came \in Nat /\ c \in Nat /\ went \in Nat /\ more \in Nat
          /\ later = IF came < went THEN 0 ELSE came - went
          /\ LeftOf(E2, N, i) = Remains(later, Remains(came, c, went), more)
      BY <1>5, <1>7, <1>11, <2>2, <2>3, <2>4
    <3> HIDE DEF came, later, c
    <3>2. Remains(later, Remains(came, c, went), more) = Least0(came - went - more, c)
      BY <3>1, RemainsOfBoth
    <3> QED BY <3>1, <3>2 DEF came, c
  <2>6. all[N].post + UpTo(all, i) - UpTo(all, N) = In(E1, i) - went - more
    <3>1. In(E2, N) - more = all[N].post
      BY <1>2 DEF more
    <3> QED BY <1>7, <1>9, <1>12, <2>4, <3>1
  <2> QED BY <1>10, <2>5, <2>6 DEF N
<1>14. CASE ~(i <= n1)
  <2>1. i \in (n1 + 1)..N /\ i \in n1..N
    BY <1>1, <1>14
  <2>2. E2[i].credit = Received(all[i])
    BY <1>2, <2>1
  <2>3. In(E2, i) - In(E2, n1) = UpTo(all, i) - UpTo(all, n1)
    BY <1>4, <2>1
  <2>4. In(E1, n1) \in Nat
    BY <1>1, <1>5
  <2>5. UpTo(all, i) = In(E2, i) + went
    BY <1>7, <1>8, <1>12, <2>3, <2>4
  <2>6. In(E2, N) - more = all[N].post
    BY <1>2
  <2> HIDE DEF went, more
  <2>7. all[N].post + UpTo(all, i) - UpTo(all, N) = In(E2, i) - more
    BY <1>7, <1>9, <1>12, <2>5, <2>6
  <2>8. LeftOf(E2, N, i) = Least0(In(E2, i) - more, Received(all[i]))
    <3> DEFINE came == In(E2, i)
               c == Received(all[i])
    <3>1. came \in Int /\ c \in Nat /\ more \in Int /\ LeftOf(E2, N, i) = Remains(came, c, more)
      BY <1>5, <1>7, <1>11, <1>12, <2>2
    <3> HIDE DEF came, c
    <3> QED BY <3>1, RemainsIs DEF came, c
  <2> QED BY <1>10, <2>7, <2>8 DEF N
<1> QED BY <1>13, <1>14

\* What is held, by the days it is held.
HeldOf(all) ==
    SumFunctionOnSet([i \in DOMAIN all |-> StillHeld(all, i) * DaysHeld(all[i])], DOMAIN all)

\* The entries weigh that.
WeighHeld(E, N, all) == SumFunctionOnSet(Weights(E, N), 1..N) = HeldOf(all)

\* What the entries of two periods weigh is what is held, by the days it is held.
LEMMA WeightsHeld ==
    ASSUME NEW n1 \in Nat, NEW n2 \in Nat, NEW E1, NEW E2, NEW all, NEW end1, NEW end2,
           end1 = PeriodLength - 1, end2 = 2 * PeriodLength - 1,
           TwoPeriods(E1, n1, E2, n2, all, end1, end2)
    PROVE  WeighHeld(E2, n1 + n2, all)
<1> DEFINE N == n1 + n2
           f == Weights(E2, N)
           g == [i \in DOMAIN all |-> StillHeld(all, i) * DaysHeld(all[i])]
<1>1. all \in [1..N -> AnyTxn] /\ DOMAIN all = 1..N /\ IsFiniteSet(1..N)
  <2>1. all \in [1..N -> AnyTxn]
    BY DEF TwoPeriods
  <2>2. 1 \in Int /\ N \in Int
    OBVIOUS
  <2> QED BY <2>1, <2>2, FS_Interval
<1>2. ASSUME NEW i \in 1..N PROVE E2[i].days = DaysHeld(all[i])
  <2>0. PeriodLength \in Int /\ all[i].date \in Int
    <3>1. all[i] \in AnyTxn /\ PeriodDays \in Nat
      BY <1>1, InputAssumption
    <3> QED BY <3>1 DEF AnyTxn, PeriodLength
  <2>1. CASE i <= n1
    <3>1. i \in 1..n1
      BY <2>1
    <3>2. /\ E1[i].days = DaysBetween(all[i].date, PeriodLength - 1)
          /\ E2[i].days = E1[i].days + WholePeriod
          /\ all[i].date < PeriodLength
      BY <3>1 DEF TwoPeriods
    <3> QED BY <3>2 DEF DaysHeld, WholePeriod
  <2>2. CASE ~(i <= n1)
    <3>1. i \in (n1 + 1)..(n1 + n2)
      BY <2>2
    <3>2. /\ E2[i].days = DaysBetween(all[i].date, 2 * PeriodLength - 1)
          /\ PeriodLength <= all[i].date
      BY <3>1 DEF TwoPeriods
    <3>3. ~(all[i].date < PeriodLength)
      BY <2>0, <3>2
    <3> QED BY <3>2, <3>3 DEF DaysHeld
  <2> QED BY <2>1, <2>2
<1>3. ASSUME NEW i \in 1..N PROVE f[i] = g[i]
  <2>1. LeftOf(E2, N, i) = StillHeld(all, i)
    BY LeftIsHeld
  <2>2. f[i] = LeftOf(E2, N, i) * E2[i].days
    BY DEF Weights
  <2>3. g[i] = StillHeld(all, i) * DaysHeld(all[i])
    BY <1>1
  <2> QED BY <1>2, <2>1, <2>2, <2>3
<1> HIDE DEF N, f, g
<1>4. SumFunctionOnSet(f, 1..N) = SumFunctionOnSet(g, 1..N)
  BY <1>1, <1>3, SumSame
<1> QED BY <1>1, <1>4 DEF N, f, g, HeldOf, WeighHeld

\* What calculate makes of two periods.
Second(first, second) ==
    Calculated(Calculated(<<>>, Reverse(first), PeriodLength - 1).rows, Reverse(second),
               2 * PeriodLength - 1)

\* Over two periods, calculate gives what is held by the days it is held, without error.
LEMMA HeldIs ==
    ASSUME NEW h1 \in Histories(0), NEW s \in Histories(BalanceAfter(h1, 0))
    PROVE  /\ ~Second(h1, NextPeriod(s)).error
           /\ Second(h1, NextPeriod(s)).finalAmount = HeldOf(h1 \o NextPeriod(s))
<1> DEFINE n1 == Len(h1)
           n2 == Len(s)
           B1 == NewestBalance(h1, n1, 0)
           h2 == NextPeriod(s)
           all == h1 \o h2
           end1 == PeriodLength - 1
           end2 == 2 * PeriodLength - 1
           E1 == Entries(<<>>, 0, h1, n1, end1)
           E2 == Entries(Carried(E1, n1), n1, h2, n2, end2)
           one == Calculated(<<>>, Reverse(h1), end1)
           two == Calculated(one.rows, Reverse(h2), end2)
<1>1. PeriodLength \in Nat /\ end1 \in Int /\ end2 \in Int
  <2>1. PeriodDays \in Nat
    BY InputAssumption
  <2>2. PeriodLength \in Nat
    BY <2>1 DEF PeriodLength
  <2> QED BY <2>2
<1>2. /\ n1 \in Nat /\ PastOf(h1, n1) /\ ChainOf(h1, n1, 0)
      /\ \A i \in 1..n1 : 0 <= h1[i].date /\ h1[i].date < PeriodLength
      /\ BalanceAfter(h1, 0) = B1 /\ B1 \in Nat
  <2>1. 0 \in Nat
    OBVIOUS
  <2> QED BY <2>1, HistoryIs
<1>3. /\ n2 \in Nat /\ PastOf(s, n2) /\ ChainOf(s, n2, B1)
      /\ \A i \in 1..n2 : 0 <= s[i].date /\ s[i].date < PeriodLength
      /\ NewestBalance(s, n2, B1) \in Nat
  <2>1. s \in Histories(B1)
    BY <1>2
  <2> HIDE DEF B1
  <2> QED BY <1>2, <2>1, HistoryIs
<1> HIDE DEF n1, n2, B1
<1>4. /\ PastOf(h2, n2) /\ ChainOf(h2, n2, B1)
      /\ \A i \in 1..n2 : PeriodLength <= h2[i].date
      /\ NewestBalance(h2, n2, B1) \in Nat
  BY <1>3, NextIs
<1>5. h1 \in [1..n1 -> AnyTxn] /\ h2 \in [1..n2 -> AnyTxn]
  BY <1>2, <1>4 DEF PastOf
<1> HIDE DEF h2, end1, end2
<1>6. /\ Books(E1, n1)
      /\ \A k \in 1..n1 : /\ E1[k].credit = Received(h1[k]) /\ E1[k].date = h1[k].date
                          /\ E1[k].days = DaysBetween(h1[k].date, end1)
      /\ In(E1, n1) - Out(E1, n1) = B1
      /\ RunCarries(one, E1, n1, B1)
  BY <1>1, <1>2, FirstRun DEF B1
<1> HIDE DEF E1, one
<1>7a. PICK a \in Nat : \E r : Covers(one.rows, a, r, Carried(E1, n1), n1, B1)
  BY <1>6 DEF RunCarries
<1>7. PICK r : Covers(one.rows, a, r, Carried(E1, n1), n1, B1)
  BY <1>7a
<1>8. AllBefore(E1, n1, h2, n2)
  <2> SUFFICES ASSUME NEW i \in 1..n1, NEW j \in 1..n2 PROVE E1[i].date < h2[j].date
    BY DEF AllBefore
  <2>1. h1[i] \in AnyTxn /\ h2[j] \in AnyTxn
    BY <1>5
  <2>2. h1[i].date \in Int /\ h2[j].date \in Int
    BY <2>1 DEF AnyTxn
  <2>3. E1[i].date = h1[i].date /\ h1[i].date < PeriodLength /\ PeriodLength <= h2[j].date
    BY <1>2, <1>4, <1>6
  <2> QED BY <1>1, <2>2, <2>3
<1>9a. NextRun(two, E2, E1, n1, h2, n2, end2, NewestBalance(h2, n2, B1))
  BY <1>1, <1>2, <1>3, <1>4, <1>6, <1>7, <1>8, SecondRun
<1>9. /\ EntriesAre(E2, Carried(E1, n1), n1, h2, n2, end2)
      /\ Books(E2, n1 + n2)
      /\ In(E2, n1 + n2) - Out(E2, n1 + n2) = NewestBalance(h2, n2, B1)
      /\ ~two.error
      /\ two.finalAmount = SumFunctionOnSet(Weights(E2, n1 + n2), 1..(n1 + n2))
  BY <1>9a DEF NextRun
<1> HIDE DEF E2, two
<1>10. /\ all \in [1..(n1 + n2) -> AnyTxn]
       /\ \A i \in 1..n1 : all[i] = h1[i]
       /\ \A k \in 1..n2 : all[n1 + k] = h2[k]
  <2>1. Joined(h1 \o h2, h1, n1, h2, n2)
    BY <1>2, <1>3, <1>5, JoinedIs
  <2> QED BY <2>1 DEF Joined
<1> HIDE DEF all
<1>11. E1 \in [1..n1 -> Entry]
  BY <1>6 DEF Books
<1> DEFINE C == Carried(E1, n1)
<1>12. /\ C \in [1..n1 -> Entry]
       /\ \A i \in 1..n1 : /\ C[i].credit = LeftOf(E1, n1, i) /\ C[i].debit = 0
                           /\ C[i].days = E1[i].days
  BY <1>2, <1>11, CarriedTyped
<1> HIDE DEF C
<1>13. /\ EntriesAre(E2, C, n1, h2, n2, end2)
       /\ \A i \in 1..n1 : E2[i].credit = C[i].credit /\ E2[i].days = C[i].days + WholePeriod
       /\ \A k \in 1..n2 : /\ E2[n1 + k].credit = Received(h2[k])
                           /\ E2[n1 + k].days = DaysBetween(h2[k].date, end2)
  BY <1>9 DEF EntriesAre, C
<1>14. ASSUME NEW l \in 0..n1 PROVE In(E2, l) = In(C, l)
  <2>1. NoDebits(C, n1)
    BY <1>12 DEF NoDebits
  <2> QED BY <1>2, <1>3, <1>13, <2>1, FirstOfRun
<1>15. \A i \in (n1 + 1)..(n1 + n2) : /\ E2[i].credit = Received(all[i])
                                      /\ E2[i].days = DaysBetween(all[i].date, end2)
                                      /\ PeriodLength <= all[i].date
  <2> SUFFICES ASSUME NEW i \in (n1 + 1)..(n1 + n2)
               PROVE  /\ E2[i].credit = Received(all[i])
                      /\ E2[i].days = DaysBetween(all[i].date, end2)
                      /\ PeriodLength <= all[i].date
    OBVIOUS
  <2> DEFINE k == i - n1
  <2>1. k \in 1..n2 /\ n1 + k = i
    BY <1>2, <1>3
  <2> HIDE DEF k
  <2> QED BY <1>4, <1>10, <1>13, <2>1
<1>16. n1 + n2 # 0 => In(E2, n1 + n2) - Out(E2, n1 + n2) = all[n1 + n2].post
  <2> SUFFICES ASSUME n1 + n2 # 0 PROVE NewestBalance(h2, n2, B1) = all[n1 + n2].post
    BY <1>9
  <2>1. CASE n2 = 0
    <3>1. n1 # 0 /\ n1 + n2 = n1 /\ n1 \in 1..n1
      BY <1>2, <1>3, <2>1
    <3>2. B1 = h1[n1].post
      BY <3>1 DEF B1, NewestBalance
    <3>3. NewestBalance(h2, n2, B1) = B1
      BY <2>1 DEF NewestBalance
    <3> QED BY <1>10, <3>1, <3>2, <3>3
  <2>2. CASE n2 # 0
    <3>1. n2 \in 1..n2
      BY <1>3, <2>2
    <3>2. NewestBalance(h2, n2, B1) = h2[n2].post
      BY <2>2 DEF NewestBalance
    <3> QED BY <1>10, <3>1, <3>2
  <2> QED BY <2>1, <2>2
<1>17. TwoPeriods(E1, n1, E2, n2, all, end1, end2)
  <2>1. \A i \in 1..n1 : /\ E1[i].credit = Received(all[i])
                         /\ E1[i].days = DaysBetween(all[i].date, end1)
                         /\ E2[i].credit = LeftOf(E1, n1, i)
                         /\ E2[i].days = E1[i].days + WholePeriod
                         /\ 0 <= all[i].date /\ all[i].date < PeriodLength
    BY <1>2, <1>6, <1>10, <1>12, <1>13
  <2>2. \A l \in 0..n1 : In(E2, l) = In(Carried(E1, n1), l)
    BY <1>14 DEF C
  <2> QED BY <1>6, <1>9, <1>10, <1>15, <1>16, <2>1, <2>2 DEF TwoPeriods
<1>18. WeighHeld(E2, n1 + n2, all)
  <2>1. end1 = PeriodLength - 1 /\ end2 = 2 * PeriodLength - 1
    BY DEF end1, end2
  <2> QED BY <1>2, <1>3, <1>17, <2>1, WeightsHeld
<1>19. two = Second(h1, h2)
  BY DEF two, one, Second, end1, end2
<1> QED BY <1>9, <1>18, <1>19 DEF all, h2, WeighHeld

\* [AirdropService] Over two periods a wallet's weight is the days each lamport it holds
\* has been held, whatever its transactions, their number and the length of a period.
THEOREM HeldCounted ==
    (input \in {NoInput} \cup Inputs) /\ [][FALSE]_input => []HeldIsCounted
<1>1. input \in {NoInput} \cup Inputs => HeldIsCounted
  <2> SUFFICES ASSUME input \in {NoInput} \cup Inputs, input.kind = "periods"
               PROVE  HeldIsCounted
    BY DEF HeldIsCounted
  <2>1. input \in PeriodInputs
    <3>1. NoInput.kind = "none"
      BY DEF NoInput
    <3>2. input \in ShareInputs => input.kind = "shares"
      BY DEF ShareInputs
    <3>3. input \in UseInputs => input.kind = "uses"
      BY DEF UseInputs
    <3> QED BY <3>1, <3>2, <3>3 DEF Inputs
  <2>2. PICK first \in Histories(0) :
            \E second \in Histories(BalanceAfter(first, 0)) :
                input = [kind |-> "periods", first |-> first, second |-> second]
    BY <2>1 DEF PeriodInputs
  <2>3. input.first \in Histories(0) /\ input.second \in Histories(BalanceAfter(input.first, 0))
    BY <2>2
  <2> DEFINE second == NextPeriod(input.second)
             all == input.first \o second
             two == Second(input.first, second)
  <2>4. /\ ~two.error
        /\ two.finalAmount = HeldOf(all)
    BY <2>3, HeldIs
  <2>5. two = Calculated(Calculated(<<>>, Reverse(input.first), PeriodLength - 1).rows,
                         Reverse(second), 2 * PeriodLength - 1)
    BY DEF Second
  <2> HIDE DEF second, two
  <2> QED BY <2>4, <2>5 DEF HeldIsCounted, HeldOf, second
<1>2. HeldIsCounted /\ [FALSE]_input => HeldIsCounted'
  BY DEF HeldIsCounted
<1> QED BY <1>1, <1>2, PTL

=============================================================================
