------------------------------- MODULE Airdrop -------------------------------
(***************************************************************************)
(* Claims of the airdrop (AirdropService): a wallet that follows DePlan    *)
(* and used it enough gets a transaction, signed by the airdrop's account, *)
(* that it signs itself and posts for sending.  The transaction does not   *)
(* expire: it uses the durable nonce of the airdrop's account, and lands   *)
(* only while that nonce has the value it was built with.  All wallets'    *)
(* transactions use that nonce, and the first to land spends it for the    *)
(* others.  The nonce account is created on first use                      *)
(* (UsersServiceBase.getNonce).  The scripts replace the rows claims are   *)
(* made from, whenever an operator runs them.                              *)
(***************************************************************************)
EXTENDS Naturals, Sequences, FiniteSets

CONSTANTS
    Wallet,
    Req,         \* requests to create a claim
    NoReq,
    MaxPrice,    \* bound of the model: how often the scripts run
    MaxCrash     \* bound of the model: restarts of the server

ASSUME AirdropAssumption == NoReq \notin Req /\ {MaxPrice, MaxCrash} \subseteq Nat

VARIABLES
    row,         \* the RESULT row of each wallet
    req,         \* the requests, and the post of the transaction each one gave out
    nonces,      \* nonce documents of the airdrop's account, the oldest first
    nonceValue,  \* the chain: value of the nonce account each request may create
    txn,         \* the transaction each request signs, and what became of it
    paid,        \* the chain: claims paid to each wallet
    priced,      \* history: how often a claim of each wallet was priced
    overlap,     \* history: wallets with two requests at work at the same time
    crashes      \* restarts so far

vars == <<row, req, nonces, nonceValue, txn, paid, priced, overlap, crashes>>

Creating == {"read", "nonce", "account", "keep", "sign", "mark"}
Unanswered == Creating \cup {"answer"}
Posting == {"accept", "send", "await", "record"}

\* A row is absent, without a claim yet, or has a claim.
NoRow == [claim |-> "absent", isClaim |-> FALSE, hash |-> NoReq]

TypeOK ==
    /\ row \in [Wallet -> [claim : {"absent", "unpriced", "none", "some"}, isClaim : BOOLEAN,
                           hash : Req \cup {NoReq}]]
    /\ req \in [Req -> [pc : {"idle", "refused", "handed", "failed", "dead"}
                                \cup Unanswered \cup Posting,
                        wallet : Wallet, account : Req \cup {NoReq}]]
    /\ nonces \in Seq(Req)
    /\ nonceValue \in [Req -> Nat]
    /\ txn \in [Req -> [state : {"none", "signed", "inflight", "landed", "failed"}, value : Nat]]
    /\ paid \in [Wallet -> Nat]
    /\ priced \in [Wallet -> 0..MaxPrice]
    /\ overlap \subseteq Wallet
    /\ crashes \in 0..MaxCrash

Init ==
    /\ row = [w \in Wallet |-> NoRow]
    /\ req \in [Req -> [pc : {"idle"}, wallet : Wallet, account : {NoReq}]]
    /\ nonces = <<>>
    /\ nonceValue = [q \in Req |-> 0]
    /\ txn = [q \in Req |-> [state |-> "none", value |-> 0]]
    /\ paid = [w \in Wallet |-> 0]
    /\ priced = [w \in Wallet |-> 0]
    /\ overlap = {}
    /\ crashes = 0

Goes(q, to) == req' = [req EXCEPT ![q].pc = to]

Claimable(w) == row[w].claim = "some" /\ ~row[w].isClaim

(***************************************************************************)
(* The scripts.                                                            *)
(***************************************************************************)

\* calculate deletes the rows of a wallet ...
DeletesRows(w) ==
    /\ \A v \in Wallet : priced[v] < MaxPrice
    /\ row[w].claim \in {"none", "some"}
    /\ row' = [row EXCEPT ![w] = NoRow]
    /\ UNCHANGED <<req, nonces, nonceValue, txn, paid, priced, overlap, crashes>>

\* ... and inserts new ones, unless nothing is held.
InsertsRows(w) ==
    /\ \A v \in Wallet : priced[v] < MaxPrice
    /\ row[w].claim = "absent"
    /\ row' = [row EXCEPT ![w].claim = "unpriced"]
    /\ UNCHANGED <<req, nonces, nonceValue, txn, paid, priced, overlap, crashes>>

\* airdropCalculations writes the claims of all wallets, and only those; what
\* a wallet gets may round to nothing.
AirdropCalculations(claimants) ==
    /\ \E w \in Wallet : row[w].claim = "unpriced"
    /\ \A v \in Wallet : priced[v] < MaxPrice
    /\ row' = [w \in Wallet |->
                  IF row[w].claim # "unpriced" THEN row[w]
                  ELSE [row[w] EXCEPT !.claim = IF w \in claimants THEN "some" ELSE "none"]]
    /\ priced' = [w \in Wallet |-> priced[w] + (IF row[w].claim = "unpriced" THEN 1 ELSE 0)]
    /\ UNCHANGED <<req, nonces, nonceValue, txn, paid, overlap, crashes>>

(***************************************************************************)
(* createClaimTransaction.                                                 *)
(***************************************************************************)

\* Whether the wallet follows DePlan and used it enough is checked first; either
\* check may refuse it (CreateFails; see Socials and AirdropShares).
Creates(q) ==
    LET w == req[q].wallet
    IN  /\ req[q].pc = "idle"
        /\ Goes(q, "read")
        /\ overlap' = IF \E p \in Req \ {q} : req[p].wallet = w /\ req[p].pc \in Creating
                      THEN overlap \cup {w} ELSE overlap
        /\ UNCHANGED <<row, nonces, nonceValue, txn, paid, priced, crashes>>

\* Mutant: a claim that was made is made again.
ReadsAnyClaim(q) ==
    /\ req[q].pc = "read"
    /\ Goes(q, IF row[req[q].wallet].claim = "some" THEN "nonce" ELSE "refused")
    /\ UNCHANGED <<row, nonces, nonceValue, txn, paid, priced, overlap, crashes>>

\* getClaimByWallet: without a claim, or with one that was made, the answer has
\* no transaction.
ReadsClaim(q) ==
    /\ req[q].pc = "read"
    /\ Goes(q, IF Claimable(req[q].wallet) THEN "nonce" ELSE "refused")
    /\ UNCHANGED <<row, nonces, nonceValue, txn, paid, priced, overlap, crashes>>

\* getNonce finds the oldest document of the airdrop's account, or none.
FindsNonce(q) ==
    /\ req[q].pc = "nonce"
    /\ req' = [req EXCEPT ![q] =
                  IF nonces = <<>> THEN [@ EXCEPT !.pc = "account"]
                  ELSE [@ EXCEPT !.pc = "sign", !.account = Head(nonces)]]
    /\ UNCHANGED <<row, nonces, nonceValue, txn, paid, priced, overlap, crashes>>

\* createNonceAccount: the account is on chain when this returns.
CreatesNonceAccount(q) ==
    /\ req[q].pc = "account"
    /\ req' = [req EXCEPT ![q].pc = "keep", ![q].account = q]
    /\ nonceValue' = [nonceValue EXCEPT ![q] = 1]
    /\ UNCHANGED <<row, nonces, txn, paid, priced, overlap, crashes>>

\* The account is documented, and used even if another one is by now.
KeepsNonce(q) ==
    /\ req[q].pc = "keep"
    /\ nonces' = Append(nonces, q)
    /\ Goes(q, "sign")
    /\ UNCHANGED <<row, nonceValue, txn, paid, priced, overlap, crashes>>

\* The transaction is built with the value the nonce has now, and signed.
Signs(q) ==
    /\ req[q].pc = "sign"
    /\ txn' = [txn EXCEPT ![q] = [state |-> "signed", value |-> nonceValue[req[q].account]]]
    /\ Goes(q, "mark")
    /\ UNCHANGED <<row, nonces, nonceValue, paid, priced, overlap, crashes>>

\* Mutant: the claim is marked when it is read.
MarksWhenRead(q) ==
    /\ req[q].pc \in {"nonce", "mark"}
    /\ row' = [row EXCEPT ![req[q].wallet].isClaim = (row[req[q].wallet].claim # "absent")]
    /\ Goes(q, IF req[q].pc = "nonce" THEN "account" ELSE "answer")
    /\ UNCHANGED <<nonces, nonceValue, txn, paid, priced, overlap, crashes>>

\* The row, if there is one, is marked.
Marks(q) ==
    /\ req[q].pc = "mark"
    /\ row' = [row EXCEPT ![req[q].wallet].isClaim = (row[req[q].wallet].claim # "absent")]
    /\ Goes(q, "answer")
    /\ UNCHANGED <<nonces, nonceValue, txn, paid, priced, overlap, crashes>>

\* The wallet gets the transaction, which nothing else has kept.
Answers(q) ==
    /\ req[q].pc = "answer"
    /\ Goes(q, "handed")
    /\ UNCHANGED <<row, nonces, nonceValue, txn, paid, priced, overlap, crashes>>

\* A check, the chain or the database refuses or fails, the latter also after
\* it marked the row.
CreateFails(q) ==
    /\ req[q].pc \in Unanswered
    /\ Goes(q, "failed")
    /\ UNCHANGED <<row, nonces, nonceValue, txn, paid, priced, overlap, crashes>>

(***************************************************************************)
(* sendClaimTransaction.                                                   *)
(***************************************************************************)

\* The wallet posts its signed transaction, again if that failed.
Posts(q) ==
    /\ req[q].pc = "handed"
    /\ Goes(q, "accept")
    /\ UNCHANGED <<row, nonces, nonceValue, txn, paid, priced, overlap, crashes>>

\* The row is marked, whichever round it is of.
AcceptsPost(q) ==
    /\ req[q].pc = "accept"
    /\ row' = [row EXCEPT ![req[q].wallet].isClaim = (row[req[q].wallet].claim # "absent")]
    /\ Goes(q, "send")
    /\ UNCHANGED <<nonces, nonceValue, txn, paid, priced, overlap, crashes>>

\* The node simulates the transaction first, which fails with another nonce.
IsValid(q) == nonceValue[req[q].account] = txn[q].value

SendsClaim(q) ==
    /\ req[q].pc = "send"
    /\ IsValid(q) \/ txn[q].state # "signed"
    /\ txn' = [txn EXCEPT ![q].state = IF @ = "signed" THEN "inflight" ELSE @]
    /\ Goes(q, "await")
    /\ UNCHANGED <<row, nonces, nonceValue, paid, priced, overlap, crashes>>

\* The confirmation watches the nonce of the wallet, not the one the transaction
\* uses, so it waits until the transaction is executed, for ever if it never
\* is.  An error on chain is not looked at.
ConfirmsClaim(q) ==
    /\ req[q].pc = "await"
    /\ txn[q].state \in {"landed", "failed"}
    /\ Goes(q, "record")
    /\ UNCHANGED <<row, nonces, nonceValue, txn, paid, priced, overlap, crashes>>

RecordsHash(q) ==
    /\ req[q].pc = "record"
    /\ row' = [row EXCEPT ![req[q].wallet].hash =
                  IF row[req[q].wallet].claim = "absent" THEN @ ELSE q]
    /\ Goes(q, "handed")
    /\ UNCHANGED <<nonces, nonceValue, txn, paid, priced, overlap, crashes>>

\* A nonce account for the wallet cannot be had, or something is thrown, which
\* is noted in the row next to the mark.
PostFails(q) ==
    /\ req[q].pc \in Posting
    /\ Goes(q, "handed")
    /\ UNCHANGED <<row, nonces, nonceValue, txn, paid, priced, overlap, crashes>>

(***************************************************************************)
(* The chain, and restarts.                                                *)
(***************************************************************************)

\* A transaction is executed while its nonce is the account's, and advances it
\* even if the transfer fails.
Executes(q, outcome) ==
    /\ txn[q].state = "inflight"
    /\ IsValid(q)
    /\ txn' = [txn EXCEPT ![q].state = outcome]
    /\ nonceValue' = [nonceValue EXCEPT ![req[q].account] = @ + 1]
    /\ paid' = [paid EXCEPT ![req[q].wallet] = @ + (IF outcome = "landed" THEN 1 ELSE 0)]
    /\ UNCHANGED <<row, req, nonces, priced, overlap, crashes>>

\* Requests end; a transaction that was given out can still be posted.
Crash ==
    /\ crashes < MaxCrash
    /\ \E q \in Req : req[q].pc \in Unanswered \cup Posting
    /\ crashes' = crashes + 1
    /\ req' = [q \in Req |->
                  CASE req[q].pc \in Unanswered -> [req[q] EXCEPT !.pc = "dead"]
                    [] req[q].pc \in Posting    -> [req[q] EXCEPT !.pc = "handed"]
                    [] OTHER                    -> req[q]]
    /\ UNCHANGED <<row, nonces, nonceValue, txn, paid, priced, overlap>>

Next ==
    \/ \E q \in Req :
           \/ Creates(q) \/ ReadsClaim(q) \/ FindsNonce(q) \/ CreatesNonceAccount(q)
           \/ KeepsNonce(q) \/ Signs(q) \/ Marks(q) \/ Answers(q) \/ CreateFails(q)
           \/ Posts(q) \/ AcceptsPost(q) \/ SendsClaim(q) \/ ConfirmsClaim(q)
           \/ RecordsHash(q) \/ PostFails(q)
           \/ \E outcome \in {"landed", "failed"} : Executes(q, outcome)
    \/ \E w \in Wallet : DeletesRows(w) \/ InsertsRows(w)
    \/ \E claimants \in SUBSET Wallet : AirdropCalculations(claimants)
    \/ Crash

Spec == Init /\ [][Next]_vars

(***************************************************************************)
(* Properties.                                                             *)
(***************************************************************************)

\* A wallet is paid once for every claim that was priced for it, even if its
\* transactions are posted several times, the server restarts or the rows are
\* replaced meanwhile; only two creations at the same time can pay it again.
PaidAgainNeedsOverlap ==
    \A w \in Wallet : paid[w] > priced[w] => w \in overlap

\* A claim that is marked but not paid, with no transaction that could still
\* pay it and nobody working on it, was lost in one of three ways: another
\* wallet's transaction spent the nonce, the transfer failed on chain, or the
\* request ended between the mark and the answer, which alone has the transaction.
LostNeedsCause ==
    \A w \in Wallet :
        LET own == {q \in Req : req[q].wallet = w}
        IN  /\ row[w].isClaim
            /\ \A q \in own : req[q].pc \notin Unanswered /\ txn[q].state # "landed"
            /\ \A q \in own : ~(req[q].pc \in {"handed"} \cup Posting /\ IsValid(q))
            => \E q \in own :
                  \/ txn[q].state = "failed"
                  \/ req[q].pc \in {"failed", "dead"} /\ txn[q].state = "signed"
                  \/ txn[q].state \in {"signed", "inflight"} /\ \E p \in Req \ {q} :
                         /\ txn[p].state \in {"landed", "failed"}
                         /\ req[p].account = req[q].account
                         /\ txn[p].value = txn[q].value

=============================================================================
