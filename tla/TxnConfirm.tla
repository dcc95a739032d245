----------------------------- MODULE TxnConfirm -----------------------------
(***************************************************************************)
(* How the server gets one transaction onto Solana: the first call of a    *)
(* sending function (ApiService.mintToken, createAndSendTxn or             *)
(* createFungibleTokensForOrganization) followed by                        *)
(* ApiService.confirmTxnWithRetry, which polls the hash and calls the same *)
(* function again when it does not like the answer.                        *)
(*                                                                         *)
(* A job is one such "send, then confirm" call chain.  Every call of the   *)
(* sending function builds and signs a new transaction, so attempt i of a  *)
(* job is a transaction of its own with its own hash, and each one that    *)
(* lands takes effect again.                                               *)
(*                                                                         *)
(* The chain is outside the repository: an attempt is broadcast, and later *)
(* lands, fails on chain, or expires with its blockhash, at any time, also *)
(* after the server stopped waiting for it.                                *)
(***************************************************************************)
EXTENDS Naturals

CONSTANTS
    Job,        \* the send-and-confirm call chains
    StrictJob,  \* those whose sender throws on an on-chain error
                \* (sendAndConfirmTransaction does, umi's sendAndConfirm and
                \* confirmTransaction do not)
    MaxSend     \* bound of the model: broadcasts of one job

ASSUME JobAssumption == StrictJob \subseteq Job
ASSUME MaxSendAssumption == MaxSend \in Nat \ {0}

VARIABLES
    pc,        \* where the job's call chain is
    hash,      \* the attempt confirmTxnWithRetry's txnHash names, 0 before
    txnError,  \* whether confirmTxnWithRetry's txnError is non-nil
    sent,      \* how many attempts were broadcast
    txn        \* the chain: what became of each attempt

confirmVars == <<pc, hash, txnError, sent, txn>>

Attempt == 1..MaxSend

\* "send" and "await" belong to the first call of the sending function,
\* "resend" and "reawait" to the call confirmTxnWithRetry makes.
Running == {"send", "await", "poll", "resend", "reawait"}
Ended == {"returned", "threw", "threwNil"}

TypeOK ==
    /\ pc \in [Job -> {"idle"} \cup Running \cup Ended]
    /\ hash \in [Job -> 0..MaxSend]
    /\ txnError \in [Job -> BOOLEAN]
    /\ sent \in [Job -> 0..MaxSend]
    /\ txn \in [Job -> [Attempt ->
                  {"unsent", "inflight", "landed", "failed", "expired"}]]

Init ==
    /\ pc = [j \in Job |-> "idle"]
    /\ hash = [j \in Job |-> 0]
    /\ txnError = [j \in Job |-> FALSE]
    /\ sent = [j \in Job |-> 0]
    /\ txn = [j \in Job |-> [i \in Attempt |-> "unsent"]]

Landed(j) == {i \in Attempt : txn[j][i] = "landed"}

(***************************************************************************)
(* The server's steps.                                                     *)
(***************************************************************************)

\* The caller calls the sending function for the first time.
Begin(j) ==
    /\ pc[j] = "idle"
    /\ pc' = [pc EXCEPT ![j] = "send"]
    /\ UNCHANGED <<hash, txnError, sent, txn>>

\* The sending function has built, signed and handed over a new transaction.
Broadcast(j) ==
    /\ pc[j] \in {"send", "resend"}
    /\ sent[j] < MaxSend
    /\ sent' = [sent EXCEPT ![j] = @ + 1]
    /\ txn' = [txn EXCEPT ![j][sent[j] + 1] = "inflight"]
    /\ pc' = [pc EXCEPT ![j] = IF @ = "send" THEN "await" ELSE "reawait"]
    /\ UNCHANGED <<hash, txnError>>

\* Mutant: the sender returns the hash as soon as the node accepted it.
SenderReturnsAtOnce(j) == txn[j][sent[j]] # "unsent"

\* What a sender that has seen its attempt processed returns a hash for.
SenderReturns(j) ==
    txn[j][sent[j]] \in
        IF j \in StrictJob THEN {"landed"} ELSE {"landed", "failed"}

\* The first call returns its hash; confirmTxnWithRetry starts polling it.
SendReturns(j) ==
    /\ pc[j] = "await"
    /\ SenderReturns(j)
    /\ hash' = [hash EXCEPT ![j] = sent[j]]
    /\ pc' = [pc EXCEPT ![j] = "poll"]
    /\ UNCHANGED <<txnError, sent, txn>>

\* The first call throws, before the broadcast (a key, an account or a
\* simulation error) or while waiting (an on-chain error, or a timeout, which
\* says nothing of the transaction).  The caller never reaches
\* confirmTxnWithRetry.
SendThrows(j) ==
    /\ pc[j] \in {"send", "await"}
    /\ pc' = [pc EXCEPT ![j] = "threw"]
    /\ UNCHANGED <<hash, txnError, sent, txn>>

\* Mutant: meta.err of the transaction is not looked at.
PollFindsAny(j) ==
    /\ pc[j] = "poll"
    /\ txn[j][hash[j]] \in {"landed", "failed"}
    /\ txnError' = [txnError EXCEPT ![j] = FALSE]
    /\ pc' = [pc EXCEPT ![j] = "returned"]
    /\ UNCHANGED <<hash, sent, txn>>

\* getParsedTransaction finds the transaction, without an error.
PollFinds(j) ==
    /\ pc[j] = "poll"
    /\ txn[j][hash[j]] = "landed"
    /\ txnError' = [txnError EXCEPT ![j] = FALSE]
    /\ pc' = [pc EXCEPT ![j] = "returned"]
    /\ UNCHANGED <<hash, sent, txn>>

\* getParsedTransaction finds the transaction, with meta.err set.
PollFindsError(j) ==
    /\ pc[j] = "poll"
    /\ txn[j][hash[j]] = "failed"
    /\ txnError' = [txnError EXCEPT ![j] = TRUE]
    /\ pc' = [pc EXCEPT ![j] = "resend"]
    /\ UNCHANGED <<hash, sent, txn>>

\* getParsedTransaction swallows its own errors and gives up with nil after its
\* retries: the polled node need not know a transaction another node confirmed.
PollMisses(j) ==
    /\ pc[j] = "poll"
    /\ txnError' = [txnError EXCEPT ![j] = FALSE]
    /\ pc' = [pc EXCEPT ![j] = "resend"]
    /\ UNCHANGED <<hash, sent, txn>>

\* Mutant: the hash is one attempt ahead of the one that was sent.
ResendReturnsNext(j) ==
    /\ pc[j] = "reawait"
    /\ SenderReturns(j)
    /\ hash' = [hash EXCEPT ![j] = sent[j] + 1]
    /\ pc' = [pc EXCEPT ![j] = IF txnError[j] THEN "poll" ELSE "threwNil"]
    /\ UNCHANGED <<txnError, sent, txn>>

\* The second call returns.  With an error of the poll still in txnError the
\* function recurses on the new hash, otherwise it throws that nil txnError.
ResendReturns(j) ==
    /\ pc[j] = "reawait"
    /\ SenderReturns(j)
    /\ hash' = [hash EXCEPT ![j] = sent[j]]
    /\ pc' = [pc EXCEPT ![j] = IF txnError[j] THEN "poll" ELSE "threwNil"]
    /\ UNCHANGED <<txnError, sent, txn>>

\* Mutant: the recursion goes on with the attempt that just failed.
ResendThrowsOnNew(j) ==
    /\ pc[j] \in {"resend", "reawait"}
    /\ hash' = [hash EXCEPT ![j] = sent[j]]
    /\ txnError' = [txnError EXCEPT ![j] = TRUE]
    /\ pc' = [pc EXCEPT ![j] = "poll"]
    /\ UNCHANGED <<sent, txn>>

\* The second call throws: its message is a non-nil txnError, so the function
\* recurses, on the hash it already had.  The recursive call hands its retries
\* over in the wrong position, so they are five again and never run out.
ResendThrows(j) ==
    /\ pc[j] \in {"resend", "reawait"}
    /\ txnError' = [txnError EXCEPT ![j] = TRUE]
    /\ pc' = [pc EXCEPT ![j] = "poll"]
    /\ UNCHANGED <<hash, sent, txn>>

ConfirmStep(j) ==
    \/ Broadcast(j)
    \/ SendReturns(j)
    \/ SendThrows(j)
    \/ PollFinds(j)
    \/ PollFindsError(j)
    \/ PollMisses(j)
    \/ ResendReturns(j)
    \/ ResendThrows(j)

(***************************************************************************)
(* The chain's steps, whatever the server does.                            *)
(***************************************************************************)

Settle(j, i) ==
    /\ txn[j][i] = "inflight"
    /\ \E outcome \in {"landed", "failed", "expired"} :
           txn' = [txn EXCEPT ![j][i] = outcome]
    /\ UNCHANGED <<pc, hash, txnError, sent>>

ChainStep(j) == \E i \in Attempt : Settle(j, i)

Next == \E j \in Job : Begin(j) \/ ConfirmStep(j) \/ ChainStep(j)

Spec == Init /\ [][Next]_confirmVars

(***************************************************************************)
(* Fairness: Node keeps running the call chain, the chain settles what it  *)
(* was given, and a node that is asked for a landed transaction again and  *)
(* again finds it some time (the read endpoint lags, it does not forget).  *)
(***************************************************************************)
Fairness ==
    \A j \in Job : /\ WF_confirmVars(ConfirmStep(j))
                   /\ WF_confirmVars(ChainStep(j))
                   /\ SF_confirmVars(PollFinds(j))

FairSpec == Spec /\ Fairness

(***************************************************************************)
(* Properties.                                                             *)
(***************************************************************************)

\* A returned hash names a transaction that took effect, whichever attempt
\* the retries ended on (a sender may return the hash of a failed one).
ReturnedIsLanded == \A j \in Job : pc[j] = "returned" => txn[j][hash[j]] = "landed"

\* For a sender that throws on errors, a nil throw is a false alarm: when the
\* caller is told that confirming failed, at least two of the job's attempts
\* are on chain (the one the poll missed and the one sent again).
NilThrowHidesDuplicate ==
    \A j \in StrictJob :
        pc[j] = "threwNil" => \E a, b \in Landed(j) : a # b

\* The call chain ends: retries are not bounded, but for a sender that throws
\* on errors the polled hash is always that of a landed transaction, so some
\* poll ends it.
Ends == \A j \in StrictJob : pc[j] = "send" ~> pc[j] \in Ended

=============================================================================
