------------------------------ MODULE Deposits ------------------------------
(***************************************************************************)
(* AccountService.depositCredits and DepositService.handleDeposit: credits *)
(* bought with Stripe.  Stripe delivers the success of a payment at least  *)
(* once, and a payment link can be paid again, so a deposit may be handled *)
(* by several calls, one after the other or at the same time; the webhook  *)
(* is answered before any of them is through.  The tokens are minted in    *)
(* the callback of a MongoDB transaction, which the driver runs again when *)
(* the transaction is aborted for a transient reason.                      *)
(***************************************************************************)
EXTENDS Naturals

CONSTANTS
    Deposit,   \* ids of deposit documents
    Call,      \* calls of handleDeposit: deliveries of a payment's success
    NoDeposit, NoCredit,
    MaxRun,    \* runs of the callback the driver's time limit allows
    MaxCrash   \* bound of the model: restarts of the server

ASSUME DepositAssumption == NoDeposit \notin Deposit
ASSUME RunAssumption == MaxRun \in Nat \ {0} /\ MaxCrash \in Nat

\* Every run of the callback mints with a transaction of its own.
Credit == Call \X (1..MaxRun)

ASSUME CreditAssumption == NoCredit \notin Credit

VARIABLES
    doc,      \* the deposit documents
    call,     \* the calls of handleDeposit
    credit,   \* the chain: what became of each minting transaction
    crashes   \* restarts so far

vars == <<doc, call, credit, crashes>>

Running == {"read", "send", "await", "save", "commit", "catch"}
Ended == {"done", "failed", "lost", "dead"}

TypeOK ==
    /\ doc \in [Deposit -> [status : {"none", "pending", "fulfilled"},
                            txnHash : Credit \cup {NoCredit},
                            error : BOOLEAN]]
    /\ call \in [Call -> [pc : {"idle"} \cup Running \cup Ended,
                          of : Deposit \cup {NoDeposit},
                          run : 0..MaxRun,
                          modified : BOOLEAN]]
    /\ credit \in [Credit -> {"unsent", "inflight", "landed", "failed", "expired"}]
    /\ crashes \in 0..MaxCrash

Init ==
    /\ doc = [d \in Deposit |-> [status |-> "none", txnHash |-> NoCredit,
                                 error |-> FALSE]]
    /\ call = [h \in Call |-> [pc |-> "idle", of |-> NoDeposit, run |-> 0,
                               modified |-> FALSE]]
    /\ credit = [m \in Credit |-> "unsent"]
    /\ crashes = 0

\* The transaction of the callback's current run.
CreditOf(h) == <<h, call[h].run>>

Goes(h, to) == call' = [call EXCEPT ![h].pc = to]

\* The calls whose transaction has written deposit d and is still open.
Writers(d) == {h \in Call : call[h].of = d /\ call[h].pc = "commit"}

\* What the deposit reads once a call's Fulfilled and hash have reached it.
Fulfilled(h) == [doc EXCEPT ![call[h].of].status = "fulfilled",
                            ![call[h].of].txnHash = CreditOf(h)]

(***************************************************************************)
(* Buying and delivering.                                                  *)
(***************************************************************************)

\* The customer only learns the payment link once the deposit is committed.
DepositCredits(d) ==
    /\ doc[d].status = "none"
    /\ doc' = [doc EXCEPT ![d].status = "pending"]
    /\ UNCHANGED <<call, credit, crashes>>

\* handleStripeEvent starts handleDeposit and answers without waiting for it.
Delivers(h, d) ==
    /\ call[h].pc = "idle"
    /\ doc[d].status # "none"
    /\ call' = [call EXCEPT ![h].pc = "read", ![h].of = d]
    /\ UNCHANGED <<doc, credit, crashes>>

(***************************************************************************)
(* One run of the callback.                                                *)
(***************************************************************************)

\* The deposit is read, outside the session and whatever its status is.
Reads(h) ==
    /\ call[h].pc = "read"
    /\ call' = [call EXCEPT ![h].pc = "send", ![h].run = @ + 1, ![h].modified = FALSE]
    /\ UNCHANGED <<doc, credit, crashes>>

\* The database does not answer.  On a later run the catch block still has the
\* document of the run before; on the first it has nothing to save.
ReadFails(h) ==
    /\ call[h].pc = "read"
    /\ Goes(h, IF call[h].run = 0 THEN "lost" ELSE "catch")
    /\ UNCHANGED <<doc, credit, crashes>>

Broadcasts(h) ==
    /\ call[h].pc = "send"
    /\ credit' = [credit EXCEPT ![CreditOf(h)] = "inflight"]
    /\ Goes(h, "await")
    /\ UNCHANGED <<doc, crashes>>

\* Mutant: the mint is not awaited.
MintReturnsAtOnce(h) ==
    /\ call[h].pc = "await"
    /\ call' = [call EXCEPT ![h].pc = "save", ![h].modified = TRUE]
    /\ UNCHANGED <<doc, credit, crashes>>

\* mintToken saw its transaction land; Fulfilled and the hash are assigned to
\* the document in memory.
MintReturns(h) ==
    /\ call[h].pc = "await"
    /\ credit[CreditOf(h)] = "landed"
    /\ call' = [call EXCEPT ![h].pc = "save", ![h].modified = TRUE]
    /\ UNCHANGED <<doc, credit, crashes>>

\* Mutant: the wait for the confirmation has no time limit.
MintThrowsOnSend(h) ==
    /\ call[h].pc = "send"
    /\ Goes(h, "catch")
    /\ UNCHANGED <<doc, credit, crashes>>

\* mintToken throws: before the broadcast, for an error on chain, or for a
\* time limit that says nothing of the transaction.
MintThrows(h) ==
    /\ call[h].pc \in {"send", "await"}
    /\ Goes(h, "catch")
    /\ UNCHANGED <<doc, credit, crashes>>

\* deposit.save in the session: the first write of the transaction.
Saves(h) ==
    /\ call[h].pc = "save"
    /\ Writers(call[h].of) = {}
    /\ call' = [call EXCEPT ![h].pc = "commit", ![h].modified = FALSE]
    /\ UNCHANGED <<doc, credit, crashes>>

\* The transaction is aborted for a transient reason: it would write what
\* another one has written and not committed, or its commit is interrupted.
\* The driver runs the whole callback again, within its time limit.
AbortsTransiently(h) ==
    /\ \/ call[h].pc = "save" /\ Writers(call[h].of) # {}
       \/ call[h].pc = "commit"
    /\ Goes(h, IF call[h].run < MaxRun THEN "read" ELSE "catch")
    /\ UNCHANGED <<doc, credit, crashes>>

\* The save fails for good, and the document in memory stays modified.
SaveFails(h) ==
    /\ call[h].pc = "save"
    /\ Goes(h, "catch")
    /\ UNCHANGED <<doc, credit, crashes>>

Commits(h) ==
    /\ call[h].pc = "commit"
    /\ doc' = Fulfilled(h)
    /\ Goes(h, "done")
    /\ UNCHANGED <<credit, crashes>>

\* The commit fails for good, or its answer is lost after it took effect.  The
\* document in memory counts as saved either way.
CommitFails(h) ==
    /\ call[h].pc = "commit"
    /\ doc' \in {doc, Fulfilled(h)}
    /\ Goes(h, "catch")
    /\ UNCHANGED <<credit, crashes>>

(***************************************************************************)
(* The catch block, and the end of the process.                            *)
(***************************************************************************)

\* Mutant: the catch block saves the whole document it read.
CatchSavesAll(h) ==
    /\ call[h].pc = "catch"
    /\ Writers(call[h].of) = {}
    /\ doc' = [(IF call[h].modified THEN Fulfilled(h)
                ELSE [doc EXCEPT ![call[h].of].status = "pending"])
               EXCEPT ![call[h].of].error = TRUE]
    /\ Goes(h, "failed")
    /\ UNCHANGED <<credit, crashes>>

\* Mutant: the catch block only rethrows.
CatchRethrows(h) ==
    /\ call[h].pc = "catch"
    /\ Goes(h, "failed")
    /\ UNCHANGED <<doc, credit, crashes>>

\* The error is saved, outside the transaction, with whatever is modified in
\* memory and not saved yet.  It waits for a transaction that holds the document.
CatchSaves(h) ==
    /\ call[h].pc = "catch"
    /\ Writers(call[h].of) = {}
    /\ doc' = [(IF call[h].modified THEN Fulfilled(h) ELSE doc)
               EXCEPT ![call[h].of].error = TRUE]
    /\ Goes(h, "failed")
    /\ UNCHANGED <<credit, crashes>>

\* That save fails too: the error is only logged.
CatchFails(h) ==
    /\ call[h].pc = "catch"
    /\ Goes(h, "lost")
    /\ UNCHANGED <<doc, credit, crashes>>

Crash ==
    /\ crashes < MaxCrash
    /\ crashes' = crashes + 1
    /\ call' = [h \in Call |-> IF call[h].pc \in Running
                               THEN [call[h] EXCEPT !.pc = "dead"] ELSE call[h]]
    /\ UNCHANGED <<doc, credit>>

ChainSettles(m) ==
    /\ credit[m] = "inflight"
    /\ \E outcome \in {"landed", "failed", "expired"} :
           credit' = [credit EXCEPT ![m] = outcome]
    /\ UNCHANGED <<doc, call, crashes>>

CallStep(h) ==
    \/ Reads(h)
    \/ ReadFails(h)
    \/ Broadcasts(h)
    \/ MintReturns(h)
    \/ MintThrows(h)
    \/ Saves(h)
    \/ AbortsTransiently(h)
    \/ SaveFails(h)
    \/ Commits(h)
    \/ CommitFails(h)
    \/ CatchSaves(h)
    \/ CatchFails(h)

Next ==
    \/ \E d \in Deposit : DepositCredits(d)
    \/ \E h \in Call, d \in Deposit : Delivers(h, d)
    \/ \E h \in Call : CallStep(h)
    \/ \E m \in Credit : ChainSettles(m)
    \/ Crash

Spec == Init /\ [][Next]_vars

(***************************************************************************)
(* Fairness: Node goes on with every call; web3 gives a send up after a    *)
(* while, so nothing need be assumed of the chain.                         *)
(***************************************************************************)
Fairness == \A h \in Call : WF_vars(CallStep(h))

FairSpec == Spec /\ Fairness

(***************************************************************************)
(* Properties.                                                             *)
(***************************************************************************)

\* The hash of a fulfilled deposit is that of credits on chain, whichever of
\* several calls and runs wrote it last, and whether it was written by the
\* transaction or by the catch block after the transaction was given up.
FulfilledIsMinted ==
    \A d \in Deposit : doc[d].status = "fulfilled" =>
        doc[d].txnHash # NoCredit /\ credit[doc[d].txnHash] = "landed"

\* Credits on chain leave a trace: the deposit is fulfilled or tells of an
\* error, unless the call that minted them is still running, died with the
\* process, or could not even save its error.
MintedLeavesTrace ==
    \A m \in Credit : credit[m] = "landed" =>
        \/ doc[call[m[1]].of].status = "fulfilled"
        \/ doc[call[m[1]].of].error
        \/ call[m[1]].pc \in Running \cup {"lost", "dead"}

\* A fulfilled deposit stays fulfilled, whatever other calls that read it
\* while it was pending save later.
FulfilledIsFinal ==
    [][\A d \in Deposit :
          doc[d].status = "fulfilled" => doc'[d].status = "fulfilled"]_vars

\* Every call ends: two calls that keep aborting each other's transaction, and
\* a chain that never answers, do not keep it for ever.
Answered == \A h \in Call : call[h].pc = "read" ~> call[h].pc \in Ended

=============================================================================
