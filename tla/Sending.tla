------------------------------- MODULE Sending -------------------------------
(***************************************************************************)
(* What an account sends on request: shares of an organisation             *)
(* (UsersService.sendAssets, and that of UsersServiceLite), credits        *)
(* (sendUsdc of a user and of an organisation), and withdrawals of credits *)
(* as DPLN or, swapped, as USDC (withdrawCredits).  The plain sendAssets   *)
(* transfers on chain from the callback of a MongoDB transaction, which    *)
(* the driver may run again, and books lamportsEarned; the lite API makes  *)
(* the recipient a member first and books nothing.                         *)
(***************************************************************************)
EXTENDS Integers

CONSTANTS
    Party,       \* accounts that may be members of the organisation
    NoParty,     \* no recipient; as an address, one that is nobody's here
    Send,        \* requests
    Kinds,       \* what each of them may be
    MaxRun,      \* runs of the callback the driver's time limit allows
    MaxStop      \* bound of the model: restarts

ASSUME SendingAssumption ==
    /\ Kinds \in [Send -> SUBSET {"plain", "lite", "credits", "usdc"}]
    /\ NoParty \notin Party /\ MaxRun \in Nat \ {0} /\ MaxStop \in Nat

VARIABLES
    member,      \* the accounts that are members
    earned,      \* their lamportsEarned
    holds,       \* the chain: the shares each account holds
    send,        \* the requests
    moved,       \* the chain: how often the transfer of each landed
    booked,      \* the requests whose transaction committed
    stops

sendingVars == <<member, earned, holds, send, moved, booked, stops>>

\* While its transaction is open a plain request sees the documents as they
\* were when it read the sender's member.
Open == {"transfer", "await", "book", "commit"}
Serving == {"read"} \cup Open

NoSend == [pc |-> "idle", kind |-> "plain", from |-> NoParty, to |-> NoParty,
           address |-> "none", txn |-> "none", run |-> 1, stale |-> FALSE]

\* Shares that were bought, or sent through the lite API, were not earned.
SendingInit ==
    /\ member \in SUBSET Party
    /\ earned = [a \in Party |-> IF a \in member THEN 1 ELSE 0]
    /\ \E more \in {0, 1} : holds = [a \in Party |-> earned[a] + more]
    /\ send = [r \in Send |-> NoSend]
    /\ moved = [r \in Send |-> 0]
    /\ booked = {}
    /\ stops = 0

SendGoes(r, to) == send' = [send EXCEPT ![r].pc = to]

\* A request for shares.
OfShares(r) == send[r].kind \in {"plain", "lite"}

\* The members a plain request writes.
Written(r) == {send[r].from, send[r].to} \cap Party

\* The recipient, if a member has to be made for him.
Inserted(r) == ({send[r].to} \cap Party) \ member

\* Where it sends to: a missing else makes the plain API use the address given
\* whether a recipient is given or not; the lite API, and the others, are as they
\* read.
Address(r) ==
    IF send[r].kind = "lite" /\ send[r].to # NoParty THEN "own" ELSE send[r].address

\* A request names a recipient, an address, which may be his, both, or neither.
Starts(r, kind, from, to, address) ==
    /\ send[r].pc = "idle"
    /\ to = NoParty => address # "own"
    /\ kind \in {"credits", "usdc"} => to = NoParty /\ address = "other"
    /\ send' = [send EXCEPT ![r] = [NoSend EXCEPT !.pc = "read", !.kind = kind, !.from = from,
                                                !.to = to, !.address = address]]
    /\ UNCHANGED <<member, earned, holds, moved, booked, stops>>

\* Mutant: what the member earned is not looked at.
ReadsMember(r) ==
    /\ send[r].pc = "read"
    /\ send[r].kind = "plain"
    /\ send' = [send EXCEPT ![r].pc = IF send[r].from \in member THEN "transfer" ELSE "failed",
                            ![r].stale = FALSE]
    /\ UNCHANGED <<member, earned, holds, moved, booked, stops>>

\* The plain sendAssets: the sender is a member, and earned enough.
ReadsEarned(r) ==
    /\ send[r].pc = "read"
    /\ send[r].kind = "plain"
    /\ send' = [send EXCEPT ![r].pc = IF send[r].from \in member /\ earned[send[r].from] >= 1
                                    THEN "transfer" ELSE "failed",
                            ![r].stale = FALSE]
    /\ UNCHANGED <<member, earned, holds, moved, booked, stops>>

\* The lite sendAssets: the sender is a member; a recipient who is none becomes
\* one at once, or as soon as no open transaction makes him one.
MakesMember(r) ==
    /\ send[r].pc = "read"
    /\ send[r].kind = "lite"
    /\ IF send[r].from \notin member
       THEN SendGoes(r, "failed") /\ UNCHANGED member
       ELSE /\ \A s \in Send : send[s].pc = "commit" => Inserted(r) \cap Written(s) = {}
            /\ send' = [s \in Send |->
                  IF s = r THEN [send[s] EXCEPT !.pc = "transfer"]
                  ELSE IF Inserted(r) \cap Written(s) # {} THEN [send[s] EXCEPT !.stale = TRUE]
                  ELSE send[s]]
            /\ member' = member \cup Inserted(r)
    /\ UNCHANGED <<earned, holds, moved, booked, stops>>

\* Credits: the balance that is read is enough.
ReadsCredits(r) ==
    /\ send[r].pc = "read"
    /\ ~OfShares(r)
    /\ SendGoes(r, "transfer")
    /\ UNCHANGED <<member, earned, holds, moved, booked, stops>>

\* The transaction is broadcast.
Transfers(r) ==
    /\ send[r].pc = "transfer"
    /\ Address(r) # "none"
    /\ send' = [send EXCEPT ![r].pc = "await", ![r].txn = "inflight"]
    /\ UNCHANGED <<member, earned, holds, moved, booked, stops>>

\* It lands, also after the server stopped waiting for it.
Lands(r) ==
    LET from == send[r].from
    IN  /\ send[r].txn = "inflight"
        /\ OfShares(r) => holds[from] >= 1
        /\ send' = [send EXCEPT ![r].txn = "landed"]
        /\ moved' = [moved EXCEPT ![r] = @ + 1]
        /\ holds' = [a \in Party |->
               holds[a] - (IF OfShares(r) /\ a = from THEN 1 ELSE 0)
                        + (IF a = send[r].to /\ Address(r) = "own" THEN 1 ELSE 0)]
        /\ UNCHANGED <<member, earned, booked, stops>>

\* The chain executes it with an error, or it expires.
TransferFails(r) ==
    /\ send[r].txn = "inflight"
    /\ send' = [send EXCEPT ![r].txn = "failed"]
    /\ UNCHANGED <<member, earned, holds, moved, booked, stops>>

\* Mutant: the transfer is not awaited.
TransferReturnsAtOnce(r) ==
    /\ send[r].pc = "await"
    /\ SendGoes(r, IF send[r].kind = "plain" THEN "book" ELSE "done")
    /\ UNCHANGED <<member, earned, holds, moved, booked, stops>>

\* sendTxn returns: a legacy transaction landed.
TransferReturns(r) ==
    /\ send[r].pc = "await"
    /\ send[r].kind # "usdc"
    /\ send[r].txn = "landed"
    /\ SendGoes(r, IF send[r].kind = "plain" THEN "book" ELSE "done")
    /\ UNCHANGED <<member, earned, holds, moved, booked, stops>>

\* The swap to USDC is a versioned transaction, for which sendTxn returns when it
\* was executed: the error in the answer of confirmTransaction is not looked at.
SwapReturns(r) ==
    /\ send[r].pc = "await"
    /\ send[r].kind = "usdc"
    /\ send[r].txn \in {"landed", "failed"}
    /\ SendGoes(r, "done")
    /\ UNCHANGED <<member, earned, holds, moved, booked, stops>>

\* Something throws, for good: the account has too little, there is no address,
\* the transaction fails or is not confirmed in time.
SendThrows(r) ==
    /\ send[r].pc \in {"read", "transfer", "await"}
    /\ SendGoes(r, "failed")
    /\ UNCHANGED <<member, earned, holds, moved, booked, stops>>

\* Another transaction holds a document this one writes, or has changed it since
\* this one began.
Conflicts(r) ==
    \/ send[r].stale
    \/ \E s \in Send \ {r} : send[s].pc = "commit" /\ Written(s) \cap Written(r) # {}

\* The members' documents are written in the transaction.
Books(r) ==
    /\ send[r].pc = "book"
    /\ ~Conflicts(r)
    /\ SendGoes(r, "commit")
    /\ UNCHANGED <<member, earned, holds, moved, booked, stops>>

\* A write conflict, or a transient error of the commit: the driver runs the
\* callback again, transfer included, within its time limit.
Reruns(r) ==
    /\ \/ send[r].pc = "book" /\ Conflicts(r)
       \/ send[r].pc = "commit"
    /\ IF send[r].run < MaxRun
       THEN send' = [send EXCEPT ![r].pc = "read", ![r].run = @ + 1,
                                 ![r].txn = "none", ![r].stale = FALSE]
       ELSE SendGoes(r, "failed")
    /\ UNCHANGED <<member, earned, holds, moved, booked, stops>>

Commits(r) ==
    /\ send[r].pc = "commit"
    /\ member' = member \cup Inserted(r)
    /\ earned' = [a \in Party |-> earned[a] - (IF a = send[r].from THEN 1 ELSE 0)
                                          + (IF a = send[r].to THEN 1 ELSE 0)]
    /\ send' = [s \in Send |->
           IF s = r THEN [send[s] EXCEPT !.pc = "done"]
           ELSE IF send[s].pc \in Open /\ Written(s) \cap Written(r) # {}
           THEN [send[s] EXCEPT !.stale = TRUE]
           ELSE send[s]]
    /\ booked' = booked \cup {r}
    /\ UNCHANGED <<holds, moved, stops>>

\* The process dies: transactions abort, transfers in flight may land.
Stops ==
    /\ stops < MaxStop
    /\ stops' = stops + 1
    /\ send' = [r \in Send |->
           IF send[r].pc \in Serving THEN [send[r] EXCEPT !.pc = "failed"] ELSE send[r]]
    /\ UNCHANGED <<member, earned, holds, moved, booked>>

SendingNext ==
    \/ \E r \in Send :
           \/ \E kind \in Kinds[r], from \in Party, to \in Party \cup {NoParty},
                 address \in {"none", "own", "other"} : Starts(r, kind, from, to, address)
           \/ ReadsEarned(r) \/ MakesMember(r) \/ ReadsCredits(r)
           \/ Transfers(r) \/ Lands(r) \/ TransferFails(r) \/ TransferReturns(r) \/ SwapReturns(r)
           \/ SendThrows(r) \/ Books(r) \/ Reruns(r) \/ Commits(r)
    \/ Stops

SendingSpec == SendingInit /\ [][SendingNext]_sendingVars

(***************************************************************************)
(* Properties.                                                             *)
(***************************************************************************)

\* No member's lamportsEarned becomes negative, although what is sent is
\* subtracted long after it was compared with what the member earned, and other
\* requests send from the same member meanwhile.
EarnedStaysPositive == \A a \in Party : earned[a] >= 0

\* A request that succeeded was transferred, the swap to USDC excepted; shares
\* are transferred once for every time they are booked, unless the callback ran
\* again or the request failed.
SentIsMoved ==
    \A r \in Send :
        /\ send[r].pc = "done" /\ send[r].kind # "usdc" => moved[r] > 0
        /\ moved[r] > 1 => send[r].run > 1
        /\ send[r].kind = "plain" /\ moved[r] > 0 /\ send[r].pc = "done" => r \in booked

=============================================================================
