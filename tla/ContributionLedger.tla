------------------------- MODULE ContributionLedger -------------------------
(***************************************************************************)
(* What the contributions of an organisation promise, without saying how:  *)
(* a contribution is opened, its stop books it once in the counters of the *)
(* database, and the booking is later kept, which needs the tokens to be   *)
(* on chain, or undone.  Undoing promises nothing of the chain: tokens may *)
(* land before it and after it.  Booked, kept and undone follow each other *)
(* once and in this order.                                                 *)
(***************************************************************************)
CONSTANT Contribution

VARIABLES
    phase,    \* where each contribution is
    onChain   \* the contributions whose tokens are on chain

ledgerVars == <<phase, onChain>>

Init ==
    /\ phase = [c \in Contribution |-> "none"]
    /\ onChain = {}

Move(c, from, to) ==
    /\ phase[c] = from
    /\ phase' = [phase EXCEPT ![c] = to]
    /\ UNCHANGED onChain

Open(c) == Move(c, "none", "open")

Book(c) == Move(c, "open", "booked")

Keep(c) == c \in onChain /\ Move(c, "booked", "kept")

Undo(c) == Move(c, "booked", "undone")

\* Tokens are only ever minted for work that was booked.
Mint(c) ==
    /\ phase[c] \in {"booked", "kept", "undone"}
    /\ onChain' = onChain \cup {c}
    /\ UNCHANGED phase

Next ==
    \E c \in Contribution :
        Open(c) \/ Book(c) \/ Keep(c) \/ Undo(c) \/ Mint(c)

Spec == Init /\ [][Next]_ledgerVars

=============================================================================
