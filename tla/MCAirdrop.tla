------------------------------ MODULE MCAirdrop ------------------------------
(* Claims of two wallets, logins at Twitter, and the arithmetic on all of    *)
(* its bounded inputs.  The three share no state, so a behaviour is one of   *)
(* a single one of them.                                                     *)
EXTENDS Airdrop, Socials, AirdropShares

MCInit == Init /\ SocialsInit /\ input \in {NoInput} \cup Inputs

MCNext ==
    /\ input = NoInput
    /\ UNCHANGED input
    /\ \/ Next /\ UNCHANGED socialVars /\ \A f \in Login : login[f].pc = "idle"
       \/ SocialsNext /\ UNCHANGED vars /\ row = [w \in Wallet |-> NoRow]
          /\ \A q \in Req : req[q].pc = "idle"

MCSpec == MCInit /\ [][MCNext]_<<vars, socialVars, input>>

Symmetry ==
    Permutations(Wallet) \cup Permutations(Owner) \cup Permutations(Req) \cup Permutations(Login)
=============================================================================
