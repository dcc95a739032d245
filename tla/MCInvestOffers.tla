--------------------------- MODULE MCInvestOffers ---------------------------
(* Two requests of a user or an organisation, or of one of each, on an      *)
(* offer of 3 that one of them cannot fill and two can exceed; and two       *)
(* answers to a member offer, of which a founder may give one.  The two      *)
(* share no state, so a behaviour is one of a single one of them.            *)
EXTENDS InvestOffers, MemberOffers, TLC

CONSTANTS cid, dan

MCHolding == cid :> 1 @@ dan :> 5

MCInit == InvestInit /\ MemberOffersInit

MCNext ==
    \/ InvestNext /\ UNCHANGED memberOfferVars /\ MemberOffersInit
    \/ MemberOffersNext /\ UNCHANGED investVars /\ round.status = "pending" /\ outages = 0
       /\ invested = [a \in Investor |-> 0] /\ \A q \in Order : order[q].pc = "idle"

MCSpec == MCInit /\ [][MCNext]_<<investVars, memberOfferVars>>

Symmetry == Permutations(Answer)

=============================================================================
