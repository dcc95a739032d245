---- MODULE MCContributions ----
(* An organisation of two members, ann and org, which is an organisation  *)
(* itself.  Nobody has invested when a contribution stops, or ann has, or *)
(* both have.  Eleven lamports shared 45 to 55 are rounded.               *)
EXTENDS Contributions

CONSTANTS ann, org

MCMember == {ann, org}
MCOrgMember == {org}
MCInvestments == {<<>>, [m \in {ann} |-> 45], [m \in {ann, org} |-> 45]}

====
