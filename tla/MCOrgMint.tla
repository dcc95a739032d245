---- MODULE MCOrgMint ----
(* One creation, a request that needs the token, and an update.            *)
EXTENDS OrgMint
====
