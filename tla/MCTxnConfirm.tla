---- MODULE MCTxnConfirm ----
(* Two jobs, one whose sender throws on on-chain errors and one whose     *)
(* sender does not, so both kinds of poll answer occur.                   *)
EXTENDS TxnConfirm

CONSTANTS mintJob, createJob

MCJob == {mintJob, createJob}
MCStrictJob == {mintJob}

====
