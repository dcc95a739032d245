----------------------------- MODULE MCPayments -----------------------------
(* Two payments for an organisation with a user and another organisation as  *)
(* members, whose tokens may be read to be 0 or 75 percent each: the shares   *)
(* round up, exceed the amount, and exceed it by more than the stack holds.  *)
EXTENDS Payments, TLC

CONSTANTS s1, s2, o1, o2, root, u1

MCKinds == s1 :> {"perform", "merchant"} @@ s2 :> {"newdeplan", "deplan"}
MCPaidTo == s1 :> o1 @@ s2 :> o2
MCHolders == o1 :> <<u1, o2>> @@ o2 :> <<u1>> @@ root :> <<>>
MCTreasury == o1 :> 25 @@ o2 :> 0 @@ root :> 0

=============================================================================
