---- MODULE MCSaleOffers ----
(* Two requests, of one account or of two, on an offer that is sold once  *)
(* and one that is for life.                                              *)
EXTENDS SaleOffers
====
