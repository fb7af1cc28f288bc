----------------------------- MODULE AdSalesMC ------------------------------
(* A small instance of AdSales for TLC. *)
EXTENDS AdSales, TLC

CONSTANTS u, p, q, o1, o2, s1, s2, s3, w1, w2
=============================================================================
