----------------------------- MODULE ChatKeysMC -----------------------------
(* Small instances of ChatKeys for TLC. *)
EXTENDS ChatKeys

CONSTANTS a, b, k1, k2, k3, w1, w2, w3
=============================================================================
