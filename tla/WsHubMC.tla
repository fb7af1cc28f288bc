------------------------------ MODULE WsHubMC -------------------------------
(***************************************************************************)
(* The instance of WsHub for TLC.                                          *)
(***************************************************************************)
EXTENDS WsHub, TLC

CONSTANTS u, c1, c2

\* Two connections of one user, one after the other or both at once.
TwoOfOne == (c1 :> u) @@ (c2 :> u)
=============================================================================
