--------------------------- MODULE GroupMembersMC ---------------------------
(* A small instance of GroupMembers for TLC. *)
EXTENDS GroupMembers, TLC

CONSTANTS a, b, c, r1, r2, w1, w2

\* Nothing tells the workers or the rows of requests apart.
Symmetric == Permutations(Workers) \cup Permutations(Requests)
=============================================================================
