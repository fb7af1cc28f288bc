--------------------------- MODULE ChatHistoryMC ---------------------------
(* Instances of ChatHistory for TLC.                                        *)
EXTENDS ChatHistory, TLC

CONSTANTS a, b, s1, s2, m1, m2, m3, m4, m5

\* One connection for each participant.
OneEach == s1 :> a @@ s2 :> b

\* Both connections are a's.
BothOfA == s1 :> a @@ s2 :> a

\* a wrote what the chat holds.
AllByA == [m \in Old |-> a]

\* The messages the chat holds differ only in name.
OldSymmetry == Permutations(Old)

=============================================================================
