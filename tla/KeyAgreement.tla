---------------------------- MODULE KeyAgreement ----------------------------
(***************************************************************************)
(* What the key store promises to the participants of a chat: one key is   *)
(* chosen for it, once, and nobody is ever given another.                  *)
(***************************************************************************)
CONSTANTS Chats, Users, Keys, NoKey

VARIABLES
    chosen,       \* the key of each chat
    known         \* the key each participant was given for it

Init ==
    /\ chosen = [c \in Chats |-> NoKey]
    /\ known = [c \in Chats |-> [u \in Users |-> NoKey]]

\* One batch may settle several chats, each of them with a key of its own that
\* goes by the name of the batch.
Choose(C, k) ==
    /\ \A c \in C : chosen[c] = NoKey
    /\ chosen' = [c \in Chats |-> IF c \in C THEN k ELSE chosen[c]]
    /\ UNCHANGED known

Learn(c, u) ==
    /\ chosen[c] # NoKey
    /\ known' = [known EXCEPT ![c][u] = chosen[c]]
    /\ UNCHANGED chosen

Next ==
    \/ \E C \in SUBSET Chats, k \in Keys : Choose(C, k)
    \/ \E c \in Chats, u \in Users : Learn(c, u)

KeySpec == Init /\ [][Next]_<<chosen, known>>
=============================================================================
