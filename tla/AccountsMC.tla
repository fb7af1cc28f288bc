----------------------------- MODULE AccountsMC -----------------------------
(* Small instances of Accounts for TLC. *)
EXTENDS Accounts, TLC

CONSTANTS s1, s2, w1, w2

\* Workers are interchangeable.
Alike == Permutations(Workers)

\* States that differ in what no step looks at any more: an entry that has expired
\* is as good as none, and a request that was turned away only has to answer.
Seen == <<account, ban, session, tokens, IF Serves(cache) THEN cache ELSE NoEntry, acts,
          [w \in Workers |-> IF hand[w].at \in {"refused", "failed"} THEN At("refused", NoToken)
                             ELSE hand[w]]>>
=============================================================================
