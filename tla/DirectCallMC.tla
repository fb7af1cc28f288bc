---------------------------- MODULE DirectCallMC ----------------------------
(* Small instances of DirectCall for TLC. *)
EXTENDS DirectCall, TLC

CONSTANTS a, b, c, k1, k2, r1, r2

\* Two users who may call each other, twice.
Pair == {<<a, b>>, <<b, a>>}

\* Requests and calls are interchangeable; the two users are not, as only one of
\* them wants notices of calls.
TaskSymmetry == Permutations({r1, r2}) \cup Permutations({k1, k2})
=============================================================================
