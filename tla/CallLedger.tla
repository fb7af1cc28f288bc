----------------------------- MODULE CallLedger -----------------------------
(***************************************************************************)
(* What the one-to-one call service promises about the rows of its calls   *)
(* table, whatever the order of the requests: a call is placed only to a   *)
(* user who takes part in no live call, is answered at most once, and once *)
(* over it never comes back.  DirectCall implements this specification.    *)
(***************************************************************************)
CONSTANTS Users, Calls

VARIABLE ledger

Phases == {"free", "ringing", "live", "over"}

Unplaced == [phase |-> "free", parties |-> <<>>]

Placed(u, v) == [phase |-> "ringing", parties |-> <<u, v>>]

Alive(c) == ledger[c].phase \in {"ringing", "live"}

Engaged(u) == \E c \in Calls : Alive(c) /\ u \in {ledger[c].parties[1], ledger[c].parties[2]}

Init == ledger = [c \in Calls |-> Unplaced]

Place(c, u, v) ==
    /\ ledger[c].phase = "free"
    /\ u # v
    /\ ~Engaged(v)
    /\ ledger' = [ledger EXCEPT ![c] = Placed(u, v)]

Answer(c) ==
    /\ ledger[c].phase = "ringing"
    /\ ledger' = [ledger EXCEPT ![c].phase = "live"]

Close(c) ==
    /\ Alive(c)
    /\ ledger' = [ledger EXCEPT ![c].phase = "over"]

Next ==
    \/ \E c \in Calls, u, v \in Users : Place(c, u, v)
    \/ \E c \in Calls : Answer(c) \/ Close(c)

Spec == Init /\ [][Next]_ledger
=============================================================================
