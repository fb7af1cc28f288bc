------------------------------ MODULE CallRoom ------------------------------
(***************************************************************************)
(* What the group call hub promises about the people in a call, whoever    *)
(* connects, drops, times out or races: a room is opened by its host, who  *)
(* is inside; guests walk in, and anybody else becomes a guest only by     *)
(* being let in; people leave while somebody stays; the host is replaced   *)
(* only when leaving, by somebody who stays; a room that is over never     *)
(* opens again.  GroupCall implements this specification.                  *)
(***************************************************************************)
CONSTANTS Users, Calls, NoUser

VARIABLE room

Unused == [phase |-> "none", host |-> NoUser, guests |-> {}, inside |-> {}]
Closed == [Unused EXCEPT !.phase = "over"]

Init == room = [k \in Calls |-> Unused]

Open(k, u, invited) ==
    /\ room[k].phase = "none"
    /\ room' = [room EXCEPT ![k] =
          [phase |-> "live", host |-> u, guests |-> invited \cup {u}, inside |-> {u}]]

Enter(k, u) ==
    /\ room[k].phase = "live" /\ u \in room[k].guests
    /\ room' = [room EXCEPT ![k].inside = @ \cup {u}]

LetIn(k, u) ==
    /\ room[k].phase = "live" /\ u \notin room[k].guests
    /\ room' = [room EXCEPT ![k].guests = @ \cup {u}, ![k].inside = @ \cup {u}]

\* A host who leaves hands over, or keeps the role from outside.
Leave(k, gone, heir) ==
    LET staying == room[k].inside \ gone IN
    /\ room[k].phase = "live" /\ gone # {} /\ gone \subseteq room[k].inside
    /\ staying # {}
    /\ heir # room[k].host => room[k].host \in gone /\ heir \in staying
    /\ room' = [room EXCEPT ![k].inside = staying, ![k].host = heir]

\* The host ends it, the last one leaves, or nobody came in time.
Close(k) ==
    /\ room[k].phase = "live"
    /\ room' = [room EXCEPT ![k] = Closed]

\* The process stops and forgets its rooms.
Forget ==
    room' = [k \in Calls |-> IF room[k].phase = "live" THEN Closed ELSE room[k]]

Next ==
    \/ \E k \in Calls, u \in Users, invited \in SUBSET Users : Open(k, u, invited)
    \/ \E k \in Calls, u \in Users : Enter(k, u) \/ LetIn(k, u)
    \/ \E k \in Calls, gone \in SUBSET Users, heir \in Users : Leave(k, gone, heir)
    \/ \E k \in Calls : Close(k)
    \/ Forget

Spec == Init /\ [][Next]_room
=============================================================================
