------------------------- MODULE GroupMembersProofs -------------------------
(***************************************************************************)
(* Proofs about GroupMembers for every set of users, requests and workers, *)
(* and every bound.  The invariant says what a handler beyond its first    *)
(* read may still rely on.                                                 *)
(***************************************************************************)
EXTENDS GroupMembers, TLAPS

Named(w) == hand[w].request \in Requests /\ request[hand[w].request].status # "none"

\* What is left, at the step a handler has reached, of what it had read.
HandOK(w) ==
    /\ hand[w].at = "asking" => /\ hand[w].user \in Users /\ hand[w].target \in Users
                                /\ Entitled(hand[w].user)
    /\ hand[w].at \in {"inviting", "accepting", "joining", "refusing", "accepted", "rejected"}
          => Named(w)
    /\ hand[w].at = "accepted" => request[hand[w].request].status = "approved"
    /\ hand[w].at = "rejected" => request[hand[w].request].status \in {"approved", "rejected"}
    /\ hand[w].at = "leaving" => hand[w].user \in Users
    /\ hand[w].at = "banning" => hand[w].target \in Users

HandsOK == \A w \in Workers : HandOK(w)

IInv == TypeOK /\ HandsOK /\ NobodyJoinsUninvited /\ CardIsTrue

Hands == [at : Steps, user : Users \cup {NoUser}, target : Users \cup {NoUser},
          request : Requests \cup {NoRequest}, allow : BOOLEAN, moved : 0 .. MaxMonths]

Rows == [status : {"none", "pending", "approved", "rejected"},
         by : Users \cup {NoUser}, to : Users \cup {NoUser}]

\* A step of worker w, one disjunct of Next.
Acts(w) ==
    \/ CreateRequest(w) \/ SendCard(w)
    \/ Reread(w) \/ Join(w) \/ Decline(w) \/ MarkCard(w)
    \/ Left(w) \/ Ban(w) \/ Pass(w) \/ WriteSettings(w) \/ Endow(w) \/ Stumble(w)
    \/ \E r \in Requests : Approve(w, r) \/ Reject(w, r)
    \/ \E u \in Users :
         \/ Leave(w, u) \/ TransferOwnership(w, u)
         \/ \E v \in Users : AddMember(w, u, v) \/ BanMember(w, u, v) \/ TransferAdmin(w, u, v)
         \/ \E allow \in BOOLEAN : UpdateSettings(w, u, allow)

\* A handler begins, goes on or ends: the other hands stay.
Handed(w) == \E h \in Hands : hand' = [hand EXCEPT ![w] = h]

\* A request is created, answered, or left alone; the community lets nobody in.
Asked(r) ==
    /\ request[r] = Unasked
    /\ \E u, v \in Users : /\ Entitled(u)
                           /\ request' = [request EXCEPT ![r] = [status |-> "pending", by |-> u, to |-> v]]
Answered(r) ==
    /\ request[r].status # "none"
    /\ \/ request' = [request EXCEPT ![r].status = "approved"]
       \/ request[r].status = "pending" /\ request' = [request EXCEPT ![r].status = "rejected"]
RequestStep ==
    /\ UNCHANGED <<community, admitted>>
    /\ request' = request \/ \E r \in Requests : Asked(r) \/ Answered(r)

-----------------------------------------------------------------------------

LEMMA IdleIsHand == Idle \in Hands
  BY MembersAssumption DEF Idle, Hands, Steps

\* Each action moves one hand, to a hand.
LEMMA ActsByHand ==
    ASSUME TypeOK, NEW w \in Workers, Acts(w)
    PROVE  Handed(w)
  <1>0. hand \in [Workers -> Hands] /\ hand[w] \in Hands
    BY DEF TypeOK, Hands
  <1>1. ASSUME NEW s \in Steps, NEW u \in Users \cup {NoUser}, NEW v \in Users \cup {NoUser},
               NEW r \in Requests \cup {NoRequest}, Start(w, s, u, v, r)
        PROVE  Handed(w)
    <2>1. [Idle EXCEPT !.at = s, !.user = u, !.target = v, !.request = r] \in Hands
      BY IdleIsHand DEF Hands, Idle
    <2> QED BY <2>1, <1>1 DEF Start, Handed
  <1>2. ASSUME NEW s \in Steps, GoOn(w, s)
        PROVE  Handed(w)
    <2>1. [hand[w] EXCEPT !.at = s] \in Hands
      BY <1>0 DEF Hands
    <2>2. hand' = [hand EXCEPT ![w] = [hand[w] EXCEPT !.at = s]]
      BY <1>0, <1>2 DEF GoOn
    <2> QED BY <2>1, <2>2 DEF Handed
  <1>3. ASSUME Finish(w) PROVE Handed(w)
    BY <1>3, IdleIsHand DEF Finish, Handed
  <1>4. CASE CreateRequest(w)
    <2> PICK r \in Requests :
           hand' = [hand EXCEPT ![w] = [Idle EXCEPT !.at = "inviting", !.request = r]]
      BY <1>4 DEF CreateRequest
    <2>1. [Idle EXCEPT !.at = "inviting", !.request = r] \in Hands
      BY IdleIsHand DEF Hands, Idle, Steps
    <2> QED BY <2>1 DEF Handed
  <1>5. CASE \/ SendCard(w) \/ MarkCard(w) \/ Left(w) \/ Ban(w) \/ Pass(w) \/ WriteSettings(w)
             \/ Endow(w) \/ Stumble(w)
    BY <1>5, <1>3 DEF SendCard, MarkCard, Left, Ban, Pass, WriteSettings, Endow, Stumble
  <1>6. CASE Reread(w) \/ Join(w) \/ Decline(w)
    <2>1. {"joining", "accepted", "rejected"} \subseteq Steps
      BY DEF Steps
    <2> QED BY <1>6, <2>1, <1>2, <1>3 DEF Reread, Join, Decline
  <1>7. CASE \E r \in Requests : Approve(w, r) \/ Reject(w, r)
    <2>1. {"accepting", "refusing"} \subseteq Steps
      BY DEF Steps
    <2> QED BY <1>7, <2>1, <1>1 DEF Approve, Reject
  <1>8. CASE \E u \in Users : \/ Leave(w, u) \/ TransferOwnership(w, u)
                              \/ \E v \in Users : AddMember(w, u, v) \/ BanMember(w, u, v) \/ TransferAdmin(w, u, v)
    <2>1. {"leaving", "asking", "banning", "passing", "endowing"} \subseteq Steps
      BY DEF Steps
    <2> QED BY <1>8, <2>1, <1>1 DEF Leave, TransferOwnership, AddMember, BanMember, TransferAdmin
  <1>9. CASE \E u \in Users, allow \in BOOLEAN : UpdateSettings(w, u, allow)
    <2> PICK u \in Users, allow \in BOOLEAN :
           hand' = [hand EXCEPT ![w] = [Idle EXCEPT !.at = "setting", !.allow = allow,
                                                    !.moved = settings.moved]]
      BY <1>9 DEF UpdateSettings
    <2>1. settings.moved \in 0 .. MaxMonths
      BY DEF TypeOK
    <2>2. [Idle EXCEPT !.at = "setting", !.allow = allow, !.moved = settings.moved] \in Hands
      BY <2>1, IdleIsHand DEF Hands, Idle, Steps
    <2> QED BY <2>2 DEF Handed
  <1> QED BY <1>4, <1>5, <1>6, <1>7, <1>8, <1>9 DEF Acts

\* No handler of the group writes the members of the community.
LEMMA CommunityStays ==
    ASSUME NEW w \in Workers, Acts(w)
    PROVE  UNCHANGED <<community, admitted>>
  <1>1. CASE \/ CreateRequest(w) \/ SendCard(w) \/ Reread(w) \/ Join(w) \/ Decline(w) \/ MarkCard(w)
             \/ Left(w) \/ Ban(w) \/ Pass(w) \/ WriteSettings(w) \/ Endow(w) \/ Stumble(w)
    BY <1>1 DEF CreateRequest, SendCard, Reread, Join, Decline, MarkCard, Left, Ban, Pass,
                WriteSettings, Endow, Stumble
  <1>2. CASE \E r \in Requests : Approve(w, r) \/ Reject(w, r)
    BY <1>2 DEF Approve, Reject
  <1>3. CASE \E u \in Users : \/ Leave(w, u) \/ TransferOwnership(w, u)
                              \/ \E v \in Users : AddMember(w, u, v) \/ BanMember(w, u, v) \/ TransferAdmin(w, u, v)
                              \/ \E allow \in BOOLEAN : UpdateSettings(w, u, allow)
    BY <1>3 DEF Leave, TransferOwnership, AddMember, BanMember, TransferAdmin, UpdateSettings
  <1> QED BY <1>1, <1>2, <1>3 DEF Acts

\* Each action does one of three things to the requests.
LEMMA ActsOnRequests ==
    ASSUME IInv, NEW w \in Workers, Acts(w)
    PROVE  RequestStep
  <1>0. HandOK(w) /\ UNCHANGED <<community, admitted>>
    BY CommunityStays DEF IInv, HandsOK
  <1>1. CASE CreateRequest(w)
    <2> PICK r \in Requests :
           /\ request[r] = Unasked
           /\ request' = [request EXCEPT ![r] = [status |-> "pending", by |-> hand[w].user, to |-> hand[w].target]]
      BY <1>1 DEF CreateRequest
    <2>1. Asked(r)
      BY <1>0, <1>1 DEF HandOK, Asked, CreateRequest
    <2> QED BY <1>0, <2>1 DEF RequestStep
  <1>2. CASE Join(w)
    BY <1>0, <1>2 DEF HandOK, Named, Join, RequestStep, Answered
  <1>3. CASE Decline(w)
    BY <1>0, <1>3 DEF HandOK, Named, Decline, RequestStep, Answered
  <1>4. CASE request' = request
    BY <1>0, <1>4 DEF RequestStep
  <1>5. CASE \/ SendCard(w) \/ Reread(w) \/ MarkCard(w) \/ Left(w) \/ Ban(w) \/ Pass(w)
             \/ WriteSettings(w) \/ Endow(w) \/ Stumble(w)
    BY <1>5, <1>4 DEF SendCard, Reread, MarkCard, Left, Ban, Pass, WriteSettings, Endow, Stumble
  <1>6. CASE \E r \in Requests : Approve(w, r) \/ Reject(w, r)
    BY <1>6, <1>4 DEF Approve, Reject
  <1>7. CASE \E u \in Users : \/ Leave(w, u) \/ TransferOwnership(w, u)
                              \/ \E v \in Users : AddMember(w, u, v) \/ BanMember(w, u, v) \/ TransferAdmin(w, u, v)
                              \/ \E allow \in BOOLEAN : UpdateSettings(w, u, allow)
    BY <1>7, <1>4 DEF Leave, TransferOwnership, AddMember, BanMember, TransferAdmin, UpdateSettings
  <1> QED BY <1>1, <1>2, <1>3, <1>5, <1>6, <1>7 DEF Acts

\* A request keeps its users, an approval is never lost, a refusal only to an approval.
LEMMA RequestsAreKept ==
    ASSUME IInv, RequestStep, NEW r \in Requests, request[r].status # "none"
    PROVE  /\ request'[r].status # "none"
           /\ request'[r].by = request[r].by
           /\ request'[r].to = request[r].to
           /\ request[r].status = "approved" => request'[r].status = "approved"
           /\ request[r].status = "rejected" => request'[r].status \in {"approved", "rejected"}
  <1>1. request \in [Requests -> Rows]
    BY DEF IInv, TypeOK, Rows
  <1>2. ASSUME NEW q \in Requests, Asked(q) PROVE request'[r] = request[r]
    BY <1>1, <1>2 DEF Asked, Unasked
  <1>3. ASSUME NEW q \in Requests, Answered(q)
        PROVE  /\ request'[r].status # "none"
               /\ request'[r].by = request[r].by
               /\ request'[r].to = request[r].to
               /\ request[r].status = "approved" => request'[r].status = "approved"
               /\ request[r].status = "rejected" => request'[r].status \in {"approved", "rejected"}
    BY <1>1, <1>3 DEF Answered, Rows
  <1> QED BY <1>2, <1>3 DEF RequestStep

\* Whoever is entitled stays so.
LEMMA EntitledStays ==
    ASSUME IInv, RequestStep, NEW u \in Users, Entitled(u)
    PROVE  Entitled(u)'
  BY RequestsAreKept DEF Entitled, RequestStep

LEMMA RequestsStayTyped ==
    ASSUME IInv, RequestStep
    PROVE  /\ request' \in [Requests -> Rows]
           /\ \A r \in Requests : request'[r].status # "none" =>
                /\ request'[r].by \in Users /\ request'[r].to \in Users
                /\ Entitled(request[r].by)'
  <1>1. request \in [Requests -> Rows]
    BY DEF IInv, TypeOK, Rows
  <1>2. \A r \in Requests : request[r].status # "none" =>
           request[r].by \in Users /\ request[r].to \in Users /\ Entitled(request[r].by)
    BY DEF IInv, TypeOK, NobodyJoinsUninvited
  <1>3. CASE request' = request
    BY <1>1, <1>2, <1>3 DEF Entitled, RequestStep
  <1>4. ASSUME NEW q \in Requests, Asked(q) PROVE request' \in [Requests -> Rows]
    <2> PICK u \in Users, v \in Users :
           request' = [request EXCEPT ![q] = [status |-> "pending", by |-> u, to |-> v]]
      BY <1>4 DEF Asked
    <2>1. [status |-> "pending", by |-> u, to |-> v] \in Rows
      BY DEF Rows
    <2> QED BY <1>1, <2>1
  <1>5. ASSUME NEW q \in Requests, Answered(q) PROVE request' \in [Requests -> Rows]
    <2> PICK s \in {"approved", "rejected"} : request' = [request EXCEPT ![q].status = s]
      BY <1>5 DEF Answered
    <2>1. [request[q] EXCEPT !.status = s] \in Rows
      BY <1>1 DEF Rows
    <2>2. request' = [request EXCEPT ![q] = [request[q] EXCEPT !.status = s]]
      BY <1>1
    <2> QED BY <1>1, <2>1, <2>2
  <1>6. ASSUME NEW r \in Requests, request'[r].status # "none"
        PROVE  request'[r].by \in Users /\ request'[r].to \in Users /\ Entitled(request[r].by)'
    <2>1. CASE request[r].status # "none"
      BY <1>2, <2>1, RequestsAreKept, EntitledStays
    <2>2. CASE request[r].status = "none"
      <3>1. ~ \E q \in Requests : Answered(q)
        BY <1>1, <1>6, <2>2 DEF Answered
      <3>2. PICK q \in Requests : Asked(q)
        BY <1>6, <2>2, <3>1 DEF RequestStep
      <3>3. PICK u \in Users, v \in Users :
               /\ Entitled(u)
               /\ request' = [request EXCEPT ![q] = [status |-> "pending", by |-> u, to |-> v]]
        BY <3>2 DEF Asked
      <3>4. q = r
        BY <1>1, <1>6, <2>2, <3>3
      <3>5. request'[r].by = u /\ request'[r].to = v
        BY <1>1, <3>3, <3>4
      <3>6. Entitled(u)'
        BY <3>3, EntitledStays
      <3> QED BY <3>5, <3>6 DEF Entitled
    <2> QED BY <2>1, <2>2
  <1> QED BY <1>3, <1>4, <1>5, <1>6 DEF RequestStep

-----------------------------------------------------------------------------
(* The parts of the invariant *)

LEMMA InitIInv ==
    ASSUME Init
    PROVE  IInv
  <1>1. Idle \in Hands /\ Unasked \in Rows
    BY IdleIsHand DEF Unasked, Rows
  <1>2. TypeOK
    <2>1. hand \in [Workers -> Hands] /\ request \in [Requests -> Rows]
      BY <1>1 DEF Init
    <2>2. \A r \in Requests : request[r].status = "none"
      BY DEF Init, Unasked
    <2>3. /\ part \in [Users -> {"out", "member", "admin"}]
          /\ card \in [Requests -> {"none", "pending", "accepted", "rejected"}]
          /\ banned \cup community \cup admitted \subseteq Users
      BY DEF Init
    <2>4. /\ settings \in [row : BOOLEAN, allow : BOOLEAN, moved : 0 .. MaxMonths]
          /\ month \in 1 .. MaxMonths /\ acts \in 0 .. MaxActs
      BY MembersAssumption DEF Init
    <2> QED BY <2>1, <2>2, <2>3, <2>4 DEF TypeOK, Hands, Rows
  <1>3. HandsOK
    BY DEF Init, HandsOK, HandOK, Idle
  <1>4. NobodyJoinsUninvited
    BY MembersAssumption DEF Init, NobodyJoinsUninvited, Entitled, Members, Unasked
  <1>5. CardIsTrue
    BY DEF Init, CardIsTrue
  <1> QED BY <1>2, <1>3, <1>4, <1>5 DEF IInv

\* What an action does to the tables other than the requests.
LEMMA TablesStayTyped ==
    ASSUME IInv, NEW w \in Workers, Acts(w)
    PROVE  /\ part' \in [Users -> {"out", "member", "admin"}]
           /\ (banned \cup community \cup admitted)' \subseteq Users
           /\ card' \in [Requests -> {"none", "pending", "accepted", "rejected"}]
           /\ settings' \in [row : BOOLEAN, allow : BOOLEAN, moved : 0 .. MaxMonths]
           /\ month' \in 1 .. MaxMonths
           /\ acts' \in 0 .. MaxActs
  <1>0. /\ part \in [Users -> {"out", "member", "admin"}]
        /\ banned \cup community \cup admitted \subseteq Users
        /\ UNCHANGED <<community, admitted>>
        /\ card \in [Requests -> {"none", "pending", "accepted", "rejected"}]
        /\ settings \in [row : BOOLEAN, allow : BOOLEAN, moved : 0 .. MaxMonths]
        /\ month \in 1 .. MaxMonths /\ month \in 0 .. MaxMonths
        /\ acts \in 0 .. MaxActs
        /\ HandOK(w)
        /\ hand[w].allow \in BOOLEAN /\ hand[w].moved \in 0 .. MaxMonths
    BY MembersAssumption, CommunityStays DEF IInv, TypeOK, HandsOK
  <1>1. CASE UNCHANGED <<part, banned, card, settings, month, acts>>
    BY <1>0, <1>1
  <1>2. CASE UNCHANGED <<part, banned, card, settings, month>> /\ acts < MaxActs /\ acts' = acts + 1
    BY <1>0, <1>2, MembersAssumption
  <1>3. CASE CreateRequest(w) \/ Reread(w) \/ Decline(w) \/ Stumble(w)
    BY <1>3, <1>1 DEF CreateRequest, Reread, Decline, Stumble
  <1>4. CASE SendCard(w) \/ MarkCard(w)
    BY <1>0, <1>4 DEF SendCard, MarkCard
  <1>5. CASE Join(w)
    BY <1>0, <1>5 DEF Join
  <1>6. CASE Left(w) \/ Endow(w)
    BY <1>0, <1>6 DEF Left, Endow
  <1>7. CASE Ban(w)
    BY <1>0, <1>7 DEF Ban, HandOK
  <1>8. CASE Pass(w)
    <2>1. settings' = [settings EXCEPT !.row = TRUE, !.moved = month]
      BY <1>8 DEF Pass
    <2>2. settings' \in [row : BOOLEAN, allow : BOOLEAN, moved : 0 .. MaxMonths]
      BY <1>0, <2>1
    <2>3. part' \in [Users -> {"out", "member", "admin"}]
      BY <1>0, <1>8 DEF Pass
    <2> QED BY <1>0, <1>8, <2>2, <2>3 DEF Pass
  <1>9. CASE WriteSettings(w)
    <2>1. settings' = [row |-> TRUE, allow |-> hand[w].allow \/ ~settings.row, moved |-> hand[w].moved]
      BY <1>9 DEF WriteSettings
    <2>2. (hand[w].allow \/ ~settings.row) \in BOOLEAN
      OBVIOUS
    <2>3. settings' \in [row : BOOLEAN, allow : BOOLEAN, moved : 0 .. MaxMonths]
      BY <1>0, <2>1, <2>2
    <2> QED BY <1>0, <1>9, <2>3 DEF WriteSettings
  <1>10. CASE \E r \in Requests : Approve(w, r) \/ Reject(w, r)
    BY <1>10, <1>1 DEF Approve, Reject
  <1>11. CASE \E u \in Users : Leave(w, u) \/ \E v \in Users : AddMember(w, u, v)
    BY <1>11, <1>1 DEF Leave, AddMember
  <1>12. CASE \E u \in Users : \/ TransferOwnership(w, u)
                               \/ \E v \in Users : BanMember(w, u, v) \/ TransferAdmin(w, u, v)
                               \/ \E allow \in BOOLEAN : UpdateSettings(w, u, allow)
    BY <1>12, <1>2 DEF TransferOwnership, BanMember, TransferAdmin, UpdateSettings
  <1> QED BY <1>3, <1>4, <1>5, <1>6, <1>7, <1>8, <1>9, <1>10, <1>11, <1>12 DEF Acts

\* The hands of the others rely on requests that are kept.
LEMMA OtherHands ==
    ASSUME IInv, RequestStep, NEW w \in Workers, Handed(w), NEW x \in Workers, x # w
    PROVE  HandOK(x)'
  <1>1. hand'[x] = hand[x]
    BY DEF Handed, IInv, TypeOK
  <1>2. HandOK(x)
    BY DEF IInv, HandsOK
  <1>3. ASSUME Named(x)
        PROVE  /\ Named(x)'
               /\ request[hand[x].request].status = "approved" => request'[hand[x].request].status = "approved"
               /\ request[hand[x].request].status \in {"approved", "rejected"} =>
                    request'[hand[x].request].status \in {"approved", "rejected"}
    BY <1>1, <1>3, RequestsAreKept DEF Named
  <1>4. ASSUME hand[x].at = "asking" PROVE Entitled(hand[x].user)'
    <2>1. hand[x].user \in Users /\ Entitled(hand[x].user)
      BY <1>2, <1>4 DEF HandOK
    <2>2. \A u \in Users : Entitled(u) => Entitled(u)'
      BY EntitledStays
    <2> QED BY <1>1, <2>1, <2>2 DEF Entitled
  <1> QED BY <1>1, <1>2, <1>3, <1>4 DEF HandOK

\* A handler that begins, or goes on, has what it relies on from what it has just read.
LEMMA OwnHand ==
    ASSUME IInv, RequestStep, NEW w \in Workers, Acts(w)
    PROVE  HandOK(w)'
  <1>0. /\ hand \in [Workers -> Hands]
        /\ request \in [Requests -> Rows]
        /\ HandOK(w)
    BY DEF IInv, TypeOK, HandsOK, Hands, Rows
  <1>1. CASE hand'[w] = Idle
    BY <1>1 DEF HandOK, Idle
  <1>13. ASSUME Finish(w) PROVE HandOK(w)'
    BY <1>0, <1>1, <1>13 DEF Finish
  <1>14. ASSUME NEW s \in Steps, GoOn(w, s)
         PROVE  hand'[w].at = s /\ hand'[w].request = hand[w].request
    BY <1>0, <1>14 DEF GoOn, Hands
  <1>15. {"joining", "accepted", "rejected"} \subseteq Steps
    BY DEF Steps
  <1>2. CASE \/ SendCard(w) \/ MarkCard(w) \/ Left(w) \/ Ban(w) \/ Pass(w) \/ WriteSettings(w)
             \/ Endow(w) \/ Stumble(w)
    BY <1>0, <1>1, <1>2 DEF SendCard, MarkCard, Left, Ban, Pass, WriteSettings, Endow, Stumble, Finish
  <1>3. CASE CreateRequest(w)
    <2> PICK r \in Requests :
           /\ request' = [request EXCEPT ![r] = [status |-> "pending", by |-> hand[w].user, to |-> hand[w].target]]
           /\ hand' = [hand EXCEPT ![w] = [Idle EXCEPT !.at = "inviting", !.request = r]]
      BY <1>3 DEF CreateRequest
    <2>1. hand'[w].at = "inviting" /\ hand'[w].request = r
      BY <1>0 DEF Idle
    <2>2. request'[r].status = "pending"
      BY <1>0
    <2> QED BY <2>1, <2>2 DEF HandOK, Named
  <1>4. CASE Reread(w)
    <2>1. Named(w) /\ request' = request /\ (GoOn(w, "joining") \/ Finish(w))
      BY <1>0, <1>4 DEF HandOK, Reread
    <2>2. CASE GoOn(w, "joining")
      <3>1. hand'[w].at = "joining" /\ hand'[w].request = hand[w].request
        BY <1>14, <1>15, <2>2
      <3> QED BY <2>1, <3>1 DEF HandOK, Named
    <2> QED BY <1>13, <2>1, <2>2
  <1>5. CASE Join(w)
    <2>1. \/ Finish(w)
          \/ /\ Named(w) /\ GoOn(w, "accepted")
             /\ request' = [request EXCEPT ![hand[w].request].status = "approved"]
      BY <1>0, <1>5 DEF HandOK, Join
    <2>2. CASE GoOn(w, "accepted")
      <3>1. hand'[w].at = "accepted" /\ hand'[w].request = hand[w].request
        BY <1>14, <1>15, <2>2
      <3>2. CASE Finish(w)
        BY <1>13, <3>2
      <3>3. CASE /\ Named(w)
                 /\ request' = [request EXCEPT ![hand[w].request].status = "approved"]
        <4>1. request'[hand[w].request].status = "approved"
          BY <1>0, <3>3 DEF Named, Rows
        <4> QED BY <3>1, <3>3, <4>1 DEF HandOK, Named
      <3> QED BY <2>1, <3>2, <3>3
    <2> QED BY <1>13, <2>1, <2>2
  <1>6. CASE Decline(w)
    <2>1. hand'[w].at = "rejected" /\ hand'[w].request = hand[w].request
      BY <1>0, <1>6 DEF Decline, GoOn
    <2>2. Named(w)
      BY <1>0, <1>6 DEF HandOK, Decline
    <2>3. request'[hand[w].request].status \in {"approved", "rejected"}
      BY <1>0, <1>6, <2>2 DEF Decline, Named, Rows
    <2> QED BY <2>1, <2>2, <2>3 DEF HandOK, Named
  <1>7. ASSUME NEW r \in Requests, Approve(w, r) \/ Reject(w, r) PROVE HandOK(w)'
    <2>1. /\ hand'[w].at \in {"accepting", "refusing"} /\ hand'[w].request = r
          /\ request'[r].status = "pending"
      BY <1>0, <1>7 DEF Approve, Reject, Start, Idle
    <2> QED BY <2>1 DEF HandOK, Named
  <1>8. ASSUME NEW u \in Users, Leave(w, u) PROVE HandOK(w)'
    BY <1>0, <1>8 DEF Leave, Start, Idle, HandOK
  <1>9. ASSUME NEW u \in Users, NEW v \in Users, AddMember(w, u, v) PROVE HandOK(w)'
    <2>1. hand'[w].at = "asking" /\ hand'[w].user = u /\ hand'[w].target = v
      BY <1>0, <1>9 DEF AddMember, Start, Idle
    <2>2. Entitled(u)
      BY <1>9 DEF AddMember, IInv, NobodyJoinsUninvited
    <2>3. Entitled(hand[w].user)'
      BY <2>1, <2>2, EntitledStays DEF Entitled
    <2> QED BY <2>1, <2>3 DEF HandOK
  <1>10. ASSUME NEW u \in Users, NEW v \in Users, BanMember(w, u, v) \/ TransferAdmin(w, u, v)
         PROVE  HandOK(w)'
    <2>1. hand'[w].at \in {"banning", "passing"} /\ hand'[w].target = v
      BY <1>0, <1>10 DEF BanMember, TransferAdmin, Start, Idle
    <2> QED BY <2>1 DEF HandOK
  <1>11. ASSUME NEW u \in Users, NEW allow \in BOOLEAN, UpdateSettings(w, u, allow) PROVE HandOK(w)'
    <2>1. hand'[w].at = "setting"
      BY <1>0, <1>11 DEF UpdateSettings, Idle
    <2> QED BY <2>1 DEF HandOK
  <1>12. ASSUME NEW v \in Users, TransferOwnership(w, v) PROVE HandOK(w)'
    <2>1. hand'[w].at = "endowing"
      BY <1>0, <1>12 DEF TransferOwnership, Start, Idle
    <2> QED BY <2>1 DEF HandOK
  <1> QED BY <1>2, <1>3, <1>4, <1>5, <1>6, <1>7, <1>8, <1>9, <1>10, <1>11, <1>12 DEF Acts

\* The participants gain somebody by an approval, or lose somebody, or swap roles.
LEMMA WhoComesIn ==
    ASSUME IInv, NEW w \in Workers, Acts(w), NEW u \in Users, u \in Members', u \notin Members
    PROVE  /\ hand[w].at = "joining"
           /\ request[hand[w].request].to = u
           /\ request'[hand[w].request].to = u
           /\ request'[hand[w].request].status = "approved"
  <1>0. /\ part \in [Users -> {"out", "member", "admin"}]
        /\ request \in [Requests -> Rows]
        /\ part[u] = "out" /\ part'[u] # "out"
        /\ HandOK(w)
    BY DEF IInv, TypeOK, Members, Rows, HandsOK
  <1>1. CASE Join(w)
    <2>1. hand[w].at = "joining" /\ hand[w].request \in Requests
      BY <1>0, <1>1 DEF HandOK, Named, Join
    <2>2. /\ request' = [request EXCEPT ![hand[w].request].status = "approved"]
          /\ part' = [part EXCEPT ![request[hand[w].request].to] = "member"]
      BY <1>0, <1>1 DEF Join
    <2>3. request[hand[w].request].to = u
      BY <1>0, <2>2
    <2> QED BY <1>0, <2>1, <2>2, <2>3 DEF Rows
  <1>2. CASE Left(w) \/ Ban(w) \/ Pass(w) \/ Endow(w)
    BY <1>0, <1>2 DEF Left, Ban, Pass, Endow, Members
  <1>3. CASE part' = part
    BY <1>0, <1>3
  <1>4. CASE \/ CreateRequest(w) \/ SendCard(w) \/ Reread(w) \/ Decline(w) \/ MarkCard(w)
             \/ WriteSettings(w) \/ Stumble(w)
    BY <1>4, <1>3 DEF CreateRequest, SendCard, Reread, Decline, MarkCard, WriteSettings, Stumble
  <1>5. CASE \E r \in Requests : Approve(w, r) \/ Reject(w, r)
    BY <1>5, <1>3 DEF Approve, Reject
  <1>6. CASE \E x \in Users : \/ Leave(w, x) \/ TransferOwnership(w, x)
                              \/ \E v \in Users : AddMember(w, x, v) \/ BanMember(w, x, v) \/ TransferAdmin(w, x, v)
                              \/ \E allow \in BOOLEAN : UpdateSettings(w, x, allow)
    BY <1>6, <1>3 DEF Leave, TransferOwnership, AddMember, BanMember, TransferAdmin, UpdateSettings
  <1> QED BY <1>1, <1>2, <1>4, <1>5, <1>6 DEF Acts

LEMMA InvitedStep ==
    ASSUME IInv, RequestStep, NEW w \in Workers, Acts(w)
    PROVE  NobodyJoinsUninvited'
  <1>1. ASSUME NEW u \in Users, u \in Members' PROVE Entitled(u)'
    <2>1. CASE u \in Members
      BY <2>1, EntitledStays DEF IInv, NobodyJoinsUninvited
    <2>2. CASE u \notin Members
      <3>1. hand[w].request \in Requests
        BY <1>1, <2>2, WhoComesIn DEF IInv, HandsOK, HandOK, Named
      <3> QED BY <1>1, <2>2, <3>1, WhoComesIn DEF Entitled
    <2> QED BY <2>1, <2>2
  <1>2. Members' \subseteq Users
    BY DEF Members
  <1> QED BY <1>1, <1>2, RequestsStayTyped DEF NobodyJoinsUninvited

LEMMA CardStep ==
    ASSUME IInv, RequestStep, NEW w \in Workers, Acts(w)
    PROVE  CardIsTrue'
  <1>0. /\ card \in [Requests -> {"none", "pending", "accepted", "rejected"}]
        /\ HandOK(w)
    BY DEF IInv, TypeOK, HandsOK
  <1> DEFINE True(r, k) == /\ k = "accepted" => request'[r].status = "approved"
                           /\ k = "rejected" => request'[r].status \in {"approved", "rejected"}
                           /\ k # "none" => request'[r].status # "none"
  <1>1. \A r \in Requests : True(r, card[r])
    BY <1>0, RequestsAreKept DEF IInv, CardIsTrue
  <1>2. CASE SendCard(w)
    <2>1. Named(w) /\ card' = [card EXCEPT ![hand[w].request] = "pending"] /\ request' = request
      BY <1>0, <1>2 DEF SendCard, HandOK
    <2>2. \A r \in Requests : True(r, card'[r])
      BY <1>0, <1>1, <2>1 DEF Named
    <2> QED BY <2>2 DEF CardIsTrue
  <1>3. CASE MarkCard(w)
    <2>1. /\ Named(w) /\ request' = request
          /\ card' = card \/ card' = [card EXCEPT ![hand[w].request] = hand[w].at]
          /\ hand[w].at \in {"accepted", "rejected"}
          /\ hand[w].at = "accepted" => request[hand[w].request].status = "approved"
          /\ hand[w].at = "rejected" => request[hand[w].request].status \in {"approved", "rejected"}
      BY <1>0, <1>3 DEF MarkCard, HandOK
    <2>2. \A r \in Requests : True(r, card'[r])
      BY <1>0, <1>1, <2>1 DEF Named
    <2> QED BY <2>2 DEF CardIsTrue
  <1>4. CASE card' = card
    BY <1>1, <1>4 DEF CardIsTrue
  <1> HIDE DEF True
  <1>5. CASE \/ CreateRequest(w) \/ Reread(w) \/ Join(w) \/ Decline(w) \/ Left(w) \/ Ban(w)
             \/ Pass(w) \/ WriteSettings(w) \/ Endow(w) \/ Stumble(w)
    BY <1>5, <1>4 DEF CreateRequest, Reread, Join, Decline, Left, Ban, Pass, WriteSettings, Endow, Stumble
  <1>6. CASE \E r \in Requests : Approve(w, r) \/ Reject(w, r)
    BY <1>6, <1>4 DEF Approve, Reject
  <1>7. CASE \E x \in Users : \/ Leave(w, x) \/ TransferOwnership(w, x)
                              \/ \E v \in Users : AddMember(w, x, v) \/ BanMember(w, x, v) \/ TransferAdmin(w, x, v)
                              \/ \E allow \in BOOLEAN : UpdateSettings(w, x, allow)
    BY <1>7, <1>4 DEF Leave, TransferOwnership, AddMember, BanMember, TransferAdmin, UpdateSettings
  <1> QED BY <1>2, <1>3, <1>5, <1>6, <1>7 DEF Acts

LEMMA NextActs ==
    ASSUME Next
    PROVE  \/ \E w \in Workers : Acts(w)
           \/ \E u \in Users : EnterCommunity(u) \/ QuitCommunity(u)
           \/ MonthPasses
  BY DEF Next, Acts

\* The community lets a user in, who then is entitled to be there; or it loses one.
LEMMA CommunityStep ==
    ASSUME IInv, NEW u \in Users, EnterCommunity(u) \/ QuitCommunity(u)
    PROVE  IInv'
  <1>0. part \in [Users -> {"out", "member", "admin"}]
    BY DEF IInv, TypeOK
  <1>1. /\ UNCHANGED <<banned, request, card, settings, month, acts, hand>>
        /\ admitted \subseteq admitted'
        /\ (community \cup admitted)' \subseteq community \cup admitted \cup {u}
        /\ part' \in [Users -> {"out", "member", "admin"}]
    BY <1>0 DEF EnterCommunity, QuitCommunity
  <1>2. TypeOK'
    BY <1>1 DEF IInv, TypeOK
  <1>3. \A x \in Users \cup {NoUser} : Entitled(x) => Entitled(x)'
    BY <1>1 DEF Entitled
  <1>4. ASSUME NEW w \in Workers PROVE HandOK(w)'
    <2>1. HandOK(w) /\ hand'[w] = hand[w] /\ request' = request
      BY <1>1 DEF IInv, HandsOK
    <2>2. ASSUME hand[w].at = "asking" PROVE Entitled(hand[w].user)'
      BY <1>3, <2>1, <2>2 DEF HandOK, Entitled
    <2> QED BY <2>1, <2>2 DEF HandOK, Named
  <1>5. NobodyJoinsUninvited'
    <2>1. ASSUME NEW x \in Members' PROVE Entitled(x)'
      <3>1. x \in Members \/ x \in admitted'
        BY <1>0 DEF EnterCommunity, QuitCommunity, Members
      <3> QED BY <1>3, <3>1 DEF IInv, NobodyJoinsUninvited, Members, Entitled
    <2>2. ASSUME NEW r \in Requests, request'[r].status # "none" PROVE Entitled(request[r].by)'
      <3>1. request[r].by \in Users /\ Entitled(request[r].by) /\ request' = request
        BY <1>1, <2>2 DEF IInv, TypeOK, NobodyJoinsUninvited
      <3> QED BY <1>3, <3>1 DEF Entitled
    <2> QED BY <2>1, <2>2 DEF NobodyJoinsUninvited
  <1>6. CardIsTrue'
    BY <1>1 DEF IInv, CardIsTrue
  <1> QED BY <1>2, <1>4, <1>5, <1>6 DEF IInv, HandsOK

LEMMA StepIInv ==
    ASSUME IInv, [Next]_vars
    PROVE  IInv'
  <1>1. CASE UNCHANGED vars
    BY <1>1 DEF vars, IInv, TypeOK, HandsOK, HandOK, Named, NobodyJoinsUninvited, Entitled,
                Members, CardIsTrue
  <1>2. CASE MonthPasses
    <2>1. month' \in 1 .. MaxMonths
      BY <1>2, MembersAssumption DEF MonthPasses, IInv, TypeOK
    <2>2. UNCHANGED <<part, banned, community, admitted, request, card, settings, acts, hand>>
      BY <1>2 DEF MonthPasses
    <2> QED BY <2>1, <2>2 DEF IInv, TypeOK, HandsOK, HandOK, Named, NobodyJoinsUninvited,
                              Entitled, Members, CardIsTrue
  <1>3. ASSUME NEW w \in Workers, Acts(w) PROVE IInv'
    <2>1. RequestStep /\ Handed(w)
      BY <1>3, ActsOnRequests, ActsByHand DEF IInv
    <2>2. hand' \in [Workers -> Hands]
      BY <2>1 DEF Handed, IInv, TypeOK, Hands
    <2>3. TypeOK'
      BY <1>3, <2>1, <2>2, TablesStayTyped, RequestsStayTyped DEF TypeOK, Hands, Rows
    <2>4. HandsOK'
      BY <1>3, <2>1, OwnHand, OtherHands DEF HandsOK
    <2> QED BY <1>3, <2>1, <2>3, <2>4, InvitedStep, CardStep DEF IInv
  <1> QED BY <1>1, <1>2, <1>3, NextActs, CommunityStep

\* The invariant holds in every reachable state.
THEOREM Invariant == Spec => []IInv
  <1>1. Init => IInv
    BY InitIInv
  <1>2. IInv /\ [Next]_vars => IInv'
    BY StepIInv
  <1> QED BY <1>1, <1>2, PTL DEF Spec

-----------------------------------------------------------------------------
(* The properties *)

\* Type correctness for every set of users, requests and workers: no handler works on
\* a request that does not exist.
THEOREM TypeCorrect == Spec => []TypeOK
  <1>1. IInv => TypeOK
    BY DEF IInv
  <1> QED BY <1>1, Invariant, PTL

\* Every member was invited by somebody entitled to be there, or came in with the
\* community: no overlap of answers, departures and bans brings in anybody else.
THEOREM MembersAreInvited == Spec => []NobodyJoinsUninvited
  <1>1. IInv => NobodyJoinsUninvited
    BY DEF IInv
  <1> QED BY <1>1, Invariant, PTL

\* The card in the direct chat claims only what the request says.
THEOREM CardsTellTheTruth == Spec => []CardIsTrue
  <1>1. IInv => CardIsTrue
    BY DEF IInv
  <1> QED BY <1>1, Invariant, PTL

AnswersStayNow ==
    \A r \in Requests :
        \/ request[r].status \in {"none", "pending"}
        \/ request'[r] = request[r]
        \/ /\ request[r].status = "rejected"
           /\ \E w \in Workers : hand[w].at = "joining" /\ hand[w].request = r

LEMMA AnswersStayStep ==
    ASSUME IInv, [Next]_vars
    PROVE  AnswersStayNow
  <1>0. request \in [Requests -> Rows]
    BY DEF IInv, TypeOK, Rows
  <1>1. CASE UNCHANGED vars \/ MonthPasses
    BY <1>1 DEF vars, MonthPasses, AnswersStayNow
  <1>3. CASE \E u \in Users : EnterCommunity(u) \/ QuitCommunity(u)
    BY <1>3 DEF EnterCommunity, QuitCommunity, AnswersStayNow
  <1>2. ASSUME NEW w \in Workers, Acts(w), NEW r \in Requests,
               request[r].status \notin {"none", "pending"}, request'[r] # request[r]
        PROVE  /\ request[r].status = "rejected"
               /\ hand[w].at = "joining" /\ hand[w].request = r
    <2>1. CASE CreateRequest(w)
      BY <1>0, <1>2, <2>1 DEF CreateRequest, Unasked
    <2>2. CASE Decline(w)
      BY <1>0, <1>2, <2>2 DEF Decline
    <2>3. CASE Join(w)
      <3>1. /\ hand[w].at = "joining"
            /\ request' = [request EXCEPT ![hand[w].request].status = "approved"]
        BY <1>2, <2>3 DEF Join
      <3>2. hand[w].request = r /\ request'[r] = [request[r] EXCEPT !.status = "approved"]
        BY <1>0, <1>2, <3>1
      <3>3. CASE request[r].status = "approved"
        <4>1. [request[r] EXCEPT !.status = "approved"] = request[r]
          BY <1>0, <3>3 DEF Rows
        <4> QED BY <1>2, <3>2, <4>1
      <3>4. request[r].status \in {"none", "pending", "approved", "rejected"}
        BY <1>0 DEF Rows
      <3> QED BY <1>2, <3>1, <3>2, <3>3, <3>4
    <2>4. CASE request' = request
      BY <1>2, <2>4
    <2>5. CASE \/ SendCard(w) \/ Reread(w) \/ MarkCard(w) \/ Left(w) \/ Ban(w) \/ Pass(w)
               \/ WriteSettings(w) \/ Endow(w) \/ Stumble(w)
      BY <2>5, <2>4 DEF SendCard, Reread, MarkCard, Left, Ban, Pass, WriteSettings, Endow, Stumble
    <2>6. CASE \E q \in Requests : Approve(w, q) \/ Reject(w, q)
      BY <2>6, <2>4 DEF Approve, Reject
    <2>7. CASE \E x \in Users : \/ Leave(w, x) \/ TransferOwnership(w, x)
                                \/ \E v \in Users : AddMember(w, x, v) \/ BanMember(w, x, v) \/ TransferAdmin(w, x, v)
                                \/ \E allow \in BOOLEAN : UpdateSettings(w, x, allow)
      BY <2>7, <2>4 DEF Leave, TransferOwnership, AddMember, BanMember, TransferAdmin, UpdateSettings
    <2> QED BY <1>2, <2>1, <2>2, <2>3, <2>5, <2>6, <2>7 DEF Acts
  <1> QED BY <1>1, <1>2, <1>3, NextActs DEF AnswersStayNow

\* An approval is final; a refusal is overwritten only by an approval of the same
\* request that had read it as open.
THEOREM AnswersAreFinal == Spec => AnswersStay
  <1>1. IInv /\ [Next]_vars => [AnswersStayNow]_vars
    BY AnswersStayStep
  <1> QED BY <1>1, Invariant, PTL DEF Spec, AnswersStay, AnswersStayNow

BanHoldsNow ==
    \A u \in banned \ Members :
        ~BeingApproved(u) => /\ u \in Members' => u \in community' \ community
                             /\ ~BeingApproved(u)'

LEMMA BanHoldsStep ==
    ASSUME IInv, [Next]_vars
    PROVE  BanHoldsNow
  <1>0. hand \in [Workers -> Hands] /\ request \in [Requests -> Rows] /\ banned \subseteq Users
    BY DEF IInv, TypeOK, Hands, Rows
  <1>1. CASE UNCHANGED vars \/ MonthPasses
    BY <1>1 DEF vars, MonthPasses, BanHoldsNow, BeingApproved, Members
  <1>3. CASE \E x \in Users : EnterCommunity(x) \/ QuitCommunity(x)
    <2>1. PICK x \in Users : EnterCommunity(x) \/ QuitCommunity(x)
      BY <1>3
    <2>2. UNCHANGED <<banned, request, hand>>
      BY <2>1 DEF EnterCommunity, QuitCommunity
    <2>3. \A u \in Members' \ Members : u \in community' \ community
      BY <2>1 DEF EnterCommunity, QuitCommunity, Members, IInv, TypeOK
    <2> QED BY <2>2, <2>3 DEF BanHoldsNow, BeingApproved
  <1>2. ASSUME NEW w \in Workers, Acts(w), NEW u \in banned \ Members, ~BeingApproved(u)
        PROVE  u \notin Members' /\ ~BeingApproved(u)'
    <2>1. u \in Users /\ RequestStep /\ Handed(w)
      BY <1>0, <1>2, ActsOnRequests, ActsByHand DEF IInv
    <2>2. u \notin Members'
      BY <1>2, <2>1, WhoComesIn DEF BeingApproved
    <2>3. ASSUME NEW x \in Workers, hand'[x].at \in {"accepting", "joining"},
                 request'[hand'[x].request].to = u
          PROVE  FALSE
      <3>1. CASE hand'[x] = hand[x]
        <4>1. hand[x].request \in Requests /\ request[hand[x].request].status # "none"
          BY <2>3, <3>1 DEF IInv, HandsOK, HandOK, Named
        <4>2. request[hand[x].request].to = u
          BY <2>1, <2>3, <3>1, <4>1, RequestsAreKept
        <4> QED BY <1>2, <2>3, <3>1, <4>2 DEF BeingApproved
      <3>2. CASE hand'[x] # hand[x]
        <4>1. x = w
          BY <1>0, <2>1, <3>2 DEF Handed
        <4>3. CASE Reread(w)
          <5>1. hand'[w] = Idle \/ hand'[w] = [hand[w] EXCEPT !.at = "joining"]
            BY <1>0, <4>3 DEF Reread, GoOn, Finish
          <5>2. hand[w].at = "accepting" /\ request' = request
            BY <4>3 DEF Reread
          <5>3. hand'[w].request = hand[w].request
            BY <1>0, <2>3, <4>1, <5>1 DEF Idle, Hands
          <5> QED BY <1>2, <2>3, <4>1, <5>2, <5>3 DEF BeingApproved
        <4>4. ASSUME NEW r \in Requests, Approve(w, r) PROVE FALSE
          <5>1. hand'[w].request = r /\ request' = request /\ request[r].to \notin banned
            BY <1>0, <4>4 DEF Approve, Start, Idle
          <5> QED BY <1>2, <2>3, <4>1, <5>1
        <4>5. ASSUME NEW s, s \notin {"accepting", "joining"}, hand'[w].at = s PROVE FALSE
          BY <2>3, <4>1, <4>5
        <4>6. CASE CreateRequest(w)
          BY <1>0, <4>5, <4>6 DEF CreateRequest, Idle
        <4>7. CASE \/ SendCard(w) \/ MarkCard(w) \/ Left(w) \/ Ban(w) \/ Pass(w) \/ WriteSettings(w)
                   \/ Endow(w) \/ Stumble(w)
          BY <1>0, <4>5, <4>7 DEF SendCard, MarkCard, Left, Ban, Pass, WriteSettings, Endow, Stumble,
                                  Finish, Idle
        <4>8. CASE Join(w)
          <5>1. GoOn(w, "accepted") \/ Finish(w)
            BY <4>8 DEF Join
          <5>2. hand'[w].at \in {"accepted", "idle"}
            BY <1>0, <5>1 DEF GoOn, Finish, Idle, Hands
          <5> QED BY <4>5, <5>2
        <4>9. CASE Decline(w)
          BY <1>0, <4>5, <4>9 DEF Decline, GoOn, Hands
        <4>10. CASE \E r \in Requests : Reject(w, r)
          BY <1>0, <4>5, <4>10 DEF Reject, Start, Idle
        <4>11. CASE \E y \in Users : Leave(w, y) \/ TransferOwnership(w, y)
          BY <1>0, <4>5, <4>11 DEF Leave, TransferOwnership, Start, Idle
        <4>12. CASE \E y \in Users, v \in Users : AddMember(w, y, v) \/ BanMember(w, y, v) \/ TransferAdmin(w, y, v)
          <5>1. PICK t \in {"asking", "banning", "passing"}, y \in Users, v \in Users :
                  Start(w, t, y, v, NoRequest) \/ Start(w, t, NoUser, v, NoRequest)
            BY <4>12 DEF AddMember, BanMember, TransferAdmin
          <5>2. hand'[w].at = t
            BY <1>0, <5>1 DEF Start, Idle
          <5> QED BY <4>5, <5>2
        <4>13. CASE \E y \in Users, allow \in BOOLEAN : UpdateSettings(w, y, allow)
          BY <1>0, <4>5, <4>13 DEF UpdateSettings, Idle
        <4> QED BY <1>2, <4>3, <4>4, <4>6, <4>7, <4>8, <4>9, <4>10, <4>11, <4>12, <4>13 DEF Acts
      <3> QED BY <3>1, <3>2
    <2> QED BY <2>2, <2>3 DEF BeingApproved
  <1> QED BY <1>1, <1>2, <1>3, NextActs DEF BanHoldsNow

\* A banned user who is out, and whom no approval already under way brings back, is out
\* for as long as he does not join the community of the group again.
THEOREM BansHold == Spec => BanHolds
  <1>1. IInv /\ [Next]_vars => [BanHoldsNow]_vars
    BY BanHoldsStep
  <1> QED BY <1>1, Invariant, PTL DEF Spec, BanHolds, BanHoldsNow
=============================================================================
