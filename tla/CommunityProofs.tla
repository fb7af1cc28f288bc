-------------------------- MODULE CommunityProofs --------------------------
(***************************************************************************)
(* Proofs about Community for every set of users and workers and every     *)
(* limit of the invite code.  What the code admits is counted twice: those *)
(* it let in are its used_count, the requests that are about to count, and *)
(* the uses that are lost; and the requests on their way in by the code    *)
(* were at most all the workers when its last use was checked.             *)
(***************************************************************************)
EXTENDS Community, FiniteSetTheorems, TLAPS

\* The requests that the code let in and that are about to count, and with them
\* those that may still come in by it.
Counting == {w \in Workers : hand[w].at = "count"}
Coding   == {w \in Workers : hand[w].at = "count" \/ (hand[w].at = "enter" /\ hand[w].item = Code)}

UsesAreCounted ==
    /\ coded = code.used + Cardinality(Counting) + lost
    /\ code.used + Cardinality(Coding) <= MaxUses + Cardinality(Workers) - 1

\* A request that is being answered was made.
RowsExist ==
    \A w \in Workers : hand[w].at \in {"approve", "save", "reject"} =>
        request[hand[w].item].status # "free"

\* An invitation is accepted after it let its user in, here or elsewhere.
MarksAreTrue == \A w \in Workers : hand[w].at = "mark" => hand[w].item \in entries \cup spent

IInv == TypeOK /\ RowsExist /\ AnswersAreTrue /\ MarksAreTrue /\ UsesAreCounted

-----------------------------------------------------------------------------
(* Types.                                                                  *)

LEMMA TypeFacts ==
    ASSUME TypeOK
    PROVE  /\ owner \in Users
           /\ members \subseteq Users /\ chat \subseteq Users /\ past \subseteq Users
           /\ roles \in [Users -> SUBSET RoleNames]
           /\ hand \in [Workers -> Hands]
           /\ \A w \in Workers : hand[w] \in Hands
           /\ code.used \in Nat /\ coded \in Nat /\ lost \in Nat /\ begun \in Nat
  BY DEF TypeOK

LEMMA HandFacts ==
    ASSUME NEW h \in Hands
    PROVE  /\ h.at \in Steps /\ h.item \in Ways /\ h.role \in GivenRoles
           /\ h.at # "idle" => h.who \in Users
           /\ h.at = "enter" => h.item \notin Requests
           /\ h.at \in {"approve", "save", "reject"} => h.item \in Requests
           /\ h.at \in {"mark", "decline"} => h.item \in Invitations
           /\ h.at = "transfer" => h.from \in Users /\ h.from # h.who
  BY DEF Hands

LEMMA AtFields ==
    ASSUME NEW s, NEW u, NEW i
    PROVE  At(s, u, i).at = s /\ At(s, u, i).who = u /\ At(s, u, i).item = i
  BY DEF At

LEMMA AtHand ==
    ASSUME NEW s \in Steps, NEW u \in Users, NEW i \in Ways,
           s = "enter" => i \notin Requests,
           s \in {"approve", "save", "reject"} => i \in Requests,
           s \in {"mark", "decline"} => i \in Invitations,
           s # "transfer"
    PROVE  At(s, u, i) \in Hands
  BY DEF At, Hands, GivenRoles

LEMMA IdleHand == Idle \in Hands /\ Idle.at = "idle"
  BY DEF Idle, At, Hands, GivenRoles, Ways, Steps

LEMMA GivingHand ==
    ASSUME NEW u \in Users, NEW r \in GivenRoles
    PROVE  Giving(u, r) \in Hands /\ Giving(u, r).at = "role"
  BY DEF Giving, Hands, Steps, Ways

LEMMA HandingHand ==
    ASSUME NEW o \in Users, NEW u \in Users, o # u, NEW k \in BOOLEAN
    PROVE  Handing(o, u, k) \in Hands /\ Handing(o, u, k).at = "transfer"
  BY DEF Handing, Hands, Steps, Ways, GivenRoles

LEMMA WaysFacts ==
    /\ Door \in Ways /\ Code \in Ways /\ Door # Code
    /\ \A r \in Requests : r \in Ways /\ r # Door /\ r # Code
    /\ \A i \in Invitations : i \in Ways /\ i # Door /\ i # Code
    /\ \A r \in Requests : r \notin Invitations
  BY CommunityAssumption DEF Ways

LEMMA NewHand ==
    ASSUME TypeOK, NEW w \in Workers, NEW h \in Hands, hand' = [hand EXCEPT ![w] = h]
    PROVE  /\ hand' \in [Workers -> Hands]
           /\ hand'[w] = h
           /\ \A x \in Workers \ {w} : hand'[x] = hand[x]
  BY TypeFacts

LEMMA AdmitType ==
    ASSUME TypeOK, NEW u \in Users, Admit(u)
    PROVE  /\ members' \subseteq Users /\ chat' \subseteq Users /\ past' \subseteq Users
           /\ roles' \in [Users -> SUBSET RoleNames]
  BY TypeFacts DEF Admit, RoleNames, GivenRoles

-----------------------------------------------------------------------------
(* The requests of the clients and the checks of the handlers.             *)

\* A request begins: a hand is taken up, and nothing else moves.
Begins(w) ==
    /\ \E h \in Hands : /\ hand' = [hand EXCEPT ![w] = h]
                        /\ h.at \notin {"count", "mark"}
                        /\ h.at = "enter" /\ h.item = Code => HasUsesLeft
                        /\ h.at \in {"approve", "save", "reject"} =>
                             request[h.item].status = "pending"
    /\ hand[w].at # "count"
    /\ begun' \in Nat
    /\ UNCHANGED <<owner, door, ledgers, request, invitation, code, history>>

LEMMA StartBegins ==
    ASSUME TypeOK, NEW w \in Workers, NEW h \in Hands, Start(w, h),
           h.at \notin {"count", "mark"},
           h.at = "enter" /\ h.item = Code => HasUsesLeft,
           h.at \in {"approve", "save", "reject"} => request[h.item].status = "pending",
           UNCHANGED <<owner, door, ledgers, request, invitation, code, history>>
    PROVE  Begins(w)
  <1>1. hand[w].at = "idle" /\ begun' \in Nat /\ hand' = [hand EXCEPT ![w] = h]
    BY IdleHand, TypeFacts DEF Start
  <1> QED BY <1>1 DEF Begins

LEMMA Checks ==
    ASSUME TypeOK, NEW w \in Workers,
           \/ \E u \in Users :
                \/ JoinPublic(w, u) \/ JoinByCode(w, u)
                \/ \E i \in Invitations : JoinByInvitation(w, u, i) \/ RespondInvitation(w, u, i)
                \/ \E r \in GivenRoles : UpdateMemberRole(w, u, r)
                \/ KickMember(w, u) \/ LeaveCommunity(w, u)
                \/ \E keep \in BOOLEAN : TransferOwnership(w, u, keep)
                \/ SendInvitation(w, u)
           \/ \E r \in Requests : ApproveJoinRequest(w, r) \/ RejectJoinRequest(w, r)
           \/ ReadPending(w) \/ TransferOwnershipOnBan(w)
    PROVE  Begins(w)
  <1> USE WaysFacts, AtFields
  <1>1. ASSUME NEW u \in Users, JoinPublic(w, u) PROVE Begins(w)
    <2>1. At("enter", u, Door) \in Hands /\ At("renew", u, Door) \in Hands
      BY AtHand DEF Steps
    <2> QED BY <1>1, <2>1, StartBegins DEF JoinPublic
  <1>2. ASSUME NEW u \in Users, JoinByCode(w, u) PROVE Begins(w)
    <2>1. At("enter", u, Code) \in Hands
      BY AtHand DEF Steps
    <2> QED BY <1>2, <2>1, StartBegins DEF JoinByCode
  <1>3. ASSUME NEW u \in Users, NEW i \in Invitations,
               JoinByInvitation(w, u, i) \/ RespondInvitation(w, u, i)
        PROVE  Begins(w)
    <2>1. At("enter", u, i) \in Hands /\ At("decline", u, i) \in Hands
      BY AtHand DEF Steps
    <2> QED BY <1>3, <2>1, StartBegins DEF JoinByInvitation, RespondInvitation
  <1>4. ASSUME NEW u \in Users, NEW r \in GivenRoles, UpdateMemberRole(w, u, r) PROVE Begins(w)
    BY <1>4, GivingHand, StartBegins DEF UpdateMemberRole
  <1>5. ASSUME NEW u \in Users, KickMember(w, u) \/ LeaveCommunity(w, u) PROVE Begins(w)
    <2>1. At("remove", u, Door) \in Hands
      BY AtHand DEF Steps
    <2> QED BY <1>5, <2>1, StartBegins DEF KickMember, LeaveCommunity
  <1>6. ASSUME NEW u \in Users, NEW keep \in BOOLEAN, TransferOwnership(w, u, keep) PROVE Begins(w)
    BY <1>6, HandingHand, TypeFacts, StartBegins DEF TransferOwnership
  <1>7. ASSUME NEW u \in Users, SendInvitation(w, u) PROVE Begins(w)
    <2>1. At("invite", u, Door) \in Hands
      BY AtHand DEF Steps
    <2> QED BY <1>7, <2>1, StartBegins DEF SendInvitation
  <1>8. ASSUME NEW r \in Requests, ApproveJoinRequest(w, r) \/ RejectJoinRequest(w, r)
        PROVE  Begins(w)
    <2>1. request[r].by \in Users
      BY <1>8 DEF TypeOK, ApproveJoinRequest, RejectJoinRequest
    <2>2. At("approve", request[r].by, r) \in Hands /\ At("reject", request[r].by, r) \in Hands
      BY <2>1, AtHand DEF Steps
    <2> QED BY <1>8, <2>2, StartBegins DEF ApproveJoinRequest, RejectJoinRequest
  <1>9. CASE ReadPending(w)
    <2>1. hand[w] \in Hands /\ hand[w].at = "approve"
      BY <1>9, TypeFacts DEF ReadPending
    <2>2. At("save", hand[w].who, hand[w].item) \in Hands
      BY <2>1, HandFacts, AtHand DEF Steps
    <2>3. begun' \in Nat
      BY <1>9, TypeFacts DEF ReadPending, GoOn, Finish, Leave
    <2> QED BY <1>9, <2>1, <2>2, <2>3, IdleHand DEF ReadPending, GoOn, Finish, Leave, Begins
  <1>10. CASE TransferOwnershipOnBan(w)
    <2>1. PICK u \in Heirs : Start(w, Handing(owner, u, FALSE))
      BY <1>10 DEF TransferOwnershipOnBan
    <2>2. u \in Users /\ u # owner
      BY TypeFacts DEF Heirs
    <2> QED BY <1>10, <2>1, <2>2, HandingHand, TypeFacts, StartBegins DEF TransferOwnershipOnBan
  <1> QED BY <1>1, <1>2, <1>3, <1>4, <1>5, <1>6, <1>7, <1>8, <1>9, <1>10

\* The hand a step ends with.
LEMMA GoOnHand ==
    ASSUME TypeOK, NEW w \in Workers, NEW s \in Steps, GoOn(w, s), hand[w].at # "idle",
           s \in {"approve", "save", "reject"} => hand[w].item \in Requests,
           s \in {"mark", "decline"} => hand[w].item \in Invitations,
           s \notin {"transfer", "enter"}
    PROVE  /\ hand' = [hand EXCEPT ![w] = At(s, hand[w].who, hand[w].item)]
           /\ At(s, hand[w].who, hand[w].item) \in Hands
           /\ begun' = begun
  <1>1. hand[w].who \in Users /\ hand[w].item \in Ways
    BY TypeFacts, HandFacts
  <1> QED BY <1>1, AtHand DEF GoOn, Leave

LEMMA FinishHand ==
    ASSUME NEW w \in Workers, Finish(w)
    PROVE  hand' = [hand EXCEPT ![w] = Idle] /\ Idle \in Hands /\ begun' = begun
  BY IdleHand DEF Finish, Leave

\* A user has joined another community by his invitation.
LEMMA ElsewhereHand ==
    ASSUME TypeOK, NEW w \in Workers, NEW u \in Users, NEW i \in Invitations,
           JoinElsewhere(w, u, i)
    PROVE  /\ \E h \in Hands : hand' = [hand EXCEPT ![w] = h] /\ h.at = "mark" /\ h.item = i
           /\ hand[w].at = "idle" /\ begun' \in Nat
           /\ spent' = spent \cup {i}
           /\ UNCHANGED <<owner, door, ledgers, request, invitation, code, entries, coded, lost>>
  <1>1. At("mark", u, i) \in Hands /\ At("mark", u, i).at = "mark" /\ At("mark", u, i).item = i
    BY AtHand, AtFields, WaysFacts DEF Steps
  <1>2. hand' = [hand EXCEPT ![w] = At("mark", u, i)] /\ hand[w].at = "idle" /\ begun' \in Nat
    BY IdleHand, TypeFacts DEF JoinElsewhere, Start
  <1> QED BY <1>1, <1>2 DEF JoinElsewhere

\* What the type invariant says of the rest, so that a step shows the parts it moves.
RequestRows ==
    {t \in [Requests -> [by : Users \cup {NoUser},
                         status : {"free", "pending", "approved", "rejected", "deleted"}]] :
        \A r \in Requests : t[r].status # "free" => t[r].by \in Users}
InvitationRows == [Invitations -> [to : Users \cup {NoUser}, here : BOOLEAN,
                                   status : {"free", "pending", "accepted", "declined"}]]
Codes == [state : {"none", "active", "off"}, used : Nat]

LEMMA TypeParts ==
    ASSUME TypeOK, NEW w \in Workers, NEW h \in Hands,
           hand' = [hand EXCEPT ![w] = h],
           begun' \in Nat,
           door' = door,
           (owner' = owner) \/ (owner' \in Users),
           (roles' = roles) \/ (roles' \in [Users -> SUBSET RoleNames]),
           (members' = members) \/ (members' \subseteq Users),
           (chat' = chat) \/ (chat' \subseteq Users),
           (past' = past) \/ (past' \subseteq Users),
           (request' = request) \/ (request' \in RequestRows),
           (invitation' = invitation) \/ (invitation' \in InvitationRows),
           (code' = code) \/ (code' \in Codes),
           (entries' = entries) \/ (entries' \subseteq Requests \cup Invitations),
           (spent' = spent) \/ (spent' \subseteq Invitations),
           (coded' = coded) \/ (coded' \in Nat),
           (lost' = lost) \/ (lost' \in Nat)
    PROVE  TypeOK'
  <1>1. hand' \in [Workers -> Hands]
    BY NewHand
  <1>2. owner' \in Users /\ roles' \in [Users -> SUBSET RoleNames] /\ door' \in {"invited", "ask", "open"}
    BY DEF TypeOK
  <1>3. members' \subseteq Users /\ chat' \subseteq Users /\ past' \subseteq Users
    BY DEF TypeOK
  <1>4. request' \in RequestRows
    BY DEF TypeOK, RequestRows
  <1>5. /\ invitation' \in InvitationRows /\ code' \in Codes
        /\ entries' \subseteq Requests \cup Invitations /\ spent' \subseteq Invitations
        /\ coded' \in Nat /\ lost' \in Nat
    BY DEF TypeOK, InvitationRows, Codes
  <1> QED BY <1>1, <1>2, <1>3, <1>4, <1>5 DEF TypeOK, RequestRows, InvitationRows, Codes

LEMMA StepType ==
    ASSUME TypeOK, RowsExist, NEW w \in Workers, Step(w)
    PROVE  TypeOK'
  <1> USE TypeFacts, WaysFacts
  <1>1. CASE Begins(w)
    BY <1>1, TypeParts DEF Begins, ledgers, history
  <1>2. CASE AddCommunityMemberAndGroupChat(w)
    <2>1. hand[w].at = "enter" /\ hand[w].who \in Users /\ hand[w].item \in Ways /\ hand[w].at # "idle"
      BY <1>2, HandFacts DEF AddCommunityMemberAndGroupChat
    <2>2. CASE ~Fits(hand[w].who)
      BY <1>2, <2>2, FinishHand, TypeParts DEF AddCommunityMemberAndGroupChat, ledgers
    <2>3. CASE Fits(hand[w].who)
      <3>1. /\ members' \subseteq Users /\ chat' \subseteq Users /\ past' \subseteq Users
            /\ roles' \in [Users -> SUBSET RoleNames] /\ owner' = owner /\ door' = door
            /\ UNCHANGED <<request, invitation, code, spent, lost>>
        BY <1>2, <2>1, <2>3, AdmitType DEF AddCommunityMemberAndGroupChat
      <3>2. entries' \subseteq Requests \cup Invitations
        BY <1>2, <2>1, <2>3 DEF AddCommunityMemberAndGroupChat, TypeOK, Ways
      <3>3. coded' \in Nat /\ lost' \in Nat
        BY <1>2, <2>3 DEF AddCommunityMemberAndGroupChat
      <3>4. hand[w].item \in Invitations \/ hand[w].item \in Requests \cup {Door, Code}
        BY <2>1 DEF Ways
      <3>5. GoOn(w, "count") \/ Finish(w) \/ GoOn(w, "mark")
        BY <1>2, <2>3 DEF AddCommunityMemberAndGroupChat
      <3>6. hand[w].item \notin Requests
        BY <2>1, HandFacts
      <3>7. \E h \in Hands : hand' = [hand EXCEPT ![w] = h] /\ begun' = begun
        <4>1. CASE GoOn(w, "count")
          BY <2>1, <4>1, GoOnHand DEF Steps
        <4>2. CASE Finish(w)
          BY <4>2, FinishHand
        <4> QED BY <1>2, <2>1, <2>3, <3>4, <3>6, <4>1, <4>2, GoOnHand DEF AddCommunityMemberAndGroupChat, Steps
      <3> QED BY <3>1, <3>2, <3>3, <3>7, TypeParts
    <2> QED BY <2>2, <2>3
  <1>3. CASE IncrementInviteCodeUsedCount(w)
    <2>1. code' \in Codes
      BY <1>3 DEF IncrementInviteCodeUsedCount, Codes, TypeOK
    <2> QED BY <1>3, <2>1, FinishHand, TypeParts DEF IncrementInviteCodeUsedCount, ledgers, history
  <1>4. CASE UpdateInvitationStatus(w)
    <2>1. hand[w].item \in Invitations
      BY <1>4, HandFacts DEF UpdateInvitationStatus
    <2>2. [to |-> invitation[hand[w].item].to, here |-> invitation[hand[w].item].here,
           status |-> IF hand[w].at = "mark" THEN "accepted" ELSE "declined"]
             \in [to : Users \cup {NoUser}, here : BOOLEAN, status : {"free", "pending", "accepted", "declined"}]
      BY <2>1 DEF TypeOK
    <2>3. invitation' \in InvitationRows
      BY <1>4, <2>1, <2>2 DEF UpdateInvitationStatus, InvitationRows, TypeOK
    <2> QED BY <1>4, <2>3, FinishHand, TypeParts DEF UpdateInvitationStatus, ledgers, history
  <1>5. CASE DeleteNonPendingJoinRequests(w)
    <2>1. hand[w].at = "renew" /\ hand[w].at # "idle" /\ GoOn(w, "create")
      BY <1>5 DEF DeleteNonPendingJoinRequests
    <2>2. request' \in RequestRows
      <3>1. ASSUME NEW r \in Requests
            PROVE  /\ request'[r] \in [by : Users \cup {NoUser},
                         status : {"free", "pending", "approved", "rejected", "deleted"}]
                   /\ request'[r].status # "free" => request'[r].by \in Users
        BY <1>5 DEF DeleteNonPendingJoinRequests, TypeOK, Rows
      <3> QED BY <1>5, <3>1 DEF DeleteNonPendingJoinRequests, RequestRows
    <2>3. \E h \in Hands : hand' = [hand EXCEPT ![w] = h] /\ begun' = begun
      BY <2>1, GoOnHand DEF Steps
    <2> QED BY <1>5, <2>2, <2>3, TypeParts DEF DeleteNonPendingJoinRequests, ledgers, history
  <1>6. ASSUME NEW r \in Requests, CreateJoinRequest(w, r) PROVE TypeOK'
    <2>1. hand[w].who \in Users
      BY <1>6, HandFacts DEF CreateJoinRequest
    <2>2. [by |-> hand[w].who, status |-> "pending"] \in [by : Users \cup {NoUser},
                         status : {"free", "pending", "approved", "rejected", "deleted"}]
      BY <2>1
    <2>3. request' = request \/ request' \in RequestRows
      BY <1>6, <2>1, <2>2 DEF CreateJoinRequest, RequestRows, TypeOK
    <2> QED BY <1>6, <2>3, FinishHand, TypeParts DEF CreateJoinRequest, ledgers, history
  <1>7. CASE Save(w)
    <2>1. hand[w].at = "save" /\ hand[w].who \in Users /\ hand[w].item \in Requests
      BY <1>7, HandFacts DEF Save
    <2>2. CASE ~Fits(hand[w].who)
      BY <1>7, <2>2, FinishHand, TypeParts DEF Save, ledgers
    <2>3. CASE Fits(hand[w].who)
      <3>1. PICK r \in Saved(hand[w].who, hand[w].item) :
              /\ request' = [request EXCEPT ![r] = [by |-> @.by, status |-> "approved"]]
              /\ entries' = entries \cup {r}
              /\ Admit(hand[w].who)
        BY <1>7, <2>3 DEF Save
      <3>2. r \in Requests /\ request[r].by \in Users
        <4>1. hand[w].item \in Requests /\ request[hand[w].item].status # "free"
          BY <2>1 DEF RowsExist
        <4>2. Rows(hand[w].who) \subseteq Requests /\ \A x \in Rows(hand[w].who) : request[x].status # "free"
          BY DEF Rows
        <4>3. r \in Requests /\ request[r].status # "free"
          BY <4>1, <4>2 DEF Saved
        <4> QED BY <4>3 DEF TypeOK
      <3>3. [by |-> request[r].by, status |-> "approved"] \in [by : Users \cup {NoUser},
                         status : {"free", "pending", "approved", "rejected", "deleted"}]
        BY <3>2
      <3>4. request' \in RequestRows
        BY <3>1, <3>2, <3>3 DEF RequestRows, TypeOK
      <3>5. entries' \subseteq Requests \cup Invitations
        BY <3>1, <3>2 DEF TypeOK
      <3>6. /\ members' \subseteq Users /\ chat' \subseteq Users /\ past' \subseteq Users
            /\ roles' \in [Users -> SUBSET RoleNames]
        BY <2>1, <3>1, AdmitType
      <3> QED BY <1>7, <3>4, <3>5, <3>6, FinishHand, TypeParts DEF Save
    <2> QED BY <2>2, <2>3
  <1>8. CASE Reject(w)
    <2>1. hand[w].item \in Requests
      BY <1>8, HandFacts DEF Reject
    <2>2. request[hand[w].item].status = "pending" =>
            /\ request[hand[w].item].by \in Users
            /\ [by |-> request[hand[w].item].by, status |-> "rejected"] \in [by : Users \cup {NoUser},
                         status : {"free", "pending", "approved", "rejected", "deleted"}]
      BY <2>1 DEF TypeOK
    <2>3. request' = request \/ request' \in RequestRows
      BY <1>8, <2>1, <2>2 DEF Reject, RequestRows, TypeOK
    <2> QED BY <1>8, <2>3, FinishHand, TypeParts DEF Reject, ledgers, history
  <1>9. CASE UpdateUserRole(w)
    <2>1. hand[w].who \in Users /\ hand[w].role \in GivenRoles
      BY <1>9, HandFacts DEF UpdateUserRole
    <2>2. Updated(roles[hand[w].who], hand[w].role) \in SUBSET RoleNames
      BY <2>1 DEF Updated, RoleNames
    <2>3. roles' \in [Users -> SUBSET RoleNames]
      BY <1>9, <2>1, <2>2 DEF UpdateUserRole
    <2> QED BY <1>9, <2>3, FinishHand, TypeParts DEF UpdateUserRole, history
  <1>10. CASE RemoveMember(w)
    <2>1. roles' \in [Users -> SUBSET RoleNames] /\ members' \subseteq Users
      BY <1>10 DEF RemoveMember, RolesAfter
    <2> QED BY <1>10, <2>1, FinishHand, TypeParts DEF RemoveMember, history
  <1>11. CASE TransferCommunityOwnership(w)
    <2>1. hand[w].who \in Users
      BY <1>11, HandFacts DEF TransferCommunityOwnership
    <2>2. owner' \in Users /\ roles' \in [Users -> SUBSET RoleNames]
      BY <1>11, <2>1 DEF TransferCommunityOwnership, RoleNames, GivenRoles
    <2> QED BY <1>11, <2>2, FinishHand, TypeParts DEF TransferCommunityOwnership, history
  <1>12. ASSUME NEW i \in Invitations, CreateInvitation(w, i) PROVE TypeOK'
    <2>1. hand[w].who \in Users
      BY <1>12, HandFacts DEF CreateInvitation
    <2>2. [to |-> hand[w].who, here |-> TRUE, status |-> "pending"]
             \in [to : Users \cup {NoUser}, here : BOOLEAN, status : {"free", "pending", "accepted", "declined"}]
      BY <2>1
    <2>3. invitation' \in InvitationRows
      BY <1>12, <2>2 DEF CreateInvitation, InvitationRows, TypeOK
    <2> QED BY <1>12, <2>3, FinishHand, TypeParts DEF CreateInvitation, ledgers, history
  <1>13. CASE Stumble(w)
    <2>1. lost' \in Nat
      BY <1>13 DEF Stumble
    <2> QED BY <1>13, <2>1, FinishHand, TypeParts DEF Stumble, ledgers
  <1>14. ASSUME NEW u \in Users, NEW i \in Invitations, JoinElsewhere(w, u, i) PROVE TypeOK'
    <2>1. spent' \subseteq Invitations
      BY <1>14, ElsewhereHand DEF TypeOK
    <2> QED BY <1>14, <2>1, ElsewhereHand, TypeParts DEF ledgers
  <1> QED BY <1>1, <1>2, <1>3, <1>4, <1>5, <1>6, <1>7, <1>8, <1>9, <1>10, <1>11, <1>12, <1>13,
             <1>14, Checks DEF Step

\* The steps that no worker makes.
Around ==
    \/ \E u \in Users : ChatMoves(u) \/ \E i \in Invitations : InviteElsewhere(u, i)
    \/ \E d \in {"invited", "ask", "open"} : UpdateCommunity(d)
    \/ CreateInviteCode \/ DeactivateInviteCode

LEMMA AroundQuiet ==
    ASSUME TypeOK, Around
    PROVE  /\ UNCHANGED <<owner, members, roles, request, entries, spent, coded, lost, hand>>
           /\ \A i \in Invitations : invitation'[i].status = "accepted" => invitation[i].status = "accepted"
           /\ code'.used = code.used /\ past' = past
           /\ TypeOK'
  <1> DEFINE Same == UNCHANGED <<owner, members, roles, request, entries, spent, coded, lost, hand>>
  <1>1. ASSUME NEW u \in Users, ChatMoves(u)
        PROVE  /\ Same /\ begun' = begun /\ invitation' = invitation
               /\ code' = code /\ past' = past /\ door' = door /\ chat' \subseteq Users
    BY <1>1 DEF ChatMoves, history, TypeOK
  <1>2. ASSUME NEW d \in {"invited", "ask", "open"}, UpdateCommunity(d)
        PROVE  /\ Same /\ begun' = begun /\ invitation' = invitation
               /\ code' = code /\ past' = past /\ door' \in {"invited", "ask", "open"} /\ chat' = chat
    BY <1>2 DEF UpdateCommunity, ledgers, history
  <1>3. ASSUME CreateInviteCode \/ DeactivateInviteCode
        PROVE  /\ Same /\ begun' = begun /\ invitation' = invitation
               /\ code' \in Codes /\ code'.used = code.used
               /\ past' = past /\ door' = door /\ chat' = chat
    BY <1>3 DEF CreateInviteCode, DeactivateInviteCode, ledgers, history, Codes, TypeOK
  <1>4. ASSUME NEW u \in Users, NEW i \in Invitations, InviteElsewhere(u, i)
        PROVE  /\ Same /\ begun' \in Nat /\ invitation' \in InvitationRows
               /\ \A j \in Invitations : invitation'[j].status = "accepted" => invitation[j].status = "accepted"
               /\ code' = code /\ past' = past /\ door' = door /\ chat' = chat
    <2>1. [to |-> u, here |-> FALSE, status |-> "pending"]
             \in [to : Users \cup {NoUser}, here : BOOLEAN, status : {"free", "pending", "accepted", "declined"}]
      OBVIOUS
    <2>2. /\ invitation' = [invitation EXCEPT ![i] = [to |-> u, here |-> FALSE, status |-> "pending"]]
          /\ Same /\ begun' \in Nat /\ code' = code /\ past' = past /\ door' = door /\ chat' = chat
      BY <1>4 DEF InviteElsewhere, ledgers, history, TypeOK
    <2> QED BY <2>1, <2>2 DEF InvitationRows, TypeOK
  <1> HIDE DEF Same
  <1>5. Same /\ TypeOK'
    BY <1>1, <1>2, <1>3, <1>4 DEF Around, TypeOK, Codes, InvitationRows, Same
  <1> QED BY <1>1, <1>2, <1>3, <1>4, <1>5 DEF Around, Same

LEMMA TypeInit == Init => TypeOK
  BY CommunityAssumption, IdleHand DEF Init, TypeOK, RoleNames, AdminRoles, GivenRoles

\* Where a step leaves its worker.
LEMMA StepHand ==
    ASSUME TypeOK, NEW w \in Workers, Step(w)
    PROVE  \E h \in Hands :
             /\ hand' = [hand EXCEPT ![w] = h]
             /\ h.at \in {"approve", "save", "reject"} => request[h.item].status # "free"
             /\ h.at = "mark" => h.item \in (entries \cup spent)'
             /\ h.at = "count" => hand[w].at = "enter" /\ hand[w].item = Code
             /\ h.at = "enter" /\ h.item = Code => HasUsesLeft
  <1> USE TypeFacts, WaysFacts, AtFields
  <1>1. CASE Begins(w)
    BY <1>1 DEF Begins
  <1>2. CASE Finish(w)
    BY <1>2, FinishHand, IdleHand
  <1>3. CASE DeleteNonPendingJoinRequests(w)
    <2>1. hand[w].at # "idle" /\ GoOn(w, "create") /\ "create" \in Steps
      BY <1>3 DEF DeleteNonPendingJoinRequests, Steps
    <2> DEFINE h == At("create", hand[w].who, hand[w].item)
    <2>2. h \in Hands /\ hand' = [hand EXCEPT ![w] = h] /\ h.at = "create"
      BY <2>1, GoOnHand
    <2> HIDE DEF h
    <2> QED BY <2>2
  <1>4. CASE AddCommunityMemberAndGroupChat(w) /\ ~Finish(w)
    <2>1. /\ hand[w].at = "enter" /\ hand[w].item \in Ways
          /\ hand[w].item \notin Requests
      BY <1>4, HandFacts DEF AddCommunityMemberAndGroupChat
    <2>2. CASE hand[w].item = Code
      <3>1. GoOn(w, "count") /\ "count" \in Steps
        BY <1>4, <2>2 DEF AddCommunityMemberAndGroupChat, Steps
      <3> DEFINE h == At("count", hand[w].who, hand[w].item)
      <3>2. h \in Hands /\ hand' = [hand EXCEPT ![w] = h] /\ h.at = "count"
        BY <2>1, <3>1, GoOnHand
      <3> HIDE DEF h
      <3> QED BY <2>1, <2>2, <3>2
    <2>3. CASE hand[w].item # Code
      <3>1. GoOn(w, "mark") /\ "mark" \in Steps /\ hand[w].item # Door
        BY <1>4, <2>3 DEF AddCommunityMemberAndGroupChat, Steps
      <3>2. hand[w].item \in Invitations /\ hand[w].item \in entries'
        BY <1>4, <2>1, <2>3, <3>1 DEF AddCommunityMemberAndGroupChat, Ways
      <3> DEFINE h == At("mark", hand[w].who, hand[w].item)
      <3>3. h \in Hands /\ hand' = [hand EXCEPT ![w] = h] /\ h.at = "mark" /\ h.item = hand[w].item
        BY <2>1, <3>1, <3>2, GoOnHand
      <3> HIDE DEF h
      <3> QED BY <3>2, <3>3
    <2> QED BY <2>2, <2>3
  <1>5. \/ Begins(w) \/ Finish(w) \/ DeleteNonPendingJoinRequests(w)
        \/ AddCommunityMemberAndGroupChat(w)
        \/ \E u \in Users, i \in Invitations : JoinElsewhere(w, u, i)
    BY Checks DEF Step, IncrementInviteCodeUsedCount, UpdateInvitationStatus, CreateJoinRequest,
       Save, Reject, UpdateUserRole, RemoveMember, TransferCommunityOwnership,
       CreateInvitation, Stumble
  <1>6. ASSUME NEW u \in Users, NEW i \in Invitations, JoinElsewhere(w, u, i)
        PROVE  \E h \in Hands : /\ hand' = [hand EXCEPT ![w] = h] /\ h.at = "mark"
                                /\ h.item \in (entries \cup spent)'
    BY <1>6, ElsewhereHand
  <1> QED BY <1>1, <1>2, <1>3, <1>4, <1>5, <1>6

\* A row that was made is never free again, and only rows that were made are answered.
LEMMA RowsStep ==
    ASSUME TypeOK, RowsExist, NEW w \in Workers, Step(w)
    PROVE  RowsExist'
  <1> USE TypeFacts, WaysFacts, AtFields
  <1>1. ASSUME NEW r \in Requests, request[r].status # "free"
        PROVE  request'[r].status # "free"
    <2>1. CASE UNCHANGED request
      BY <1>1, <2>1
    <2>2. CASE DeleteNonPendingJoinRequests(w)
      BY <1>1, <2>2 DEF DeleteNonPendingJoinRequests
    <2>3. ASSUME NEW x \in Requests, CreateJoinRequest(w, x) PROVE request'[r].status # "free"
      BY <1>1, <2>3 DEF CreateJoinRequest, TypeOK
    <2>4. CASE Save(w)
      BY <1>1, <2>4 DEF Save, TypeOK
    <2>5. CASE Reject(w)
      BY <1>1, <2>5 DEF Reject, TypeOK
    <2>6. Begins(w) => UNCHANGED request
      BY DEF Begins
    <2>7. UNCHANGED request \/ DeleteNonPendingJoinRequests(w) \/ Save(w) \/ Reject(w)
          \/ \E x \in Requests : CreateJoinRequest(w, x)
      BY <2>6, Checks DEF Step, AddCommunityMemberAndGroupChat, IncrementInviteCodeUsedCount,
         UpdateInvitationStatus, UpdateUserRole, RemoveMember, TransferCommunityOwnership,
         CreateInvitation, JoinElsewhere, Stumble
    <2> QED BY <2>1, <2>2, <2>3, <2>4, <2>5, <2>7
  <1>2. PICK h \in Hands :
          /\ hand' = [hand EXCEPT ![w] = h]
          /\ h.at \in {"approve", "save", "reject"} => request[h.item].status # "free"
    BY StepHand
  <1> QED BY <1>1, <1>2, HandFacts DEF RowsExist

LEMMA TypeNext == TypeOK /\ RowsExist /\ [Next]_vars => TypeOK' /\ RowsExist'
  <1> SUFFICES ASSUME TypeOK, RowsExist, [Next]_vars PROVE TypeOK' /\ RowsExist'
    OBVIOUS
  <1>1. ASSUME NEW w \in Workers, Step(w) PROVE TypeOK' /\ RowsExist'
    BY <1>1, StepType, RowsStep
  <1>2. CASE Around
    BY <1>2, AroundQuiet DEF RowsExist
  <1>3. CASE UNCHANGED vars
    BY <1>3 DEF vars, ledgers, history, TypeOK, RowsExist
  <1> QED BY <1>1, <1>2, <1>3 DEF Next, Around

LEMMA TypeInv == Spec => [](TypeOK /\ RowsExist)
  <1>1. Init => RowsExist
    BY IdleHand DEF Init, RowsExist
  <1> QED BY <1>1, TypeInit, TypeNext, PTL DEF Spec

\* Every hand writes to the row it was given, and nobody hands over to himself.
THEOREM TypeCorrect == Spec => []TypeOK
  BY TypeInv, PTL

-----------------------------------------------------------------------------
(* Answers.                                                                *)

LEMMA AnswersStep ==
    ASSUME TypeOK, RowsExist, AnswersAreTrue, MarksAreTrue, NEW w \in Workers, Step(w)
    PROVE  AnswersAreTrue' /\ MarksAreTrue'
  <1> USE TypeFacts, WaysFacts
  <1>1. entries \subseteq entries' /\ spent \subseteq spent'
    BY Checks DEF Step, Begins, history, AddCommunityMemberAndGroupChat, IncrementInviteCodeUsedCount,
       UpdateInvitationStatus, DeleteNonPendingJoinRequests, CreateJoinRequest,
       Save, Reject, UpdateUserRole, RemoveMember, TransferCommunityOwnership,
       CreateInvitation, JoinElsewhere, Stumble
  <1>2. MarksAreTrue'
    BY <1>1, StepHand DEF MarksAreTrue
  <1>3. ASSUME NEW r \in Requests, request'[r].status = "approved"
        PROVE  r \in entries'
    <2>1. CASE request[r].status = "approved"
      BY <1>1, <2>1 DEF AnswersAreTrue
    <2>2. CASE Save(w)
      <3>1. CASE UNCHANGED request
        BY <1>1, <1>3, <3>1 DEF AnswersAreTrue
      <3>2. CASE request' # request
        <4>1. PICK x \in Saved(hand[w].who, hand[w].item) :
                /\ request' = [request EXCEPT ![x] = [by |-> @.by, status |-> "approved"]]
                /\ entries' = entries \cup {x}
          BY <2>2, <3>2 DEF Save
        <4> QED BY <1>3, <4>1 DEF AnswersAreTrue, TypeOK
      <3> QED BY <3>1, <3>2
    <2>3. CASE DeleteNonPendingJoinRequests(w)
      BY <1>1, <1>3, <2>3 DEF DeleteNonPendingJoinRequests, AnswersAreTrue
    <2>4. ASSUME NEW x \in Requests, CreateJoinRequest(w, x)
          PROVE  request[r].status = "approved"
      BY <1>3, <2>4 DEF CreateJoinRequest, TypeOK
    <2>5. CASE Reject(w)
      BY <1>1, <1>3, <2>5 DEF Reject, AnswersAreTrue, TypeOK
    <2>6. UNCHANGED request \/ DeleteNonPendingJoinRequests(w) \/ Save(w) \/ Reject(w)
          \/ \E x \in Requests : CreateJoinRequest(w, x)
      BY Checks DEF Begins, Step, AddCommunityMemberAndGroupChat, IncrementInviteCodeUsedCount,
         UpdateInvitationStatus, UpdateUserRole, RemoveMember, TransferCommunityOwnership,
         CreateInvitation, JoinElsewhere, Stumble
    <2>7. CASE UNCHANGED request
      BY <1>1, <1>3, <2>7 DEF AnswersAreTrue
    <2> QED BY <2>1, <2>2, <2>3, <2>4, <2>5, <2>6, <2>7
  <1>4. ASSUME NEW i \in Invitations, invitation'[i].status = "accepted"
        PROVE  i \in (entries \cup spent)'
    <2>1. CASE UNCHANGED invitation
      BY <1>1, <1>4, <2>1 DEF AnswersAreTrue
    <2>2. CASE UpdateInvitationStatus(w)
      <3>1. hand[w].at = "mark" => hand[w].item \in entries \cup spent
        BY DEF MarksAreTrue
      <3>2. invitation[i].status = "accepted" => i \in entries \cup spent
        BY DEF AnswersAreTrue
      <3>3. invitation'[i].status = "accepted" =>
              invitation[i].status = "accepted" \/ (i = hand[w].item /\ hand[w].at = "mark")
        BY <2>2 DEF UpdateInvitationStatus, TypeOK
      <3> QED BY <1>1, <1>4, <3>1, <3>2, <3>3
    <2>3. ASSUME NEW x \in Invitations, CreateInvitation(w, x)
          PROVE  invitation[i].status = "accepted"
      BY <1>4, <2>3 DEF CreateInvitation, TypeOK
    <2>4. UNCHANGED invitation \/ UpdateInvitationStatus(w)
          \/ \E x \in Invitations : CreateInvitation(w, x)
      BY Checks DEF Begins, Step, AddCommunityMemberAndGroupChat, IncrementInviteCodeUsedCount,
         DeleteNonPendingJoinRequests, CreateJoinRequest, Save, Reject,
         UpdateUserRole, RemoveMember, TransferCommunityOwnership, JoinElsewhere, Stumble
    <2>5. invitation[i].status = "accepted" => i \in (entries \cup spent)'
      BY <1>1 DEF AnswersAreTrue
    <2> QED BY <2>1, <2>2, <2>3, <2>4, <2>5
  <1> QED BY <1>2, <1>3, <1>4 DEF AnswersAreTrue

-----------------------------------------------------------------------------
(* The uses of the code.                                                   *)

LEMMA WorkerSets ==
    /\ IsFiniteSet(Counting) /\ IsFiniteSet(Coding) /\ IsFiniteSet(Workers)
    /\ Cardinality(Counting) \in Nat /\ Cardinality(Coding) \in Nat /\ Cardinality(Workers) \in Nat
    /\ Cardinality(Counting) <= Cardinality(Coding) /\ Cardinality(Coding) <= Cardinality(Workers)
  <1>1. Counting \subseteq Coding /\ Coding \subseteq Workers /\ Counting \subseteq Workers
    BY DEF Counting, Coding
  <1>2. IsFiniteSet(Workers)
    BY CommunityAssumption
  <1>3. IsFiniteSet(Counting) /\ IsFiniteSet(Coding) /\ Cardinality(Coding) <= Cardinality(Workers)
    BY <1>1, <1>2, FS_Subset
  <1>4. Cardinality(Counting) <= Cardinality(Coding)
    BY <1>1, <1>3, FS_Subset
  <1> QED BY <1>2, <1>3, <1>4, FS_CardinalityType

\* What a step counts.
LEMMA CountStep ==
    ASSUME TypeOK, NEW w \in Workers, Step(w)
    PROVE  /\ hand[w].at # "count" =>
                /\ code.used' = code.used /\ lost' = lost
                /\ coded' = IF hand'[w].at = "count" THEN coded + 1 ELSE coded
           /\ hand[w].at = "count" =>
                /\ hand'[w].at = "idle" /\ coded' = coded
                /\ \/ code.used' = code.used + 1 /\ lost' = lost
                   \/ code.used' = code.used /\ lost' = lost + 1
  <1> USE TypeFacts, WaysFacts, AtFields
  <1> DEFINE P == /\ hand[w].at # "count" =>
                       /\ code.used' = code.used /\ lost' = lost
                       /\ coded' = IF hand'[w].at = "count" THEN coded + 1 ELSE coded
                  /\ hand[w].at = "count" =>
                       /\ hand'[w].at = "idle" /\ coded' = coded
                       /\ \/ code.used' = code.used + 1 /\ lost' = lost
                          \/ code.used' = code.used /\ lost' = lost + 1
  <1>1. Finish(w) => hand'[w].at = "idle"
    BY IdleHand DEF Finish, Leave
  <1>2. CASE Begins(w)
    BY <1>2 DEF Begins, history
  <1>3. CASE IncrementInviteCodeUsedCount(w)
    BY <1>1, <1>3 DEF IncrementInviteCodeUsedCount, history, TypeOK
  <1>4. CASE Stumble(w)
    BY <1>1, <1>4 DEF Stumble
  <1>5. CASE AddCommunityMemberAndGroupChat(w)
    <2>1. hand[w].at = "enter" /\ UNCHANGED <<code, lost>>
      BY <1>5 DEF AddCommunityMemberAndGroupChat
    <2>2. GoOn(w, "count") => hand'[w].at = "count"
      BY DEF GoOn, Leave
    <2>3. GoOn(w, "mark") => hand'[w].at = "mark"
      BY DEF GoOn, Leave
    <2>4. coded' = IF hand'[w].at = "count" THEN coded + 1 ELSE coded
      BY <1>1, <1>5, <2>2, <2>3 DEF AddCommunityMemberAndGroupChat
    <2> QED BY <2>1, <2>4
  <1>6. CASE DeleteNonPendingJoinRequests(w)
    <2>1. GoOn(w, "create") => hand'[w].at = "create"
      BY DEF GoOn, Leave
    <2> QED BY <1>6, <2>1 DEF DeleteNonPendingJoinRequests, history
  <1>7. CASE /\ hand[w].at # "count" /\ Finish(w) /\ UNCHANGED <<code, coded, lost>>
    BY <1>1, <1>7
  <1>9. ASSUME NEW u \in Users, NEW i \in Invitations, JoinElsewhere(w, u, i) PROVE P
    <2>1. hand[w].at = "idle" /\ hand'[w].at = "mark" /\ code' = code /\ coded' = coded /\ lost' = lost
      BY <1>9, ElsewhereHand
    <2> QED BY <2>1
  <1>8. \/ Begins(w) \/ IncrementInviteCodeUsedCount(w) \/ Stumble(w)
        \/ \E u \in Users, i \in Invitations : JoinElsewhere(w, u, i)
        \/ AddCommunityMemberAndGroupChat(w) \/ DeleteNonPendingJoinRequests(w)
        \/ hand[w].at # "count" /\ Finish(w) /\ UNCHANGED <<code, coded, lost>>
    BY Checks DEF Step, UpdateInvitationStatus, CreateJoinRequest, Save, Reject, UpdateUserRole,
       RemoveMember, TransferCommunityOwnership, CreateInvitation, history
  <1> QED BY <1>2, <1>3, <1>4, <1>5, <1>6, <1>7, <1>8, <1>9

LEMMA SetFacts ==
    ASSUME NEW S, NEW T, NEW x, S \ {x} = T \ {x}
    PROVE  /\ x \notin S /\ x \notin T => S = T
           /\ x \in S /\ x \in T => S = T
           /\ x \in S /\ x \notin T => S = T \cup {x}
  OBVIOUS

LEMMA UsesStep ==
    ASSUME TypeOK, UsesAreCounted, NEW w \in Workers, Step(w), TypeOK'
    PROVE  UsesAreCounted'
  <1> DEFINE C1 == Counting'
             C2 == Coding'
             m  == Cardinality(Workers)
  <1> USE TypeFacts, CommunityAssumption, WorkerSets
  <1>1. PICK h \in Hands :
          /\ hand' = [hand EXCEPT ![w] = h]
          /\ h.at = "count" => hand[w].at = "enter" /\ hand[w].item = Code
          /\ h.at = "enter" /\ h.item = Code => HasUsesLeft
    BY StepHand
  <1>2. C1 \subseteq Workers /\ C2 \subseteq Workers /\ hand'[w] = h
        /\ \A x \in Workers \ {w} : hand'[x] = hand[x]
    BY <1>1 DEF Counting, Coding
  <1>3. IsFiniteSet(C1) /\ IsFiniteSet(C2) /\ Cardinality(C1) \in Nat /\ Cardinality(C2) \in Nat
        /\ Cardinality(C2) <= Cardinality(Workers)
    BY <1>2, FS_Subset, FS_CardinalityType
  <1>4. C1 \ {w} = Counting \ {w} /\ C2 \ {w} = Coding \ {w}
    BY <1>2 DEF Counting, Coding
  <1>5. (w \in C1 <=> h.at = "count") /\ (w \in C2 <=> h.at = "count" \/ (h.at = "enter" /\ h.item = Code))
    BY <1>2 DEF Counting, Coding
  <1>6. /\ w \in Counting <=> hand[w].at = "count"
        /\ w \in Coding <=> hand[w].at = "count" \/ (hand[w].at = "enter" /\ hand[w].item = Code)
    BY DEF Counting, Coding
  <1>7. coded = code.used + Cardinality(Counting) + lost
        /\ code.used + Cardinality(Coding) <= MaxUses + Cardinality(Workers) - 1
    BY DEF UsesAreCounted
  <1> HIDE DEF C1, C2
  <1>8. CASE hand[w].at = "count"
    <2>1. /\ h.at = "idle" /\ coded' = coded
          /\ \/ code.used' = code.used + 1 /\ lost' = lost
             \/ code.used' = code.used /\ lost' = lost + 1
      BY <1>2, <1>8, CountStep
    <2>2. C1 = Counting \ {w} /\ C2 = Coding \ {w} /\ w \in Counting /\ w \in Coding
      BY <1>4, <1>5, <1>6, <1>8, <2>1
    <2>3. Cardinality(C1) = Cardinality(Counting) - 1 /\ Cardinality(C2) = Cardinality(Coding) - 1
      BY <2>2, FS_RemoveElement
    <2> QED BY <1>3, <1>7, <2>1, <2>3 DEF UsesAreCounted, C1, C2
  <1>9. CASE hand[w].at # "count"
    <2>1. /\ code.used' = code.used /\ lost' = lost
          /\ coded' = IF h.at = "count" THEN coded + 1 ELSE coded
      BY <1>2, <1>9, CountStep
    <2>2. CASE h.at = "count"
      <3>0. w \in C1 /\ w \notin Counting /\ w \in C2 /\ w \in Coding
        BY <1>1, <1>5, <1>6, <1>9, <2>2
      <3>a. C1 = Counting \cup {w}
        BY <1>4, <3>0, SetFacts
      <3>b. C2 = Coding
        BY <1>4, <3>0, SetFacts
      <3>1. C1 = Counting \cup {w} /\ w \notin Counting /\ C2 = Coding
        BY <3>0, <3>a, <3>b
      <3>2. Cardinality(C1) = Cardinality(Counting) + 1 /\ Cardinality(C2) = Cardinality(Coding)
        BY <3>1, FS_AddElement
      <3> QED BY <1>3, <1>7, <2>1, <2>2, <3>2 DEF UsesAreCounted, C1, C2
    <2>3. CASE h.at = "enter" /\ h.item = Code
      <3>0. w \notin C1 /\ w \notin Counting
        BY <1>5, <1>6, <1>9, <2>3
      <3>1. C1 = Counting
        BY <1>4, <3>0, SetFacts, Zenon
      <3>2. code.used < MaxUses
        BY <1>1, <2>3 DEF HasUsesLeft
      <3>3. code.used + Cardinality(C2) <= MaxUses + m - 1
        BY <1>3, <3>2
      <3> QED BY <1>3, <1>7, <2>1, <2>3, <3>1, <3>3 DEF UsesAreCounted, C1, C2
    <2>4. CASE h.at # "count" /\ ~(h.at = "enter" /\ h.item = Code)
      <3>1. C1 = Counting /\ C2 \subseteq Coding
        BY <1>4, <1>5, <1>6, <1>9, <2>4
      <3>2. Cardinality(C2) <= Cardinality(Coding)
        BY <3>1, FS_Subset
      <3> QED BY <1>3, <1>7, <2>1, <2>4, <3>1, <3>2 DEF UsesAreCounted, C1, C2
    <2> QED BY <2>2, <2>3, <2>4
  <1> QED BY <1>8, <1>9

-----------------------------------------------------------------------------
(* The inductive invariant.                                                *)

LEMMA InitInvariant == Init => IInv
  <1> SUFFICES ASSUME Init PROVE IInv
    OBVIOUS
  <1>1. Counting = {} /\ Coding = {}
    BY IdleHand DEF Init, Counting, Coding
  <1>2. Cardinality(Counting) = 0 /\ Cardinality(Coding) = 0
    BY <1>1, FS_EmptySet
  <1>3. UsesAreCounted
    BY <1>2, CommunityAssumption, WorkerSets DEF UsesAreCounted, Init
  <1>4. RowsExist /\ MarksAreTrue
    BY IdleHand DEF Init, RowsExist, MarksAreTrue
  <1>5. AnswersAreTrue
    BY DEF Init, AnswersAreTrue
  <1> QED BY <1>3, <1>4, <1>5, TypeInit DEF IInv

LEMMA NextInvariant == IInv /\ [Next]_vars => IInv'
  <1> SUFFICES ASSUME IInv, [Next]_vars PROVE IInv'
    OBVIOUS
  <1> DEFINE Quiet == /\ \A i \in Invitations : invitation'[i].status = "accepted" => invitation[i].status = "accepted"
                      /\ request' = request /\ entries' = entries /\ spent' = spent
                      /\ coded' = coded /\ lost' = lost /\ hand' = hand /\ code'.used = code.used
  <1>1. TypeOK /\ RowsExist /\ AnswersAreTrue /\ MarksAreTrue /\ UsesAreCounted
    BY DEF IInv
  <1>2. TypeOK' /\ RowsExist'
    BY <1>1, TypeNext
  <1>3. ASSUME NEW w \in Workers, Step(w) PROVE IInv'
    BY <1>1, <1>2, <1>3, AnswersStep, UsesStep DEF IInv
  <1>4. CASE Quiet
    <2>1. request' = request /\ entries' = entries /\ spent' = spent /\ coded' = coded
          /\ lost' = lost /\ hand' = hand /\ code'.used = code.used
      BY <1>4
    <2>2. Counting' = Counting /\ Coding' = Coding
      BY <2>1 DEF Counting, Coding
    <2>3. UsesAreCounted'
      BY <1>1, <1>4, <2>1, <2>2 DEF UsesAreCounted
    <2>4. AnswersAreTrue' /\ MarksAreTrue'
      BY <1>1, <1>4, <2>1 DEF AnswersAreTrue, MarksAreTrue
    <2> QED BY <1>2, <2>3, <2>4 DEF IInv
  <1>5. CASE Around
    <2>1. Quiet
      BY <1>1, <1>5, AroundQuiet
    <2> QED BY <1>4, <2>1
  <1>6. CASE UNCHANGED vars
    <2>1. Quiet
      BY <1>6 DEF vars, history
    <2> QED BY <1>4, <2>1
  <1> HIDE DEF Quiet
  <1> QED BY <1>3, <1>5, <1>6 DEF Next, Around

\* Types, the rows behind every answer and the count of the uses, together.
THEOREM Invariant == Spec => []IInv
  BY InitInvariant, NextInvariant, PTL DEF Spec

\* The code lets in at most max_uses users, the requests that overlap at its last
\* use and those it never counted.
THEOREM UsesCorrect == Spec => []UsesAreBounded
  <1>1. IInv => UsesAreBounded
    BY CommunityAssumption, WorkerSets, TypeFacts DEF IInv, UsesAreCounted, UsesAreBounded
  <1> QED BY <1>1, Invariant, PTL

\* Whatever two administrators answer at the same time, an approved request let its
\* user in, and an accepted invitation somebody, here or where it was spent.
THEOREM AnswersCorrect == Spec => []AnswersAreTrue
  <1>1. IInv => AnswersAreTrue
    BY DEF IInv
  <1> QED BY <1>1, Invariant, PTL

-----------------------------------------------------------------------------
(* The ledgers of membership.                                              *)

\* The steps that write members or roles.
LEMMA LedgerStep ==
    ASSUME TypeOK, [Next]_vars
    PROVE  \/ UNCHANGED <<owner, members, roles>>
           \/ \E u \in Users : Admit(u) /\ UNCHANGED owner
           \/ \E w \in Workers : UpdateUserRole(w) \/ RemoveMember(w) \/ TransferCommunityOwnership(w)
  <1> USE TypeFacts
  <1>1. ASSUME NEW w \in Workers, AddCommunityMemberAndGroupChat(w) \/ Save(w)
        PROVE  \/ UNCHANGED <<owner, members, roles>>
               \/ \E u \in Users : Admit(u) /\ UNCHANGED owner
    <2>1. hand[w].who \in Users
      BY <1>1, HandFacts DEF AddCommunityMemberAndGroupChat, Save
    <2>2. owner' = owner
      BY <1>1 DEF AddCommunityMemberAndGroupChat, Save
    <2>3. Admit(hand[w].who) \/ UNCHANGED ledgers
      BY <1>1 DEF AddCommunityMemberAndGroupChat, Save
    <2> QED BY <2>1, <2>2, <2>3 DEF ledgers
  <1>2. ASSUME NEW w \in Workers, Step(w)
        PROVE  \/ UNCHANGED <<owner, members, roles>>
               \/ AddCommunityMemberAndGroupChat(w) \/ Save(w)
               \/ UpdateUserRole(w) \/ RemoveMember(w) \/ TransferCommunityOwnership(w)
    BY <1>2, Checks DEF Step, Begins, ledgers, IncrementInviteCodeUsedCount, UpdateInvitationStatus,
       DeleteNonPendingJoinRequests, CreateJoinRequest, Reject, CreateInvitation, JoinElsewhere, Stumble
  <1>3. CASE Around
    BY <1>3, AroundQuiet
  <1>4. CASE UNCHANGED vars
    BY <1>4 DEF vars, ledgers
  <1> QED BY <1>1, <1>2, <1>3, <1>4 DEF Next, Around

\* What a change of role and a removal write.
LEMMA WritesFacts ==
    ASSUME TypeOK, NEW w \in Workers
    PROVE  /\ UpdateUserRole(w) => /\ owner' = owner /\ members' = members
                                   /\ \A u \in Users : \/ roles'[u] = roles[u]
                                                       \/ \E x \in RoleNames, r \in GivenRoles :
                                                            roles[u] = {x} /\ roles'[u] = {r}
           /\ RemoveMember(w) => /\ owner' = owner /\ members' = members \ {hand[w].who}
                                 /\ roles'[hand[w].who] = {} /\ hand[w].who \in Users
                                 /\ \A u \in Users \ {hand[w].who} : roles'[u] = roles[u]
  <1> USE TypeFacts, HandFacts
  <1>1. ASSUME UpdateUserRole(w)
        PROVE  /\ owner' = owner /\ members' = members
               /\ \A u \in Users : \/ roles'[u] = roles[u]
                                   \/ \E x \in RoleNames, r \in GivenRoles :
                                        roles[u] = {x} /\ roles'[u] = {r}
    BY <1>1 DEF UpdateUserRole, Updated
  <1>2. ASSUME RemoveMember(w)
        PROVE  /\ owner' = owner /\ members' = members \ {hand[w].who}
               /\ roles'[hand[w].who] = {} /\ hand[w].who \in Users
               /\ \A u \in Users \ {hand[w].who} : roles'[u] = roles[u]
    BY <1>2 DEF RemoveMember, RolesAfter
  <1> QED BY <1>1, <1>2

\* Only a transfer leaves a user in one ledger of membership and not in the other.
THEOREM TearsCorrect == Spec => OnlyTransfersTear
  <1>1. ASSUME TypeOK, [Next]_vars, \A w \in Workers : hand[w].at # "transfer"
        PROVE  Torn' \subseteq Torn
    <2> USE TypeFacts
    <2>1. CASE UNCHANGED <<owner, members, roles>>
      <3>1. members' = members /\ roles' = roles
        BY <2>1
      <3> QED BY <3>1 DEF Torn
    <2>2. ASSUME NEW u \in Users, Admit(u) PROVE Torn' \subseteq Torn
      <3>1. members' = members \cup {u} /\ \A x \in Users \ {u} : roles'[x] = roles[x]
        BY <1>1, <2>2 DEF Admit
      <3>2. "GROUP_MEMBER" \in roles'[u]
        BY <1>1, <2>2 DEF Admit
      <3> QED BY <3>1, <3>2 DEF Torn
    <2>3. ASSUME NEW w \in Workers, UpdateUserRole(w) PROVE Torn' \subseteq Torn
      <3>1. members' = members /\ \A u \in Users : roles'[u] = {} <=> roles[u] = {}
        BY <2>3, WritesFacts, <1>1
      <3> QED BY <3>1 DEF Torn
    <2>4. ASSUME NEW w \in Workers, RemoveMember(w) PROVE Torn' \subseteq Torn
      <3>1. /\ members' = members \ {hand[w].who}
            /\ roles'[hand[w].who] = {}
            /\ \A u \in Users \ {hand[w].who} : roles'[u] = roles[u]
        BY <2>4, WritesFacts, <1>1
      <3> QED BY <3>1 DEF Torn
    <2>5. \A w \in Workers : ~TransferCommunityOwnership(w)
      BY <1>1 DEF TransferCommunityOwnership
    <2> QED BY <1>1, <2>1, <2>2, <2>3, <2>4, <2>5, LedgerStep
  <1>2. TypeOK /\ [Next]_vars =>
          [(\A w \in Workers : hand[w].at # "transfer") => Torn' \subseteq Torn]_vars
    BY <1>1
  <1> QED BY <1>2, TypeCorrect, PTL DEF Spec, OnlyTransfersTear

\* A change of role that was checked before its user became the creator changes
\* nothing: as long as he is a member he keeps both admin roles.
THEOREM CreatorCorrect == Spec => CreatorIsNotDemoted
  <1>1. ASSUME TypeOK, [Next]_vars, owner' = owner, AdminRoles \subseteq roles[owner]
        PROVE  AdminRoles \subseteq roles'[owner] \/ owner \notin members'
    <2> USE TypeFacts
    <2>1. ASSUME NEW u \in Users, Admit(u) PROVE AdminRoles \subseteq roles'[owner]
      BY <1>1, <2>1 DEF Admit
    <2>2. ASSUME NEW w \in Workers, UpdateUserRole(w) PROVE AdminRoles \subseteq roles'[owner]
      <3>1. \A x : roles[owner] # {x}
        BY <1>1 DEF AdminRoles
      <3> QED BY <1>1, <2>2, <3>1, WritesFacts
    <2>3. ASSUME NEW w \in Workers, RemoveMember(w)
          PROVE  AdminRoles \subseteq roles'[owner] \/ owner \notin members'
      BY <1>1, <2>3, WritesFacts
    <2>4. ASSUME NEW w \in Workers, TransferCommunityOwnership(w)
          PROVE  AdminRoles \subseteq roles'[owner]
      <3>1. ~CanReceive(owner)
        BY <1>1 DEF CanReceive, AdminRoles
      <3>2. roles' = roles
        BY <1>1, <2>4, <3>1 DEF TransferCommunityOwnership
      <3> QED BY <1>1, <3>2
    <2> QED BY <1>1, <2>1, <2>2, <2>3, <2>4, LedgerStep
  <1>2. TypeOK /\ [Next]_vars =>
          [owner' = owner /\ AdminRoles \subseteq roles[owner] =>
             AdminRoles \subseteq roles'[owner] \/ owner \notin members']_vars
    BY <1>1
  <1> QED BY <1>2, TypeCorrect, PTL DEF Spec, CreatorIsNotDemoted
=============================================================================
