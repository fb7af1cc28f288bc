----------------------------- MODULE Community -----------------------------
(***************************************************************************)
(* One community of the server: its creator, the members in group_members, *)
(* their rows in user_roles, the participants of its default group chat,   *)
(* and the three ways in - the door, an invite code, an invitation.        *)
(*                                                                         *)
(* A worker is the goroutine of one request.  The checks of a handler are  *)
(* one step, each statement or transaction that writes is a step of its    *)
(* own, and nothing is checked again in between unless the code does.      *)
(* The two ledgers of membership, group_members and user_roles, answer     *)
(* different questions: lists of members use the first, permissions and    *)
(* "is a member" the second.                                               *)
(***************************************************************************)
EXTENDS Naturals, FiniteSets

CONSTANTS
    Users,
    Founder,      \* who created the community
    NoUser,
    Requests,     \* the rows of community_join_requests that may be created (a bound)
    Invitations,  \* the rows of community_invitations that may be created, here or for
                  \* another community (a bound)
    Door, Code,   \* the other two ways in
    Workers,
    MaxUses,      \* max_uses of the invite code (0 would be no limit)
    MaxLost,      \* bound on the uses of the code that are never counted
    MaxBegun      \* bound on the requests of the clients

ASSUME CommunityAssumption ==
    /\ Founder \in Users
    /\ NoUser \notin Users
    /\ Requests \cap Invitations = {}
    /\ Door # Code
    /\ {Door, Code} \cap (Requests \cup Invitations) = {}
    /\ IsFiniteSet(Workers)
    /\ MaxUses \in Nat \ {0}
    /\ MaxLost \in Nat
    /\ MaxBegun \in Nat

VARIABLES
    owner,        \* communities.creator_id
    door,         \* privacy and auto_approve: invited, ask, open
    members,      \* group_members
    roles,        \* user_roles of each user in the scope of the community
    chat,         \* chat_participants of the default group chat
    request,      \* community_join_requests: whose, and its status
    invitation,   \* community_invitations: to whom, whether to this community, its status
    code,         \* the invite code: none, active, off; and used_count
    past,         \* who ever was a member, and may have contributed
    entries,      \* the requests and invitations that let somebody in here
    spent,        \* the invitations that let somebody into another community
    coded,        \* how many users the code let in
    lost,         \* how many of these will never be counted
    begun,        \* how many requests the clients have sent
    hand          \* the request each worker is at

ledgers == <<members, roles, chat, past>>
history == <<entries, spent, coded, lost>>
vars == <<owner, door, ledgers, request, invitation, code, history, begun, hand>>

AdminRoles == {"COMMUNITY_ADMIN", "GROUP_ADMIN"}
GivenRoles == {"GROUP_ADMIN", "GROUP_MOD", "GROUP_MEMBER"}
RoleNames  == AdminRoles \cup GivenRoles
Ways       == Requests \cup Invitations \cup {Door, Code}

\* What a worker is about to write: for whom, by which way in or on which row,
\* the role to give, the creator who hands over and whether he asked to stay admin.
At(step, u, item) == [at |-> step, who |-> u, item |-> item, role |-> "GROUP_MEMBER",
                      from |-> NoUser, keep |-> FALSE]
Idle              == At("idle", NoUser, Door)
Giving(u, r)      == [at |-> "role", who |-> u, item |-> Door, role |-> r,
                      from |-> NoUser, keep |-> FALSE]
Handing(o, u, k)  == [at |-> "transfer", who |-> u, item |-> Door, role |-> "GROUP_MEMBER",
                      from |-> o, keep |-> k]

Start(w, h) ==
    /\ hand[w] = Idle
    /\ begun < MaxBegun
    /\ begun' = begun + 1
    /\ hand' = [hand EXCEPT ![w] = h]

Leave(w, h)   == hand' = [hand EXCEPT ![w] = h] /\ UNCHANGED begun
GoOn(w, step) == Leave(w, At(step, hand[w].who, hand[w].item))
Finish(w)     == Leave(w, Idle)

Init ==
    /\ owner = Founder
    /\ door \in {"invited", "ask", "open"}
    /\ members = {Founder}
    /\ roles = [u \in Users |-> IF u = Founder THEN AdminRoles ELSE {}]
    /\ chat = {Founder}
    /\ request = [r \in Requests |-> [by |-> NoUser, status |-> "free"]]
    /\ invitation = [i \in Invitations |-> [to |-> NoUser, here |-> TRUE, status |-> "free"]]
    /\ code = [state |-> "none", used |-> 0]
    /\ past = {Founder}
    /\ entries = {}
    /\ spent = {}
    /\ coded = 0
    /\ lost = 0
    /\ begun = 0
    /\ hand = [w \in Workers |-> Idle]

IsUserMember(u) == roles[u] # {}
Admin(u)        == roles[u] \cap AdminRoles # {}
SomeAdmin       == \E u \in Users : Admin(u)

-----------------------------------------------------------------------------
(* Ways in.  A member, a role and a participant are inserted together, and *)
(* the unique index of each table refuses a second row.                    *)

Fits(u) == u \notin members /\ "GROUP_MEMBER" \notin roles[u] /\ u \notin chat

Admit(u) ==
    /\ members' = members \cup {u}
    /\ roles' = [roles EXCEPT ![u] = @ \cup {"GROUP_MEMBER"}]
    /\ chat' = chat \cup {u}
    /\ past' = past \cup {u}

JoinPublic(w, u) ==
    /\ ~IsUserMember(u)
    /\ \/ door = "open" /\ Start(w, At("enter", u, Door))
       \/ /\ door = "ask"
          /\ \A r \in Requests : ~(request[r].by = u /\ request[r].status = "pending")
          /\ Start(w, At("renew", u, Door))
    /\ UNCHANGED <<owner, door, ledgers, request, invitation, code, history>>

\* Mutant: the last use is given once more.
HasUsesLeftAtLimit == code.state = "active" /\ code.used <= MaxUses

HasUsesLeft == code.state = "active" /\ code.used < MaxUses

JoinByCode(w, u) ==
    /\ ~IsUserMember(u)
    /\ HasUsesLeft
    /\ Start(w, At("enter", u, Code))
    /\ UNCHANGED <<owner, door, ledgers, request, invitation, code, history>>

Mine(u, i) == invitation[i].to = u /\ invitation[i].status = "pending"

\* Which community the invitation is to is not compared.
JoinByInvitation(w, u, i) ==
    /\ ~IsUserMember(u)
    /\ Mine(u, i)
    /\ Start(w, At("enter", u, i))
    /\ UNCHANGED <<owner, door, ledgers, request, invitation, code, history>>

\* An acceptance goes by the community of the invitation.
RespondInvitation(w, u, i) ==
    /\ Mine(u, i)
    /\ \/ invitation[i].here /\ Start(w, At("enter", u, i))
       \/ Start(w, At("decline", u, i))
    /\ UNCHANGED <<owner, door, ledgers, request, invitation, code, history>>

\* Either operation, of another community: it has let u in there, and has the
\* invitation still to mark.
JoinElsewhere(w, u, i) ==
    /\ Mine(u, i)
    /\ Start(w, At("mark", u, i))
    /\ spent' = spent \cup {i}
    /\ UNCHANGED <<owner, door, ledgers, request, invitation, code, entries, coded, lost>>

AddCommunityMemberAndGroupChat(w) ==
    /\ hand[w].at = "enter"
    /\ IF Fits(hand[w].who)
       THEN /\ Admit(hand[w].who)
            /\ entries' = entries \cup ({hand[w].item} \ {Door, Code})
            /\ IF hand[w].item = Code
               THEN coded' = coded + 1 /\ GoOn(w, "count")
               ELSE /\ IF hand[w].item = Door THEN Finish(w) ELSE GoOn(w, "mark")
                    /\ UNCHANGED coded
       ELSE Finish(w) /\ UNCHANGED <<ledgers, entries, coded>>
    /\ UNCHANGED <<owner, door, request, invitation, code, spent, lost>>

IncrementInviteCodeUsedCount(w) ==
    /\ hand[w].at = "count"
    /\ code' = [code EXCEPT !.used = @ + 1]
    /\ Finish(w)
    /\ UNCHANGED <<owner, door, ledgers, request, invitation, history>>

UpdateInvitationStatus(w) ==
    /\ hand[w].at \in {"mark", "decline"}
    /\ invitation' = [invitation EXCEPT ![hand[w].item] =
           [to |-> @.to, here |-> @.here,
            status |-> IF hand[w].at = "mark" THEN "accepted" ELSE "declined"]]
    /\ Finish(w)
    /\ UNCHANGED <<owner, door, ledgers, request, code, history>>

-----------------------------------------------------------------------------
(* Requests to join.                                                       *)

Rows(u) == {r \in Requests : request[r].by = u
                             /\ request[r].status \in {"pending", "approved", "rejected"}}

DeleteNonPendingJoinRequests(w) ==
    /\ hand[w].at = "renew"
    /\ request' = [r \in Requests |->
           IF r \in Rows(hand[w].who) /\ request[r].status # "pending"
           THEN [by |-> request[r].by, status |-> "deleted"] ELSE request[r]]
    /\ GoOn(w, "create")
    /\ UNCHANGED <<owner, door, ledgers, invitation, code, history>>

CreateJoinRequest(w, r) ==
    /\ hand[w].at = "create"
    /\ request[r].status = "free"
    /\ request' = IF Rows(hand[w].who) = {}
                  THEN [request EXCEPT ![r] = [by |-> hand[w].who, status |-> "pending"]]
                  ELSE request
    /\ Finish(w)
    /\ UNCHANGED <<owner, door, ledgers, invitation, code, history>>

ApproveJoinRequest(w, r) ==
    /\ request[r].status = "pending"
    /\ SomeAdmin
    /\ Start(w, At("approve", request[r].by, r))
    /\ UNCHANGED <<owner, door, ledgers, request, invitation, code, history>>

\* The transaction reads the row without a lock.
ReadPending(w) ==
    /\ hand[w].at = "approve"
    /\ IF request[hand[w].item].status = "pending" THEN GoOn(w, "save") ELSE Finish(w)
    /\ UNCHANGED <<owner, door, ledgers, request, invitation, code, history>>

\* Save writes the whole row.  A row deleted meanwhile is inserted again, which
\* the unique index turns into an update of the row the user has now.
Saved(u, r) == IF request[r].status = "deleted" /\ Rows(u) # {} THEN Rows(u) ELSE {r}

\* Mutant: the member is added in a statement that may fail alone.
SaveAlone(w) ==
    /\ hand[w].at = "save"
    /\ \E r \in Saved(hand[w].who, hand[w].item) :
         /\ request' = [request EXCEPT ![r] = [by |-> @.by, status |-> "approved"]]
         /\ entries' = IF Fits(hand[w].who) THEN entries \cup {r} ELSE entries
    /\ IF Fits(hand[w].who) THEN Admit(hand[w].who) ELSE UNCHANGED ledgers
    /\ Finish(w)
    /\ UNCHANGED <<owner, door, invitation, code, spent, coded, lost>>

Save(w) ==
    /\ hand[w].at = "save"
    /\ IF Fits(hand[w].who)
       THEN \E r \in Saved(hand[w].who, hand[w].item) :
              /\ request' = [request EXCEPT ![r] = [by |-> @.by, status |-> "approved"]]
              /\ entries' = entries \cup {r}
              /\ Admit(hand[w].who)
       ELSE UNCHANGED <<ledgers, request, entries>>
    /\ Finish(w)
    /\ UNCHANGED <<owner, door, invitation, code, spent, coded, lost>>

RejectJoinRequest(w, r) ==
    /\ request[r].status = "pending"
    /\ SomeAdmin
    /\ Start(w, At("reject", request[r].by, r))
    /\ UNCHANGED <<owner, door, ledgers, request, invitation, code, history>>

Reject(w) ==
    /\ hand[w].at = "reject"
    /\ request' = IF request[hand[w].item].status = "pending"
                  THEN [request EXCEPT ![hand[w].item] = [by |-> @.by, status |-> "rejected"]]
                  ELSE request
    /\ Finish(w)
    /\ UNCHANGED <<owner, door, ledgers, invitation, code, history>>

-----------------------------------------------------------------------------
(* What administrators do.                                                 *)

UpdateMemberRole(w, u, r) ==
    /\ \E a \in Users \ {u} : Admin(a)
    /\ IsUserMember(u)
    /\ u # owner
    /\ Start(w, Giving(u, r))
    /\ UNCHANGED <<owner, door, ledgers, request, invitation, code, history>>

\* Mutant: the roles are replaced, whatever they were.
Renamed(old, r) == {r}

\* All rows of the user get the same role, which the unique index refuses if
\* there are two.
Updated(old, r) == IF \E x \in RoleNames : old = {x} THEN {r} ELSE old

UpdateUserRole(w) ==
    /\ hand[w].at = "role"
    /\ roles' = [roles EXCEPT ![hand[w].who] = Updated(@, hand[w].role)]
    /\ Finish(w)
    /\ UNCHANGED <<owner, door, members, chat, past, request, invitation, code, history>>

KickMember(w, u) ==
    /\ \E a \in Users \ {u} : Admin(a) /\ (Admin(u) => a = owner)
    /\ IsUserMember(u)
    /\ u # owner
    /\ Start(w, At("remove", u, Door))
    /\ UNCHANGED <<owner, door, ledgers, request, invitation, code, history>>

LeaveCommunity(w, u) ==
    /\ IsUserMember(u)
    /\ u # owner
    /\ Start(w, At("remove", u, Door))
    /\ UNCHANGED <<owner, door, ledgers, request, invitation, code, history>>

\* Mutant: the roles of who leaves stay.
RolesLeft(u) == roles[u]

RolesAfter(u) == {}

\* The participant of the chat is not removed.
RemoveMember(w) ==
    /\ hand[w].at = "remove"
    /\ roles' = [roles EXCEPT ![hand[w].who] = RolesAfter(hand[w].who)]
    /\ members' = members \ {hand[w].who}
    /\ Finish(w)
    /\ UNCHANGED <<owner, door, chat, past, request, invitation, code, history>>

TransferOwnership(w, u, keep) ==
    /\ u # owner
    /\ IsUserMember(u)
    /\ Start(w, Handing(owner, u, keep))
    /\ UNCHANGED <<owner, door, ledgers, request, invitation, code, history>>

\* Whom the ban of the creator's account looks for: another admin, else another
\* member, else somebody who contributed.
Heirs ==
    LET admins == {u \in Users \ {owner} : Admin(u)}
    IN  IF admins # {} THEN admins
        ELSE IF members \ {owner} # {} THEN members \ {owner}
        ELSE past \ {owner}

TransferOwnershipOnBan(w) ==
    /\ \E u \in Heirs : Start(w, Handing(owner, u, FALSE))
    /\ UNCHANGED <<owner, door, ledgers, request, invitation, code, history>>

\* The rows of an admin are in the way of the rows the new creator gets.
CanReceive(u) == roles[u] \cap AdminRoles = {}

\* The creator who hands over loses his admin roles, and becomes a plain member
\* unless he asked to stay admin.
TransferCommunityOwnership(w) ==
    /\ hand[w].at = "transfer"
    /\ IF CanReceive(hand[w].who)
       THEN /\ owner' = hand[w].who
            /\ roles' = [u \in Users |->
                   IF u = hand[w].who THEN (roles[u] \ {"GROUP_MEMBER"}) \cup AdminRoles
                   ELSE IF u # hand[w].from THEN roles[u]
                   ELSE IF hand[w].keep THEN roles[u] \ AdminRoles
                   ELSE (roles[u] \ AdminRoles) \cup {"GROUP_MEMBER"}]
       ELSE UNCHANGED <<owner, roles>>
    /\ Finish(w)
    /\ UNCHANGED <<door, members, chat, past, request, invitation, code, history>>

UpdateCommunity(d) ==
    /\ SomeAdmin
    /\ door' = d
    /\ UNCHANGED <<owner, ledgers, request, invitation, code, history, begun, hand>>

CreateInviteCode ==
    /\ SomeAdmin
    /\ code.state = "none"
    /\ code' = [code EXCEPT !.state = "active"]
    /\ UNCHANGED <<owner, door, ledgers, request, invitation, history, begun, hand>>

DeactivateInviteCode ==
    /\ SomeAdmin
    /\ code.state = "active"
    /\ code' = [code EXCEPT !.state = "off"]
    /\ UNCHANGED <<owner, door, ledgers, request, invitation, history, begun, hand>>

SendInvitation(w, u) ==
    /\ \E a \in Users \ {u} : Admin(a)
    /\ ~IsUserMember(u)
    /\ \A i \in Invitations : ~(invitation[i].here /\ Mine(u, i))
    /\ Start(w, At("invite", u, Door))
    /\ UNCHANGED <<owner, door, ledgers, request, invitation, code, history>>

CreateInvitation(w, i) ==
    /\ hand[w].at = "invite"
    /\ invitation[i].status = "free"
    /\ invitation' = [invitation EXCEPT ![i] = [to |-> hand[w].who, here |-> TRUE, status |-> "pending"]]
    /\ Finish(w)
    /\ UNCHANGED <<owner, door, ledgers, request, code, history>>

-----------------------------------------------------------------------------
(* What happens around the community.                                      *)

\* Another community invites u.
InviteElsewhere(u, i) ==
    /\ invitation[i].status = "free"
    /\ begun < MaxBegun
    /\ begun' = begun + 1
    /\ invitation' = [invitation EXCEPT ![i] = [to |-> u, here |-> FALSE, status |-> "pending"]]
    /\ UNCHANGED <<owner, door, ledgers, request, code, history, hand>>

\* The group chat has invitations and departures of its own (GroupMembers).
ChatMoves(u) ==
    /\ chat' = IF u \in chat THEN chat \ {u} ELSE chat \cup {u}
    /\ UNCHANGED <<owner, door, members, roles, past, request, invitation, code, history, begun, hand>>

\* A statement fails or the process ends: a transaction is rolled back, and what
\* the handler had still to do is not done.
Stumble(w) ==
    /\ hand[w] # Idle
    /\ IF hand[w].at = "count"
       THEN lost < MaxLost /\ lost' = lost + 1
       ELSE UNCHANGED lost
    /\ Finish(w)
    /\ UNCHANGED <<owner, door, ledgers, request, invitation, code, entries, spent, coded>>

Step(w) ==
    \/ \E u \in Users :
         \/ JoinPublic(w, u) \/ JoinByCode(w, u)
         \/ \E i \in Invitations : \/ JoinByInvitation(w, u, i) \/ RespondInvitation(w, u, i)
                                  \/ JoinElsewhere(w, u, i)
         \/ \E r \in GivenRoles : UpdateMemberRole(w, u, r)
         \/ KickMember(w, u) \/ LeaveCommunity(w, u)
         \/ \E keep \in BOOLEAN : TransferOwnership(w, u, keep)
         \/ SendInvitation(w, u)
    \/ \E r \in Requests :
         CreateJoinRequest(w, r) \/ ApproveJoinRequest(w, r) \/ RejectJoinRequest(w, r)
    \/ \E i \in Invitations : CreateInvitation(w, i)
    \/ AddCommunityMemberAndGroupChat(w) \/ IncrementInviteCodeUsedCount(w)
    \/ UpdateInvitationStatus(w)
    \/ DeleteNonPendingJoinRequests(w) \/ ReadPending(w) \/ Save(w) \/ Reject(w)
    \/ UpdateUserRole(w) \/ RemoveMember(w)
    \/ TransferOwnershipOnBan(w) \/ TransferCommunityOwnership(w)
    \/ Stumble(w)

Next ==
    \/ \E w \in Workers : Step(w)
    \/ \E u \in Users : ChatMoves(u) \/ \E i \in Invitations : InviteElsewhere(u, i)
    \/ \E d \in {"invited", "ask", "open"} : UpdateCommunity(d)
    \/ CreateInviteCode \/ DeactivateInviteCode

Spec == Init /\ [][Next]_vars

-----------------------------------------------------------------------------
(* Properties.                                                             *)

Steps == {"idle", "enter", "count", "mark", "decline", "renew", "create", "approve", "save",
          "reject", "role", "remove", "transfer", "invite"}

\* Where an item must be the row of a request or of an invitation.
Hands == {h \in [at : Steps, who : Users \cup {NoUser}, item : Ways, role : GivenRoles,
                 from : Users \cup {NoUser}, keep : BOOLEAN] :
            /\ h.at # "idle" => h.who \in Users
            /\ h.at = "enter" => h.item \notin Requests
            /\ h.at \in {"approve", "save", "reject"} => h.item \in Requests
            /\ h.at \in {"mark", "decline"} => h.item \in Invitations
            /\ h.at = "transfer" => h.from \in Users /\ h.from # h.who}

\* Every worker acts on a row of the right table, and nobody hands over to himself.
TypeOK ==
    /\ owner \in Users
    /\ door \in {"invited", "ask", "open"}
    /\ members \subseteq Users /\ chat \subseteq Users /\ past \subseteq Users
    /\ roles \in [Users -> SUBSET RoleNames]
    /\ request \in [Requests -> [by : Users \cup {NoUser},
                     status : {"free", "pending", "approved", "rejected", "deleted"}]]
    /\ \A r \in Requests : request[r].status # "free" => request[r].by \in Users
    /\ invitation \in [Invitations -> [to : Users \cup {NoUser}, here : BOOLEAN,
                        status : {"free", "pending", "accepted", "declined"}]]
    /\ code \in [state : {"none", "active", "off"}, used : Nat]
    /\ entries \subseteq Requests \cup Invitations /\ spent \subseteq Invitations
    /\ coded \in Nat /\ lost \in Nat /\ begun \in Nat
    /\ hand \in [Workers -> Hands]

\* The code lets in max_uses users, and beyond these at most as many as requests
\* overlapped at the last use, and as many as were never counted: the check of
\* used_count and its increment are statements apart (joinByCode).
UsesAreBounded == coded <= MaxUses + Cardinality(Workers) + lost - 1

\* What a row says happened did happen: an approved request let its user in, and an
\* accepted invitation let somebody into this community or, spent on joining another,
\* into that one, whoever else answered the row at the same time.
AnswersAreTrue ==
    /\ \A r \in Requests : request[r].status = "approved" => r \in entries
    /\ \A i \in Invitations : invitation[i].status = "accepted" => i \in entries \cup spent

\* Who is in one of the two ledgers of membership and not in the other.
Torn == {u \in Users : (u \in members) # (roles[u] # {})}

\* Admissions, departures and changes of role never take the two ledgers apart:
\* only a transfer of the community does, which gives roles to somebody who left
\* meanwhile, or leaves the old creator without any.
OnlyTransfersTear ==
    [][(\A w \in Workers : hand[w].at # "transfer") => Torn' \subseteq Torn]_vars

\* A creator is never demoted in place: a change of role that was checked before
\* he became creator fails on the index.  (A removal checked before does remove
\* him: see CreatorStays.)
CreatorIsNotDemoted ==
    [][owner' = owner /\ AdminRoles \subseteq roles[owner] =>
         AdminRoles \subseteq roles'[owner] \/ owner \notin members']_vars

-----------------------------------------------------------------------------
(* What the documentation says and the code does not do.                   *)

\* Who asks to keep his admin role on handing over is still an administrator
\* (docs/function-user.md:2872).
KeeperStays ==
    [][\A w \in Workers :
         TransferCommunityOwnership(w) /\ hand[w].keep /\ owner' = hand[w].who
           => roles'[hand[w].from] \cap AdminRoles # {}]_vars

\* A transfer reaches whoever is a member (docs/function-user.md:2874), and the
\* ban of a creator prefers the admins that are left (docs/function-admin.md:141).
TransferReaches ==
    [][\A w \in Workers :
         TransferCommunityOwnership(w) /\ hand[w].who \in members => owner' = hand[w].who]_vars

\* The creator is a member: he cannot leave and cannot be kicked
\* (docs/function-user.md:2846, :2860).
CreatorStays == owner \in members

\* Who is told to have joined this community by invitation has joined it
\* (docs/function-user.md:2959): an invitation to it can be spent on another.
InvitationsAdmitHere ==
    \A i \in Invitations :
        invitation[i].here /\ invitation[i].status = "accepted" => i \in entries

\* A code is refused when its uses are up (docs/function-user.md:2755).
UsesAreLimited == coded <= MaxUses
=============================================================================
