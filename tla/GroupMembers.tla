---------------------------- MODULE GroupMembers ----------------------------
(***************************************************************************)
(* Membership of one group chat: invitations and their answers, bans,      *)
(* leaving, the admin role and its transfer, and the group's settings.     *)
(*                                                                         *)
(* A worker is the goroutine of one request (HTTP, or a frame of the       *)
(* group's websocket: both call the same service).  A handler first reads, *)
(* with no lock, what allows the operation; the reads that follow each     *)
(* other are one action.  What it does then, each statement or transaction *)
(* of the database, is an action of its own, so that others may act in     *)
(* between.  An error or a crash may end a handler before any of them.     *)
(*                                                                         *)
(* The group may be the default chat of a community; then the community's  *)
(* own transactions write its participants too.                            *)
(***************************************************************************)
EXTENDS Naturals, FiniteSets

CONSTANTS
    Users,
    Founders,     \* who is in the group when it is created
    Creator,      \* who created it, its first admin
    Visitors,     \* who comes and goes in the group's community; {} if it has none
    Requests,     \* the rows of group_chat_member_requests
    Workers,
    MaxMonths,    \* bound on the calendar
    MaxActs,      \* bound on what the admins do: bans, transfers, settings
    NoUser, NoRequest

ASSUME MembersAssumption ==
    /\ Founders \subseteq Users
    /\ Creator \in Founders
    /\ Visitors \subseteq Users
    /\ NoUser \notin Users
    /\ NoRequest \notin Requests
    /\ MaxMonths \in Nat \ {0}
    /\ MaxActs \in Nat

VARIABLES
    part,         \* chat_participants: out, member or admin
    banned,       \* group_chat_bans
    community,    \* group_members of the community: the visitors who are in it
    admitted,     \* history: whom the community has ever put into the group
    request,      \* group_chat_member_requests
    card,         \* the invitation shown in the direct chat of the two users
    settings,     \* group_chat_settings
    month,        \* the calendar
    acts,         \* how many operations the admins have begun
    hand          \* the operation each worker is at

vars == <<part, banned, community, admitted, request, card, settings, month, acts, hand>>

Unasked == [status |-> "none", by |-> NoUser, to |-> NoUser]
Idle    == [at |-> "idle", user |-> NoUser, target |-> NoUser, request |-> NoRequest,
            allow |-> TRUE, moved |-> 0]

\* CreateGroup has committed the chat and its participants.  There is no row of
\* settings yet: it is read as the default, invitations open and no transfer.
Init ==
    /\ part = [u \in Users |-> IF u = Creator THEN "admin"
                               ELSE IF u \in Founders THEN "member" ELSE "out"]
    /\ banned = {}
    /\ community = {}
    /\ admitted = {}
    /\ request = [r \in Requests |-> Unasked]
    /\ card = [r \in Requests |-> "none"]
    /\ settings = [row |-> FALSE, allow |-> TRUE, moved |-> 0]
    /\ month = 1
    /\ acts = 0
    /\ hand = [w \in Workers |-> Idle]

Members == {u \in Users : part[u] # "out"}
Admins  == {u \in Users : part[u] = "admin"}

Start(w, step, u, v, r) ==
    /\ hand[w] = Idle
    /\ hand' = [hand EXCEPT ![w] = [Idle EXCEPT !.at = step, !.user = u, !.target = v,
                                                !.request = r]]
GoOn(w, step) == hand' = [hand EXCEPT ![w].at = step]
Finish(w)     == hand' = [hand EXCEPT ![w] = Idle]

-----------------------------------------------------------------------------
(* Invitations. *)

\* u asks v into the group.
AddMember(w, u, v) ==
    /\ u # v
    /\ u \in Members
    /\ settings.allow \/ u \in Admins
    /\ v \notin banned \cup Members
    /\ \A r \in Requests : ~(request[r].to = v /\ request[r].status = "pending")
    /\ Start(w, "asking", u, v, NoRequest)
    /\ UNCHANGED <<part, banned, community, admitted, request, card, settings, month, acts>>

CreateRequest(w) ==
    /\ hand[w].at = "asking"
    /\ \E r \in Requests :
         /\ request[r] = Unasked
         /\ request' = [request EXCEPT ![r] = [status |-> "pending", by |-> hand[w].user,
                                               to |-> hand[w].target]]
         /\ hand' = [hand EXCEPT ![w] = [Idle EXCEPT !.at = "inviting", !.request = r]]
    /\ UNCHANGED <<part, banned, community, admitted, card, settings, month, acts>>

SendCard(w) ==
    /\ hand[w].at = "inviting"
    /\ card' = [card EXCEPT ![hand[w].request] = "pending"]
    /\ Finish(w)
    /\ UNCHANGED <<part, banned, community, admitted, request, settings, month, acts>>
\* Mutant: the ban is not looked up when the invitation is answered.
ApproveBanned(w, r) ==
    /\ request[r].status = "pending"
    /\ Start(w, "accepting", NoUser, NoUser, r)
    /\ UNCHANGED <<part, banned, community, admitted, request, card, settings, month, acts>>

\* The user invited accepts: his request is still open and he is not banned.
Approve(w, r) ==
    /\ request[r].status = "pending"
    /\ request[r].to \notin banned
    /\ Start(w, "accepting", NoUser, NoUser, r)
    /\ UNCHANGED <<part, banned, community, admitted, request, card, settings, month, acts>>

\* The first read of ApproveMemberRequest's transaction, just after the membership
\* has been checked, locks nothing.
Reread(w) ==
    /\ hand[w].at = "accepting"
    /\ IF /\ request[hand[w].request].to \notin Members
          /\ request[hand[w].request].status = "pending"
       THEN GoOn(w, "joining")
       ELSE Finish(w)
    /\ UNCHANGED <<part, banned, community, admitted, request, card, settings, month, acts>>
\* Mutant: the participant is created and the request not saved.
JoinUnsaved(w) ==
    LET u == request[hand[w].request].to
    IN /\ hand[w].at = "joining" /\ u \notin Members
       /\ part' = [part EXCEPT ![u] = "member"]
       /\ GoOn(w, "accepted")
       /\ UNCHANGED <<banned, community, admitted, request, card, settings, month, acts>>

\* Mutant: the handler goes on when the transaction has been rolled back.
JoinUnchecked(w) ==
    LET r == hand[w].request
        u == request[r].to
    IN /\ hand[w].at = "joining"
       /\ IF u \notin Members
          THEN /\ request' = [request EXCEPT ![r].status = "approved"]
               /\ part' = [part EXCEPT ![u] = "member"]
          ELSE UNCHANGED <<request, part>>
       /\ GoOn(w, "accepted")
       /\ UNCHANGED <<banned, community, admitted, card, settings, month, acts>>

\* It saves the request whatever its row says now; the participant is unique, so
\* the transaction is rolled back when the user has joined in between.
Join(w) ==
    LET r == hand[w].request
        u == request[r].to
    IN /\ hand[w].at = "joining"
       /\ IF u \notin Members
          THEN /\ request' = [request EXCEPT ![r].status = "approved"]
               /\ part' = [part EXCEPT ![u] = "member"]
               /\ GoOn(w, "accepted")
          ELSE Finish(w) /\ UNCHANGED <<request, part>>
       /\ UNCHANGED <<banned, community, admitted, card, settings, month, acts>>

Reject(w, r) ==
    /\ request[r].status = "pending"
    /\ Start(w, "refusing", NoUser, NoUser, r)
    /\ UNCHANGED <<part, banned, community, admitted, request, card, settings, month, acts>>
\* Mutant: the update forgets that the request must still be open.
DeclineAny(w) ==
    /\ hand[w].at = "refusing"
    /\ request' = [request EXCEPT ![hand[w].request].status = "rejected"]
    /\ GoOn(w, "rejected")
    /\ UNCHANGED <<part, banned, community, admitted, card, settings, month, acts>>

\* The update touches an open request only; how many rows it touched is not read.
Decline(w) ==
    LET r == hand[w].request
    IN /\ hand[w].at = "refusing"
       /\ request' = IF request[r].status = "pending"
                     THEN [request EXCEPT ![r].status = "rejected"]
                     ELSE request
       /\ GoOn(w, "rejected")
       /\ UNCHANGED <<part, banned, community, admitted, card, settings, month, acts>>

\* updateGroupInviteStatus: without a card there is nothing to mark.
MarkCard(w) ==
    LET r == hand[w].request
    IN /\ hand[w].at \in {"accepted", "rejected"}
       /\ card' = IF card[r] = "none" THEN card ELSE [card EXCEPT ![r] = hand[w].at]
       /\ Finish(w)
       /\ UNCHANGED <<part, banned, community, admitted, request, settings, month, acts>>

-----------------------------------------------------------------------------
(* Leaving and banning. *)

Leave(w, u) ==
    /\ u \in Members
    /\ Start(w, "leaving", u, NoUser, NoRequest)
    /\ UNCHANGED <<part, banned, community, admitted, request, card, settings, month, acts>>

Left(w) ==
    /\ hand[w].at = "leaving"
    /\ part' = [part EXCEPT ![hand[w].user] = "out"]
    /\ Finish(w)
    /\ UNCHANGED <<banned, community, admitted, request, card, settings, month, acts>>

BanMember(w, u, v) ==
    /\ u # v
    /\ u \in Admins
    /\ v \notin banned
    /\ Start(w, "banning", NoUser, v, NoRequest)
    /\ acts < MaxActs
    /\ acts' = acts + 1
    /\ UNCHANGED <<part, banned, community, admitted, request, card, settings, month>>

Ban(w) ==
    /\ hand[w].at = "banning"
    /\ part' = [part EXCEPT ![hand[w].target] = "out"]
    /\ banned' = banned \cup {hand[w].target}
    /\ Finish(w)
    /\ UNCHANGED <<community, admitted, request, card, settings, month, acts>>

-----------------------------------------------------------------------------
(* The admin role and the settings. *)

Cooled == settings.moved = 0 \/ settings.moved < month

TransferAdmin(w, u, v) ==
    /\ u # v
    /\ u \in Admins
    /\ v \in Members
    /\ Cooled
    /\ Start(w, "passing", u, v, NoRequest)
    /\ acts < MaxActs
    /\ acts' = acts + 1
    /\ UNCHANGED <<part, banned, community, admitted, request, card, settings, month>>

\* The transaction updates the rows it finds: a user who is gone has none.
Pass(w) ==
    LET Passed(x) == IF part[x] = "out" THEN "out"
                     ELSE IF x = hand[w].target THEN "admin"
                     ELSE IF x = hand[w].user THEN "member" ELSE part[x]
    IN /\ hand[w].at = "passing"
       /\ part' = [x \in Users |-> Passed(x)]
       /\ settings' = [settings EXCEPT !.row = TRUE, !.moved = month]
       /\ Finish(w)
       /\ UNCHANGED <<banned, community, admitted, request, card, month, acts>>

\* A new value of "members may invite", or the one that was read when only the name
\* or the picture changes.
UpdateSettings(w, u, allow) ==
    /\ u \in Admins
    /\ hand[w] = Idle
    /\ hand' = [hand EXCEPT ![w] = [Idle EXCEPT !.at = "setting",
                                    !.allow = allow, !.moved = settings.moved]]
    /\ acts < MaxActs
    /\ acts' = acts + 1
    /\ UNCHANGED <<part, banned, community, admitted, request, card, settings, month>>

\* UpsertSettings writes back the time of the last transfer as it was read.  A new
\* row whose flag is false is inserted with the column's default, true.
WriteSettings(w) ==
    /\ hand[w].at = "setting"
    /\ settings' = [row |-> TRUE, allow |-> hand[w].allow \/ ~settings.row,
                    moved |-> hand[w].moved]
    /\ Finish(w)
    /\ UNCHANGED <<part, banned, community, admitted, request, card, month, acts>>

-----------------------------------------------------------------------------
(* The community of the group.  Nobody is invited and no ban is looked up. *)

\* AddCommunityMemberAndGroupChat, or the transaction of an approved join request: the
\* member and the participant are both unique, or the whole is rolled back.
EnterCommunity(u) ==
    /\ u \in Visitors
    /\ u \notin community \cup Members
    /\ community' = community \cup {u}
    /\ part' = [part EXCEPT ![u] = "member"]
    /\ admitted' = admitted \cup {u}
    /\ UNCHANGED <<banned, request, card, settings, month, acts, hand>>

\* RemoveMember leaves the participant where he is.  (That the owner may not leave is
\* a matter of Community, which keeps the owner.)
QuitCommunity(u) ==
    /\ u \in community
    /\ community' = community \ {u}
    /\ UNCHANGED <<part, banned, admitted, request, card, settings, month, acts, hand>>

\* The owner hands the community to one of its members ...
TransferOwnership(w, v) ==
    /\ v \in community
    /\ Start(w, "endowing", NoUser, v, NoRequest)
    /\ acts < MaxActs
    /\ acts' = acts + 1
    /\ UNCHANGED <<part, banned, community, admitted, request, card, settings, month>>

\* ... and the transaction makes him an admin of the group, if he is in it.
Endow(w) ==
    LET v == hand[w].target
    IN /\ hand[w].at = "endowing"
       /\ part' = IF v \in Members THEN [part EXCEPT ![v] = "admin"] ELSE part
       /\ Finish(w)
       /\ UNCHANGED <<banned, community, admitted, request, card, settings, month, acts>>

MonthPasses ==
    /\ month < MaxMonths
    /\ month' = month + 1
    /\ UNCHANGED <<part, banned, community, admitted, request, card, settings, acts, hand>>

\* An error of the database, or the end of the process: what is left is not done.
Stumble(w) ==
    /\ hand[w] # Idle
    /\ Finish(w)
    /\ UNCHANGED <<part, banned, community, admitted, request, card, settings, month, acts>>

Next ==
    \/ \E w \in Workers :
         \/ CreateRequest(w) \/ SendCard(w)
         \/ Reread(w) \/ Join(w) \/ Decline(w) \/ MarkCard(w)
         \/ Left(w) \/ Ban(w) \/ Pass(w) \/ WriteSettings(w) \/ Endow(w)
         \/ Stumble(w)
         \/ \E r \in Requests : Approve(w, r) \/ Reject(w, r)
         \/ \E u \in Users :
              \/ Leave(w, u) \/ TransferOwnership(w, u)
              \/ \E v \in Users : AddMember(w, u, v) \/ BanMember(w, u, v) \/ TransferAdmin(w, u, v)
              \/ \E allow \in BOOLEAN : UpdateSettings(w, u, allow)
    \/ \E u \in Users : EnterCommunity(u) \/ QuitCommunity(u)
    \/ MonthPasses

Spec == Init /\ [][Next]_vars

-----------------------------------------------------------------------------
(* Properties. *)

Steps == {"idle", "asking", "inviting", "accepting", "joining", "refusing", "accepted",
          "rejected", "leaving", "banning", "passing", "setting", "endowing"}

\* Type invariant: a request has its two users from its creation on, a card shows
\* one of three answers, and a handler beyond its first read has what it needs.
TypeOK ==
    /\ part \in [Users -> {"out", "member", "admin"}]
    /\ banned \cup community \cup admitted \subseteq Users
    /\ request \in [Requests -> [status : {"none", "pending", "approved", "rejected"},
                                 by : Users \cup {NoUser}, to : Users \cup {NoUser}]]
    /\ \A r \in Requests : request[r].status # "none" =>
         request[r].by \in Users /\ request[r].to \in Users
    /\ card \in [Requests -> {"none", "pending", "accepted", "rejected"}]
    /\ settings \in [row : BOOLEAN, allow : BOOLEAN, moved : 0 .. MaxMonths]
    /\ month \in 1 .. MaxMonths
    /\ acts \in 0 .. MaxActs
    /\ hand \in [Workers -> [at : Steps, user : Users \cup {NoUser},
                             target : Users \cup {NoUser}, request : Requests \cup {NoRequest},
                             allow : BOOLEAN, moved : 0 .. MaxMonths]]

\* u was in the group from the start, has accepted an invitation to it, or came in
\* with its community.
Entitled(u) ==
    \/ u \in Founders \cup admitted
    \/ \E r \in Requests : request[r].to = u /\ request[r].status = "approved"

\* Whoever is in the group is entitled to be, and so was whoever invited him: a
\* chain of accepted invitations leads from every member to the founders and to those
\* the community let in, whatever approvals, refusals, departures and bans overlap.
NobodyJoinsUninvited ==
    /\ \A u \in Members : Entitled(u)
    /\ \A r \in Requests : request[r].status # "none" => Entitled(request[r].by)

\* The card the two users see in their chat claims an answer only when the request
\* has one, and "accepted" only for a request that was approved.
CardIsTrue ==
    \A r \in Requests :
        /\ card[r] = "accepted" => request[r].status = "approved"
        /\ card[r] = "rejected" => request[r].status \in {"approved", "rejected"}
        /\ card[r] # "none" => request[r].status # "none"

\* Someone accepts an invitation of u's and is past the look at the bans.
BeingApproved(u) ==
    \E w \in Workers : /\ hand[w].at \in {"accepting", "joining"}
                       /\ request[hand[w].request].to = u

\* A banned user who is out, with no approval under way, is brought back by nothing in
\* the group: only by joining the community anew, which looks up no bans, so never as
\* long as he stays in it or out of it.
BanHolds ==
    [][\A u \in banned \ Members :
         ~BeingApproved(u) => /\ u \in Members' => u \in community' \ community
                              /\ ~BeingApproved(u)']_vars

\* An approval is final, and a refusal too unless an approval of the same request
\* has read it as open: ApproveMemberRequest then saves over the refusal.
AnswersStay ==
    [][\A r \in Requests :
         \/ request[r].status \in {"none", "pending"}
         \/ request'[r] = request[r]
         \/ /\ request[r].status = "rejected"
            /\ \E w \in Workers : hand[w].at = "joining" /\ hand[w].request = r]_vars

\* Refuted, docs/function-user.md:2179: from the ban on, every operation of a banned
\* user in the group is refused.  An acceptance that looked at the bans first brings
\* him in, and so does joining the community again; he cannot be banned again.
BannedIsOut == banned \cap Members = {}

\* Refuted, docs/function-user.md:2209: a month lies between two transfers, so there
\* is one admin as long as he stays.  Two transfers that overlap make two admins, and so
\* does the transfer of the community; one to a member who is leaving makes none.
OneAdmin == Cardinality(Admins) <= 1

\* Refuted, docs/function-user.md:2128: once the admin has closed the invitations,
\* the setting is closed.  The first row of settings is inserted as open.
ClosedIsStored ==
    [][\A w \in Workers : hand[w].at = "setting" /\ ~hand[w].allow /\ settings' # settings
                            => ~settings'.allow]_vars
=============================================================================
