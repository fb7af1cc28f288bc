----------------------------- MODULE GroupCall ------------------------------
(***************************************************************************)
(* Group video calls: the sessions the group call hub keeps in memory      *)
(* (groupws/hub.go), the ReadPump of every call socket                     *)
(* (groupws/client.go), the hub goroutine with its periodic cleanup, and   *)
(* the call history in MongoDB (repository/group_call.repository.go).      *)
(*                                                                         *)
(* Every hub operation is atomic under the hub mutex and is one action.    *)
(* What happens outside the mutex is a step of its own: CreateGroupCall    *)
(* looks for a running call, then inserts; the history is written after    *)
(* the mutex is released; a dropped socket looks for another socket of its *)
(* user, lists the calls, marks them one by one and unregisters.           *)
(*                                                                         *)
(* A handler reads a snapshot and checks the membership in the database    *)
(* before it calls the hub; when that fails nothing changes, and the hub   *)
(* checks its own conditions again.                                        *)
(*                                                                         *)
(* The 30 s of a request and the 15 s of grace are counted in ticks, from  *)
(* 0 to Patience, each user's timer on its own: what matters is that a     *)
(* repeated request and a renewed mark start again at 0.  The 60 s limit,  *)
(* set once and never renewed, may lapse at any time.  The calls are those *)
(* of one chat.                                                            *)
(***************************************************************************)
EXTENDS Naturals

CONSTANTS
    Users,        \* members of the chat
    Sockets,      \* call sockets
    Owner,        \* the user of each socket
    Calls,        \* call ids
    Switches,     \* who uses which switch: pairs of a user and "mic", "mute" or "video"
    Faulty,       \* TRUE: a write to MongoDB may fail
    Patience,     \* ticks until a request or the grace of a mark is over
    MaxCrashes,   \* bound on the restarts of the process
    NoUser, NoCall

ASSUME GroupAssumption ==
    /\ Owner \in [Sockets -> Users]
    /\ Switches \subseteq Users \X {"mic", "mute", "video"}
    /\ Faulty \in BOOLEAN
    /\ Patience \in Nat \ {0}
    /\ MaxCrashes \in Nat
    /\ NoUser \notin Users
    /\ NoCall \notin Calls

VARIABLES
    call,         \* the hub's session of each id
    age,          \* ticks since a pending request or a disconnection mark was last set
    job,          \* the ReadPump of each socket: where it stands between two lock sections
    hub,          \* the hub goroutine: the call whose end it still has to record
    doc,          \* the call history
    crashes

vars == <<call, age, job, hub, doc, crashes>>

NoSession == [phase |-> "none", creator |-> NoUser, participants |-> {}, joined |-> {},
              active |-> {}, pending |-> {}, dropped |-> {}, muted |-> {}, dark |-> {},
              expires |-> FALSE]
OverSession == [NoSession EXCEPT !.phase = "over"]

NoDoc == [status |-> "absent", roster |-> {}]

Closed == [at |-> "closed", call |-> NoCall, names |-> {}, goal |-> "none", todo |-> {}]
Reading == [Closed EXCEPT !.at = "reading"]
HubIdle == [call |-> NoCall, goal |-> "none"]

Live(k) == call[k].phase = "live"
LiveCalls == {k \in Calls : Live(k)}
SocketsOf(u) == {s \in Sockets : Owner[s] = u /\ job[s].at # "closed"}

\* Nobody knows the id of a call before CreateGroupCall returns, and its 2 s time limit
\* ends before any timer of the call lapses.
Known(k) == \A s \in Sockets : job[s].at = "record" => job[s].call # k

Init ==
    /\ call = [k \in Calls |-> NoSession]
    /\ age = [k \in Calls |-> [u \in Users |-> 0]]
    /\ job = [s \in Sockets |-> Closed]
    /\ hub = HubIdle
    /\ doc = [k \in Calls |-> NoDoc]
    /\ crashes = 0

-----------------------------------------------------------------------------
(* Sessions *)

JoiningKeepsLimit(r, u) ==                       \* mutant: ExpiresAt is not cleared
    [r EXCEPT !.joined = @ \cup {u}, !.dropped = @ \ {u}]
\* With more than one joined, the 60 s limit no longer applies.
Joining(r, u) ==
    [r EXCEPT !.joined = @ \cup {u}, !.dropped = @ \ {u},
              !.expires = @ /\ r.joined \subseteq {u}]

LeftButMarked(r, u) ==                           \* mutant: DisconnectedAt is not cleared
    [r EXCEPT !.joined = @ \ {u}, !.active = @ \ {u}]
Left(r, u) == [r EXCEPT !.joined = @ \ {u}, !.active = @ \ {u}, !.dropped = @ \ {u}]

\* persistCallEnd counts the joined of the session as its caller left it.
Verdict(joined) == IF \A u, v \in joined : u = v THEN "cancelled" ELSE "ended"

TimedOutKept(r, late) == r                       \* mutant: the request is not deleted
TimedOut(r, late) == [r EXCEPT !.pending = @ \ late]

\* The people whose grace is over are removed; a creator among them hands over to
\* somebody joined and not disconnected, if there is one.
AnyJoined(r) == r.joined \ {r.creator}           \* mutant: the disconnected inherit
Heirs(r) == r.joined \ r.dropped
RemovedButMarked(r, gone, heir) ==               \* mutant: DisconnectedAt is not cleared
    [r EXCEPT !.joined = @ \ gone, !.active = @ \ gone,
              !.muted = @ \ gone, !.dark = @ \ gone, !.creator = heir]
Removed(r, gone, heir) ==
    [r EXCEPT !.joined = @ \ gone, !.active = @ \ gone, !.dropped = @ \ gone,
              !.muted = @ \ gone, !.dark = @ \ gone, !.creator = heir]

\* A timer lasts as long as the request or the mark it belongs to.
Waiting(r) == r.pending \cup r.dropped
Timers ==
    age' = [k \in Calls |-> [u \in Users |->
               IF u \in Waiting(call'[k]) THEN age[k][u] ELSE 0]]
Restart(k, u) == age' = [age EXCEPT ![k][u] = 0]

Overdue(k) == {u \in Waiting(call[k]) : age[k][u] = Patience}

-----------------------------------------------------------------------------
(* The ReadPump of a socket *)

\* The handshake; the hub goroutine registers the client.
Connect(s) ==
    /\ hub = HubIdle
    /\ job[s].at = "closed"
    /\ job' = [job EXCEPT ![s] = Reading]
    /\ UNCHANGED <<call, age, hub, doc, crashes>>

\* CreateGroupCall looks for a session of the chat under the read lock.
Create(s, k, invited) ==
    /\ job[s].at = "reading"
    /\ LiveCalls = {}
    /\ call[k].phase = "none" /\ \A x \in Sockets : job[x].call # k
    /\ job' = [job EXCEPT ![s] = [Closed EXCEPT !.at = "insert", !.call = k,
                                                !.names = invited \cup {Owner[s]}]]
    /\ UNCHANGED <<call, age, hub, doc, crashes>>

\* ... and inserts the new one under the write lock, without looking again.
Insert(s) ==
    LET k == job[s].call IN
    /\ job[s].at = "insert"
    /\ call' = [call EXCEPT ![k] =
          [NoSession EXCEPT !.phase = "live", !.creator = Owner[s],
                            !.participants = job[s].names, !.joined = {Owner[s]},
                            !.expires = TRUE]]
    /\ job' = [job EXCEPT ![s].at = "record"]
    /\ Timers
    /\ UNCHANGED <<hub, doc, crashes>>

\* The history document; an error is logged only.
Record(s) ==
    LET k == job[s].call IN
    /\ job[s].at = "record"
    /\ \/ doc' = [doc EXCEPT ![k] = [status |-> "calling", roster |-> job[s].names]]
       \/ Faulty /\ UNCHANGED doc
    /\ job' = [job EXCEPT ![s] = Reading]
    /\ UNCHANGED <<call, age, hub, crashes>>

RequestJoinOpen(s, k) ==                         \* mutant: everybody joins at once
    /\ job[s].at = "reading" /\ Live(k) /\ Known(k)
    /\ call' = [call EXCEPT ![k] = Joining(@, Owner[s])]
    /\ Timers
    /\ UNCHANGED <<job, hub, doc, crashes>>
\* An invited user joins at once, anybody else waits for the creator; who asks again
\* waits from now on.
RequestJoin(s, k) ==
    LET u == Owner[s] IN
    /\ job[s].at = "reading" /\ Live(k) /\ Known(k)
    /\ \/ /\ u \in call[k].participants
          /\ call' = [call EXCEPT ![k] = Joining(@, u)]
          /\ Timers
       \/ /\ u \notin call[k].participants
          /\ call' = [call EXCEPT ![k].pending = @ \cup {u}]
          /\ Restart(k, u)
    /\ UNCHANGED <<job, hub, doc, crashes>>

ApproveJoin(s, k, u) ==
    /\ job[s].at = "reading" /\ Live(k) /\ Known(k)
    /\ call[k].creator = Owner[s]
    /\ u \in call[k].pending
    /\ LET r == [Joining(call[k], u) EXCEPT !.pending = @ \ {u},
                                            !.participants = @ \cup {u}]
       IN /\ call' = [call EXCEPT ![k] = r]
          /\ job' = [job EXCEPT ![s] = [Closed EXCEPT !.at = "roster", !.call = k,
                                                      !.names = r.participants]]
    /\ Timers
    /\ UNCHANGED <<hub, doc, crashes>>

\* UpdateParticipants, after the mutex is released.
WriteRoster(s) ==
    LET k == job[s].call IN
    /\ job[s].at = "roster"
    /\ \/ doc' = [doc EXCEPT ![k].roster = IF doc[k] = NoDoc THEN @ ELSE job[s].names]
       \/ Faulty /\ UNCHANGED doc
    /\ job' = [job EXCEPT ![s] = Reading]
    /\ UNCHANGED <<call, age, hub, crashes>>

RejectJoin(s, k, u) ==
    /\ job[s].at = "reading" /\ Live(k) /\ Known(k)
    /\ call[k].creator = Owner[s]
    /\ call' = [call EXCEPT ![k].pending = @ \ {u}]
    /\ Timers
    /\ UNCHANGED <<job, hub, doc, crashes>>

\* RelaySignalTargets marks the sender before it looks at the target.
Signal(s, k) ==
    /\ job[s].at = "reading" /\ Live(k) /\ Known(k)
    /\ Owner[s] \in call[k].participants \cap call[k].joined
    /\ call' = [call EXCEPT ![k].active = @ \cup {Owner[s]}]
    /\ UNCHANGED <<age, job, hub, doc, crashes>>

\* toggle-mute is the creator's, on another participant.
ToggleMute(s, k, u) ==
    /\ <<Owner[s], "mute">> \in Switches
    /\ job[s].at = "reading" /\ Live(k) /\ Known(k)
    /\ Owner[s] \in call[k].participants /\ call[k].creator = Owner[s]
    /\ u # Owner[s] /\ u \in call[k].participants
    /\ \E on \in BOOLEAN : call' = [call EXCEPT ![k].muted = IF on THEN @ \cup {u} ELSE @ \ {u}]
    /\ UNCHANGED <<age, job, hub, doc, crashes>>

\* toggle-mic and toggle-video act on the sender.
ToggleOwn(s, k, switch) ==
    LET u == Owner[s]
        flip(set) == IF u \in set THEN set \ {u} ELSE set \cup {u} IN
    /\ <<u, switch>> \in Switches
    /\ job[s].at = "reading" /\ Live(k) /\ Known(k)
    /\ u \in call[k].participants
    /\ \/ switch = "mic" /\ call' = [call EXCEPT ![k].muted = flip(@)]
       \/ switch = "video" /\ call' = [call EXCEPT ![k].dark = flip(@)]
    /\ UNCHANGED <<age, job, hub, doc, crashes>>

\* The creator ends the call; anybody else leaves it, and the last one out ends it.
EndCallByUser(s, k) ==
    LET u == Owner[s]
        staying == call[k].joined \ {u}
        close(joined) ==
            /\ call' = [call EXCEPT ![k] = OverSession]
            /\ job' = [job EXCEPT ![s] = [Closed EXCEPT !.at = "close", !.call = k,
                                                        !.goal = Verdict(joined)]]
    IN
    /\ job[s].at = "reading" /\ Live(k) /\ Known(k)
    /\ u \in call[k].joined
    /\ \/ call[k].creator = u /\ close(call[k].joined)
       \/ call[k].creator # u /\ staying = {} /\ close({})
       \/ /\ call[k].creator # u /\ staying # {}
          /\ call' = [call EXCEPT ![k] = Left(@, u)]
          /\ UNCHANGED job
    /\ Timers
    /\ UNCHANGED <<hub, doc, crashes>>

\* persistCallEnd: UpdateStatus on a document that may not exist.
Ended(k, goal) == [doc EXCEPT ![k].status = IF doc[k] = NoDoc THEN @ ELSE goal]

WriteEnd(s) ==
    /\ job[s].at = "close"
    /\ doc' = Ended(job[s].call, job[s].goal) \/ (Faulty /\ UNCHANGED doc)
    /\ job' = [job EXCEPT ![s] = Reading]
    /\ UNCHANGED <<call, age, hub, crashes>>

\* The socket is lost: HasOtherClients is read first.
Lose(s) ==
    /\ job[s].at = "reading"
    /\ job' = [job EXCEPT ![s] = [Closed EXCEPT !.at =
                  IF SocketsOf(Owner[s]) # {s} THEN "leave" ELSE "list"]]
    /\ UNCHANGED <<call, age, hub, doc, crashes>>

\* ListCallIDsByUser.
ListCalls(s) ==
    /\ job[s].at = "list"
    /\ job' = [job EXCEPT ![s] = [Closed EXCEPT !.at = "mark",
                  !.todo = {k \in LiveCalls : Owner[s] \in call[k].joined}]]
    /\ UNCHANGED <<call, age, hub, doc, crashes>>

\* The time of the mark is now, also when the user was marked before.
MarkDisconnected(s, k) ==
    LET u == Owner[s] IN
    /\ job[s].at = "mark" /\ k \in job[s].todo
    /\ IF Live(k) /\ u \in call[k].joined
       THEN call' = [call EXCEPT ![k].dropped = @ \cup {u}] /\ Restart(k, u)
       ELSE UNCHANGED <<call, age>>
    /\ job' = [job EXCEPT ![s].todo = @ \ {k}]
    /\ UNCHANGED <<hub, doc, crashes>>

\* The hub goroutine takes the client out.
Unregister(s) ==
    /\ hub = HubIdle
    /\ job[s].at = "leave" \/ (job[s].at = "mark" /\ job[s].todo = {})
    /\ job' = [job EXCEPT ![s] = Closed]
    /\ UNCHANGED <<call, age, hub, doc, crashes>>

-----------------------------------------------------------------------------
(* The hub goroutine: CleanupStaleCalls, one session at a time *)

CloseUnrecorded(k, verdict) ==                   \* mutant: no persistCallEnd
    /\ call' = [call EXCEPT ![k] = OverSession]
    /\ UNCHANGED hub
Close(k, verdict) ==
    /\ call' = [call EXCEPT ![k] = OverSession]
    /\ hub' = [call |-> k, goal |-> verdict]

Expire(k) ==
    /\ hub = HubIdle
    /\ Live(k) /\ Known(k) /\ call[k].expires
    /\ Close(k, Verdict(call[k].joined))
    /\ Timers
    /\ UNCHANGED <<job, doc, crashes>>

\* Time passes for a request or a mark.
Tick(k, u) ==
    /\ u \in Waiting(call[k]) /\ age[k][u] < Patience
    /\ age' = [age EXCEPT ![k][u] = @ + 1]
    /\ UNCHANGED <<call, job, hub, doc, crashes>>

\* The requests of late go, and the people of gone leave the call.
Drop(k, late, gone) ==
    LET r == TimedOut(call[k], late) IN
    \/ /\ r.joined \subseteq gone
       /\ Close(k, Verdict({}))
    \/ /\ ~(r.joined \subseteq gone)
       /\ \/ /\ r.creator \in gone
             /\ \E heir \in Heirs(r) : call' = [call EXCEPT ![k] = Removed(r, gone, heir)]
          \/ /\ r.creator \in gone => Heirs(r) = {}
             /\ call' = [call EXCEPT ![k] = Removed(r, gone, r.creator)]
       /\ UNCHANGED hub

\* Every request that has waited 30 s and every mark whose 15 s of grace are over.
Cleanup(k) ==
    /\ hub = HubIdle
    /\ Live(k) /\ Known(k)
    /\ Overdue(k) # {}
    /\ Drop(k, call[k].pending \cap Overdue(k), call[k].dropped \cap Overdue(k))
    /\ Timers
    /\ UNCHANGED <<job, doc, crashes>>

RecordEnd ==
    /\ hub # HubIdle
    /\ doc' = Ended(hub.call, hub.goal) \/ (Faulty /\ UNCHANGED doc)
    /\ hub' = HubIdle
    /\ UNCHANGED <<call, age, job, crashes>>

\* The process restarts: the sessions and sockets are gone, the history stays.
Crash ==
    /\ crashes < MaxCrashes
    /\ crashes' = crashes + 1
    /\ call' = [k \in Calls |-> IF Live(k) THEN OverSession ELSE call[k]]
    /\ job' = [s \in Sockets |-> Closed]
    /\ hub' = HubIdle
    /\ Timers
    /\ UNCHANGED doc

-----------------------------------------------------------------------------
Handle(s, k) ==
    \/ \E invited \in SUBSET Users : Create(s, k, invited)
    \/ RequestJoin(s, k)
    \/ \E u \in Users : ApproveJoin(s, k, u) \/ RejectJoin(s, k, u) \/ ToggleMute(s, k, u)
    \/ Signal(s, k)
    \/ \E switch \in {"mic", "video"} : ToggleOwn(s, k, switch)
    \/ EndCallByUser(s, k)

Proceed(s) ==
    \/ Insert(s) \/ Record(s) \/ WriteRoster(s) \/ WriteEnd(s)
    \/ ListCalls(s) \/ (\E k \in Calls : MarkDisconnected(s, k)) \/ Unregister(s)

Next ==
    \/ \E s \in Sockets : Connect(s) \/ Lose(s) \/ Proceed(s)
    \/ \E s \in Sockets, k \in Calls : Handle(s, k)
    \/ \E k \in Calls : Expire(k) \/ Cleanup(k) \/ \E u \in Users : Tick(k, u)
    \/ RecordEnd
    \/ Crash

Spec == Init /\ [][Next]_vars

\* The ReadPumps and the hub goroutine keep running, time passes, and the ticker fires for
\* ever.  Users owe nothing: they may never connect, ask, answer or leave, and they may
\* ask again or drop again for ever.  No property needs a session to expire, so Expire
\* owes nothing either.
Fairness ==
    /\ \A s \in Sockets : WF_vars(Proceed(s))
    /\ WF_vars(RecordEnd)
    /\ \A k \in Calls : WF_vars(Cleanup(k)) /\ \A u \in Users : WF_vars(Tick(k, u))

FairSpec == Spec /\ Fairness

-----------------------------------------------------------------------------
(* Safety *)

Sessions == [phase : {"none", "live", "over"}, creator : Users \cup {NoUser},
             participants : SUBSET Users, joined : SUBSET Users, active : SUBSET Users,
             pending : SUBSET Users, dropped : SUBSET Users, muted : SUBSET Users,
             dark : SUBSET Users, expires : BOOLEAN]

Jobs == [at : {"closed", "reading", "insert", "record", "roster", "close", "list", "mark", "leave"},
         call : Calls \cup {NoCall}, names : SUBSET Users,
         goal : {"none", "ended", "cancelled"}, todo : SUBSET Calls]

\* Types, and a live session always has a creator.
TypeOK ==
    /\ call \in [Calls -> Sessions]
    /\ \A k \in Calls : Live(k) <=> call[k].creator # NoUser
    /\ age \in [Calls -> [Users -> 0..Patience]]
    /\ job \in [Sockets -> Jobs]
    /\ \A s \in Sockets : job[s].at \in {"insert", "record", "roster", "close"} => job[s].call \in Calls
    /\ hub \in [call : Calls \cup {NoCall}, goal : {"none", "ended", "cancelled"}]
    /\ doc \in [Calls -> [status : {"absent", "calling", "ended", "cancelled"},
                          roster : SUBSET Users]]
    /\ crashes \in 0..MaxCrashes

\* The five sets of a session agree, whichever sockets join, drop and leave: only the joined
\* send media or are in grace, only participants join or have switches, and nobody both
\* waits for approval and takes part.
RostersAgree ==
    \A k \in Calls :
        /\ call[k].active \cup call[k].dropped \subseteq call[k].joined
        /\ call[k].joined \cup call[k].muted \cup call[k].dark \subseteq call[k].participants
        /\ call[k].pending \cap call[k].participants = {}
        /\ Live(k) => call[k].creator \in call[k].participants

\* A session in the hub has somebody joined, and the 60 second limit never cuts off a call
\* in which two people are joined.
NeverEmpty ==
    \A k \in LiveCalls :
        /\ call[k].joined # {}
        /\ call[k].expires => \A u, v \in call[k].joined : u = v

\* The end of a call is recorded once, by the goroutine that took the session out, and
\* never while the call goes on: a creator, the last participant and the cleanup race.
Closing(s, k) == job[s].at = "close" /\ job[s].call = k
Recorded(k) == doc[k].status \in {"ended", "cancelled"}

EndedOnce ==
    \A k \in Calls :
        /\ \A s, t \in Sockets : Closing(s, k) /\ Closing(t, k) => s = t
        /\ hub.call = k => \A s \in Sockets : ~Closing(s, k)
        /\ hub.call = k \/ (\E s \in Sockets : Closing(s, k)) => ~Recorded(k) /\ ~Live(k)
        /\ Recorded(k) => call[k].phase = "over"

\* The role of creator passes only from somebody the cleanup removes to somebody joined and
\* not disconnected.
HeirIsPresent ==
    [][\A k \in Calls : Live(k) /\ Live(k)' /\ call'[k].creator # call[k].creator =>
          /\ call[k].creator \in call[k].dropped \ call'[k].joined
          /\ call'[k].creator \in call'[k].joined \ call[k].dropped]_vars

Room(r) == [phase |-> r.phase, host |-> r.creator, guests |-> r.participants, inside |-> r.joined]
RoomOf == [k \in Calls |-> Room(call[k])]

Rooms == INSTANCE CallRoom WITH room <- RoomOf

\* The sessions of the hub implement the abstract rooms.
RoomSpec == Rooms!Spec

-----------------------------------------------------------------------------
(* Liveness *)

\* u asks again, or a socket of u drops again, while the earlier request or mark stands.
AsksAgain(k, u) ==
    u \in call[k].pending /\ \E s \in Sockets : Owner[s] = u /\ RequestJoin(s, k)
DropsAgain(k, u) ==
    u \in call[k].dropped /\ \E s \in Sockets : Owner[s] = u /\ MarkDisconnected(s, k)

\* A disconnection mark is resolved: the user is back, has left, or is removed.  Only a
\* user who comes back without joining and drops again, for ever, keeps it.
MarksResolve ==
    \A k \in Calls, u \in Users :
        \/ u \in call[k].dropped ~> u \notin call[k].dropped
        \/ []<><<DropsAgain(k, u)>>_vars

\* A request to join is answered, by the creator or by the cleanup.  Only a user who asks
\* again for ever, each time before the cleanup gets to him, goes on waiting.
RequestsResolve ==
    \A k \in Calls, u \in Users :
        \/ u \in call[k].pending ~> u \notin call[k].pending
        \/ []<><<AsksAgain(k, u)>>_vars

\* When MongoDB accepts the writes, every call that is over is recorded as over.
OverIsRecorded ==
    \A k \in Calls : call[k].phase = "over" ~> Recorded(k)

-----------------------------------------------------------------------------
(* What the documents and comments of the repository say *)

\* One running call per chat (groupws/hub.go:265, docs/function-user.md:2397).
OneCallPerChat == \A j, k \in LiveCalls : j = k

\* A creator who is removed hands over the role (groupws/hub.go:798): a call somebody
\* connected takes part in has its creator in it.
CreatorTakesPart ==
    \A k \in LiveCalls :
        call[k].joined \ call[k].dropped # {} => call[k].creator \in call[k].joined

\* A user with another open socket is not disconnected (groupws/client.go:1312).
MarkedOnlyIfAway ==
    [][\A k \in LiveCalls, u \in Users :
          u \in call'[k].dropped \ call[k].dropped =>
              \A s \in SocketsOf(u) : job[s].at \in {"list", "mark", "leave"}]_vars

\* A dropped socket leaves no participant behind that keeps the call hanging
\* (groupws/client.go:95).
AbsentLeaves ==
    \A k \in Calls, u \in Users : ~<>[](u \in call[k].joined /\ SocketsOf(u) = {})

\* An approval is saved in the call history (docs/function-user.md:2399).
RosterRecorded ==
    \A k \in LiveCalls :
        (\A s \in Sockets : job[s].call # k) => doc[k].roster = call[k].participants
=============================================================================
