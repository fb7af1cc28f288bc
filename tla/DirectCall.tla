----------------------------- MODULE DirectCall -----------------------------
(***************************************************************************)
(* One-to-one voice and video calls: VoiceCallService over the calls table *)
(* (CallRepository), driven by concurrent requests (the read loops of the  *)
(* sockets and the HTTP handlers) and by the goroutine of ws.Hub, which    *)
(* runs CleanupDisconnectedCalls when the last socket of a user closes.    *)
(*                                                                         *)
(* A step is one database statement or transaction, or the sends that      *)
(* follow it; the messages themselves change nothing here and are left to  *)
(* the labels "tell" and "missTell" of the handler about to send them.     *)
(* Time is a clock in the unit of the DATETIME columns.                    *)
(***************************************************************************)
EXTENDS Integers, FiniteSets

CONSTANTS
    Users,        \* user ids
    Calls,        \* call ids GenerateUUID may return
    Requests,     \* request goroutines that may run at the same time
    HubLoop,      \* the goroutine of Hub.Run
    Friendships,  \* accepted friendships as pairs <<caller, callee>> that may call
    VideoCalls,   \* the calls placed with call_type "video"
    Switches,     \* which toggles the requests use
    Readers,      \* the users who open their call history
    Subscribers,  \* the users whose preferences leave notices of calls on
    Faulty,       \* TRUE: a database statement may fail
    MaxClock,     \* bound on the clock
    MaxCrashes,   \* bound on the number of server restarts
    NoUser, NoCall

ASSUME CallAssumption ==
    /\ HubLoop \notin Requests
    /\ Friendships \subseteq Users \X Users
    /\ VideoCalls \subseteq Calls
    /\ Switches \subseteq {"muted", "unmuted", "cameraOn", "cameraOff"}
    /\ Readers \subseteq Users
    /\ Subscribers \subseteq Users
    /\ Faulty \in BOOLEAN
    /\ MaxClock \in Nat \ {0}
    /\ MaxCrashes \in Nat
    /\ NoUser \notin Users
    /\ NoCall \notin Calls

VARIABLES
    row,       \* the calls table
    hidden,    \* the call_hidden table: pairs <<user, call>>
    lastRead,  \* profiles.last_read_missed_at
    noticed,   \* calls whose callee has a missed-call notification
    failed,    \* history: calls for which creating the notification failed
    online,    \* users with a registered socket (Hub.clients)
    job,       \* what each goroutine is doing
    clock,
    crashes

vars == <<row, hidden, lastRead, noticed, failed, online, job, clock, crashes>>

Null == 0                                \* a NULL DATETIME; the clock starts at 1
Times == 1..MaxClock
Workers == Requests \cup {HubLoop}

Waiting == {"calling", "ringing"}
Terminal == {"ended", "missed", "rejected", "cancelled"}
Statuses == {"none"} \cup Waiting \cup {"connected"} \cup Terminal

NoRow == [status |-> "none", caller |-> NoUser, callee |-> NoUser, created |-> Null,
          started |-> Null, ended |-> Null, duration |-> 0, muted |-> {}, camera |-> {}]

Idle == [at |-> "idle", user |-> NoUser, call |-> NoCall, peer |-> NoUser,
         goal |-> "none", stamp |-> Null, duration |-> 0]

Parties(c) == {row[c].caller, row[c].callee}
Active(c) == row[c].status \in Waiting \cup {"connected"}
Over(c) == row[c].status \in Terminal

IncomingOf(u) == {c \in Calls : Active(c) /\ u = row[c].callee}       \* mutant: no caller_id
WaitingOf(u) == {c \in Calls : row[c].status \in Waiting /\ u \in Parties(c)}  \* mutant
ActiveOf(u) == {c \in Calls : Active(c) /\ u \in Parties(c)}

InConversation(c) == row[c].status = "connected"
Quiet == \A w \in Workers : job[w].at = "idle"

Init ==
    /\ row = [c \in Calls |-> NoRow]
    /\ hidden = {}
    /\ lastRead = [u \in Users |-> Null]
    /\ noticed = {}
    /\ failed = {}
    /\ online = {}
    /\ job = [w \in Workers |-> Idle]
    /\ clock = 1
    /\ crashes = 0

-----------------------------------------------------------------------------
(* Helpers of the handlers *)

Goto(w, label) == job' = [job EXCEPT ![w].at = label]
Finish(w) == job' = [job EXCEPT ![w] = Idle]
Announce(w, u, c, s) ==
    job' = [job EXCEPT ![w] = [Idle EXCEPT !.at = "tell", !.user = u, !.call = c, !.goal = s]]

\* UpdateStatus: no guard on the current status, and a zero duration is left out.
Updated(c, s, stamp, dur) ==
    [row[c] EXCEPT !.status = s, !.ended = stamp,
                   !.duration = IF dur > 0 THEN dur ELSE @]

-----------------------------------------------------------------------------
(* InitiateCall *)

\* The checks that need no lock, and the timestamp taken before the insert.
Initiate(w, u, v, c) ==
    /\ w \in Requests /\ job[w].at = "idle"
    /\ u # v /\ <<u, v>> \in Friendships
    /\ row[c].status = "none" /\ \A x \in Workers : job[x].call # c
    /\ job' = [job EXCEPT ![w] = [Idle EXCEPT !.at = "create", !.user = u, !.peer = v,
                                              !.call = c, !.stamp = clock]]
    /\ UNCHANGED <<row, hidden, lastRead, noticed, failed, online, clock, crashes>>

\* CreateIfNotBusy counts the calls of the callee under FOR UPDATE and inserts in
\* the same transaction; the caller's own calls are not counted.
CreateIfNotBusy(w) ==
    LET j == job[w] IN
    /\ j.at = "create"
    /\ \/ /\ ActiveOf(j.peer) # {} \/ Faulty
          /\ Finish(w)
          /\ UNCHANGED row
       \/ /\ ActiveOf(j.peer) = {}
          /\ row' = [row EXCEPT ![j.call] =
                        [NoRow EXCEPT !.status = "calling", !.caller = j.user,
                                      !.callee = j.peer, !.created = j.stamp]]
          /\ Goto(w, "probe")
    /\ UNCHANGED <<hidden, lastRead, noticed, failed, online, clock, crashes>>

\* IsUserOnline is read once.  Online: call:incoming to the callee, "calling" to the
\* caller, and the handler is done.
ProbeCallee(w) ==
    /\ job[w].at = "probe"
    /\ IF job[w].peer \in online THEN Finish(w) ELSE Goto(w, "miss")
    /\ UNCHANGED <<row, hidden, lastRead, noticed, failed, online, clock, crashes>>

\* The offline branch: an error of UpdateStatus is only logged.
MarkMissed(w) ==
    LET j == job[w] IN
    /\ j.at = "miss"
    /\ \/ row' = [row EXCEPT ![j.call] = Updated(j.call, "missed", j.stamp, 0)]
       \/ Faulty /\ UNCHANGED row
    /\ Goto(w, "missTell")
    /\ UNCHANGED <<hidden, lastRead, noticed, failed, online, clock, crashes>>

\* NotificationService.Create: nothing for a callee who turned the notices of calls
\* off; an error (its result is ignored by the callers) leaves no notification.
CreateNotification(c) ==
    \/ /\ row[c].callee \in Subscribers
       /\ noticed' = noticed \cup {c}
       /\ UNCHANGED failed
    \/ /\ row[c].callee \notin Subscribers
       /\ UNCHANGED <<noticed, failed>>
    \/ /\ Faulty
       /\ failed' = failed \cup {c}
       /\ UNCHANGED noticed

\* call:status "missed" (then "calling") to the caller, the notification to the callee.
TellMissedQuietly(w) ==    \* mutant: no notification
    job[w].at = "missTell" /\ Finish(w)
    /\ UNCHANGED <<row, hidden, lastRead, noticed, failed, online, clock, crashes>>

TellMissed(w) ==
    /\ job[w].at = "missTell"
    /\ CreateNotification(job[w].call)
    /\ Finish(w)
    /\ UNCHANGED <<row, hidden, lastRead, online, clock, crashes>>

-----------------------------------------------------------------------------
(* AcceptCall and RejectCall: one conditional UPDATE, then the sends *)

Respond(w, u, c, s) ==
    /\ w \in Requests /\ job[w].at = "idle"
    /\ row[c].callee = u /\ row[c].status \in Waiting
    /\ Announce(w, NoUser, c, s)
    /\ UNCHANGED <<hidden, lastRead, noticed, failed, online, clock, crashes>>

Accept(w, u, c) ==
    /\ Respond(w, u, c, "connected")
    /\ row' = [row EXCEPT ![c].status = "connected", ![c].started = clock]

Reject(w, u, c) ==
    /\ Respond(w, u, c, "rejected")
    /\ row' = [row EXCEPT ![c].status = "rejected", ![c].ended = clock]

-----------------------------------------------------------------------------
(* EndCall, run by a request or by the hub's cleanup *)

\* The verdict follows from the row as read, not from the row that is written.
VerdictEnded(u, c) == "ended"    \* mutant: a waiting call is not told apart
Verdict(u, c) ==
    IF row[c].status \notin Waiting THEN "ended"
    ELSE IF u = row[c].caller THEN "cancelled" ELSE "missed"

Elapsed(c) == IF row[c].started = Null THEN 0 ELSE clock - row[c].started

ReadToEnd(w, u, c) ==
    /\ Active(c) /\ u \in Parties(c)
    /\ job' = [job EXCEPT ![w] = [Idle EXCEPT !.at = "end", !.user = u, !.call = c,
                    !.goal = Verdict(u, c), !.stamp = clock, !.duration = Elapsed(c)]]
    /\ UNCHANGED <<row, hidden, lastRead, noticed, failed, online, clock, crashes>>

\* Only the socket has an event for it (call:end), so the user is connected.
EndCall(w, u, c) ==
    /\ w \in Requests /\ job[w].at = "idle"
    /\ u \in online
    /\ ReadToEnd(w, u, c)

\* UpdateStatus fails when the statement changes nothing (RowsAffected = 0).
WriteEnd(w) ==
    LET j == job[w]
        new == Updated(j.call, j.goal, j.stamp, j.duration)
    IN
    /\ j.at = "end"
    /\ \/ /\ new # row[j.call]
          /\ row' = [row EXCEPT ![j.call] = new]
          /\ Announce(w, j.user, j.call, j.goal)
       \/ /\ new = row[j.call] \/ Faulty
          /\ Finish(w)
          /\ UNCHANGED row
    /\ UNCHANGED <<hidden, lastRead, noticed, failed, online, clock, crashes>>

\* call:status to both parties, then the missed-call notification of the callee.
TellParties(w) ==
    LET j == job[w] IN
    /\ j.at = "tell"
    /\ IF j.goal = "missed" THEN CreateNotification(j.call) ELSE UNCHANGED <<noticed, failed>>
    /\ Finish(w)
    /\ UNCHANGED <<row, hidden, lastRead, online, clock, crashes>>

-----------------------------------------------------------------------------
(* CleanupDisconnectedCalls, in the goroutine of the hub *)

HubFree == job[HubLoop].at = "idle"

Connect(u) ==
    /\ HubFree /\ u \notin online
    /\ online' = online \cup {u}
    /\ UNCHANGED <<row, hidden, lastRead, noticed, failed, job, clock, crashes>>

\* The last socket of u is unregistered and the callback starts.  A read loop
\* unregisters its socket after the event it is handling, so not within EndCall.
Disconnect(u) ==
    /\ HubFree /\ u \in online
    /\ \A w \in Requests : job[w].at \in {"end", "tell"} => job[w].user # u
    /\ online' = online \ {u}
    /\ job' = [job EXCEPT ![HubLoop] = [Idle EXCEPT !.at = "sweep", !.user = u]]
    /\ UNCHANGED <<row, hidden, lastRead, noticed, failed, clock, crashes>>

\* FindActiveByParticipant: one row, the latest created.
LatestActive(u) ==
    {c \in ActiveOf(u) : \A d \in ActiveOf(u) : row[d].created <= row[c].created}

Sweep ==
    LET j == job[HubLoop] IN
    /\ j.at = "sweep"
    /\ \/ /\ ActiveOf(j.user) = {} \/ Faulty
          /\ Finish(HubLoop)
       \/ \E c \in LatestActive(j.user) :
             job' = [job EXCEPT ![HubLoop].at = "swept", ![HubLoop].call = c]
    /\ UNCHANGED <<row, hidden, lastRead, noticed, failed, online, clock, crashes>>

\* EndCall reads the row again: it may be over by now.
EndSwept ==
    LET j == job[HubLoop] IN
    /\ j.at = "swept"
    /\ \/ ReadToEnd(HubLoop, j.user, j.call)
       \/ /\ Over(j.call) \/ Faulty
          /\ Finish(HubLoop)
          /\ UNCHANGED <<row, hidden, lastRead, noticed, failed, online, clock, crashes>>

-----------------------------------------------------------------------------
(* ToggleMute and ToggleVideo: the status is read, the flag written later *)

Toggle(w, u, c, s) ==
    /\ w \in Requests /\ job[w].at = "idle"
    /\ InConversation(c) /\ u \in Parties(c)
    /\ s \in {"cameraOn", "cameraOff"} => c \in VideoCalls
    /\ job' = [job EXCEPT ![w] = [Idle EXCEPT !.at = "toggle", !.user = u,
                                              !.call = c, !.goal = s]]
    /\ UNCHANGED <<row, hidden, lastRead, noticed, failed, online, clock, crashes>>

WriteToggle(w) ==
    LET j == job[w]
        r == row[j.call]
    IN
    /\ j.at = "toggle"
    /\ \/ row' = [row EXCEPT ![j.call] =
            CASE j.goal = "muted"     -> [r EXCEPT !.muted = @ \cup {j.user}]
              [] j.goal = "unmuted"   -> [r EXCEPT !.muted = @ \ {j.user}]
              [] j.goal = "cameraOn"  -> [r EXCEPT !.camera = @ \cup {j.user}]
              [] j.goal = "cameraOff" -> [r EXCEPT !.camera = @ \ {j.user}]]
       \/ Faulty /\ UNCHANGED row
    /\ Finish(w)
    /\ UNCHANGED <<hidden, lastRead, noticed, failed, online, clock, crashes>>

-----------------------------------------------------------------------------
(* Call history *)

HideCallToggled(u, c) ==    \* mutant: a second request shows the call again
    /\ row[c].status # "none" /\ u \in Parties(c)
    /\ hidden' = IF <<u, c>> \in hidden THEN hidden \ {<<u, c>>} ELSE hidden \cup {<<u, c>>}
    /\ UNCHANGED <<row, lastRead, noticed, failed, online, job, clock, crashes>>

\* The parties of a row never change, so its read and the insert are one step.
HideCall(u, c) ==
    /\ row[c].status # "none" /\ u \in Parties(c)
    /\ hidden' = hidden \cup {<<u, c>>}
    /\ UNCHANGED <<row, lastRead, noticed, failed, online, job, clock, crashes>>

MarkMissedRead(u) ==
    /\ lastRead' = [lastRead EXCEPT ![u] = clock]
    /\ UNCHANGED <<row, hidden, noticed, failed, online, job, clock, crashes>>

MissedUnread(u) ==
    {c \in Calls : /\ row[c].status = "missed" /\ row[c].callee = u
                   /\ <<u, c>> \notin hidden
                   /\ row[c].created >= lastRead[u]}

-----------------------------------------------------------------------------
Tick ==
    /\ clock < MaxClock
    /\ clock' = clock + 1
    /\ UNCHANGED <<row, hidden, lastRead, noticed, failed, online, job, crashes>>

\* The process stops: the sockets and the running handlers are lost, the tables
\* stay, and main starts again without looking at the calls table.
Crash ==
    /\ crashes < MaxCrashes
    /\ crashes' = crashes + 1
    /\ online' = {}
    /\ job' = [w \in Workers |-> Idle]
    /\ UNCHANGED <<row, hidden, lastRead, noticed, failed, clock>>

Work(w) ==
    \/ CreateIfNotBusy(w) \/ ProbeCallee(w) \/ MarkMissed(w) \/ TellMissed(w)
    \/ WriteEnd(w) \/ TellParties(w) \/ WriteToggle(w)

Ask(w, u, c) ==
    \/ \E v \in Users : Initiate(w, u, v, c)
    \/ Accept(w, u, c) \/ Reject(w, u, c) \/ EndCall(w, u, c)
    \/ \E s \in Switches : Toggle(w, u, c, s)

Next ==
    \/ \E w \in Workers : Work(w)
    \/ \E w \in Requests, u \in Users, c \in Calls : Ask(w, u, c)
    \/ \E u \in Users : Connect(u) \/ Disconnect(u)
    \/ \E u \in Readers : MarkMissedRead(u) \/ \E c \in Calls : HideCall(u, c)
    \/ Sweep \/ EndSwept
    \/ Tick \/ Crash

Spec == Init /\ [][Next]_vars

\* A goroutine that has started a handler keeps running it.
Fairness == WF_vars(Sweep) /\ WF_vars(EndSwept) /\ \A w \in Workers : WF_vars(Work(w))

FairSpec == Spec /\ Fairness

-----------------------------------------------------------------------------
(* Properties *)

Jobs == [at : {"idle", "create", "probe", "miss", "missTell", "end",
               "tell", "sweep", "swept", "toggle"},
         user : Users \cup {NoUser}, call : Calls \cup {NoCall}, peer : Users \cup {NoUser},
         goal : Statuses \cup Switches, stamp : 0..MaxClock, duration : 0..MaxClock]

Rows == [status : Statuses, caller : Users \cup {NoUser}, callee : Users \cup {NoUser},
         created : 0..MaxClock, started : 0..MaxClock, ended : 0..MaxClock,
         duration : 0..MaxClock, muted : SUBSET Users, camera : SUBSET Users]

\* Every table, socket set and running handler has the shape the code gives it.
TypeOK ==
    /\ row \in [Calls -> Rows]
    /\ hidden \subseteq Users \X Calls
    /\ lastRead \in [Users -> 0..MaxClock]
    /\ noticed \cup failed \subseteq Calls
    /\ online \subseteq Users
    /\ job \in [Workers -> Jobs]
    /\ clock \in Times
    /\ crashes \in 0..MaxCrashes

\* Nobody is called while in a live call, so of two live calls one was placed to a
\* user who is not in the other: no two calls ring one callee, and two users never
\* end up calling each other (the FOR UPDATE count of CreateIfNotBusy).
NoCrossedCalls ==
    \A c, d \in Calls : c # d /\ Active(c) /\ Active(d) =>
        row[c].callee \notin Parties(d) \/ row[d].callee \notin Parties(c)

\* Talk time belongs to answered calls: a call connected or ended was accepted, a
\* rejected one was not, and no unanswered call has a duration, although EndCall
\* decides all this on a row it read earlier.
TalkTimeOnlyIfAnswered ==
    \A c \in Calls :
        /\ row[c].status \in {"connected", "ended"} => row[c].started # Null
        /\ row[c].status \in {"none", "rejected"} \cup Waiting => row[c].started = Null
        /\ row[c].duration > 0 => row[c].started # Null

\* Microphone and camera flags are only ever set in an answered call by one of its
\* two parties, the camera only in a video call, although ToggleMute and
\* ToggleVideo write after the status check.
FlagsOnlyIfAnswered ==
    \A c \in Calls :
        /\ row[c].muted \cup row[c].camera # {} => row[c].started # Null
        /\ row[c].muted \cup row[c].camera \subseteq Parties(c)
        /\ row[c].camera # {} => c \in VideoCalls

\* Nobody is told something that never became true: a handler about to announce
\* "connected" speaks of a call that was accepted, one about to announce an end, of a
\* call that is over and stays so, whatever the other handlers wrote in between.
AnnouncedIsBacked ==
    \A w \in Workers : job[w].at = "tell" =>
        IF job[w].goal = "connected" THEN row[job[w].call].started # Null
                                     ELSE Over(job[w].call)

\* The callee of c has the notification, or wants none, or creating it has failed.
NoticeSettled(c) ==
    c \in noticed \/ c \in failed \/ row[c].callee \notin Subscribers

\* Once every handler has returned, each missed call has its notification, whoever
\* recorded it as missed, unless the callee turned these notices off or a statement
\* that creates one failed (as long as the process has not been restarted).
MissedIsNoticed ==
    Quiet /\ crashes = 0 =>
        \A c \in Calls : row[c].status = "missed" => NoticeSettled(c)

\* A call that is over is never live again, whatever stale row a handler acts on.
OverStays == [][\A c \in Calls : Over(c) => Over(c)']_vars

\* A missed call that was read or hidden never returns to the unread count, although
\* the row may be written again after the marker.
ReadStaysRead ==
    [][\A u \in Users, c \in Calls :
          row[c].status = "missed" /\ row[c].callee = u /\ c \notin MissedUnread(u)
          => c \notin MissedUnread(u)']_vars

\* The active call the hub finds when the last socket of a user closes ends, unless
\* that user is in a call created later or in the same second, which is then the one found,
\* or the server restarts.
SweptCallEnds ==
    \A u \in Users, c \in Calls :
        /\ job[HubLoop].at = "sweep" /\ job[HubLoop].user = u
        /\ Active(c) /\ u \in Parties(c)
        ~> \/ Over(c) \/ crashes > 0
           \/ \E d \in Calls \ {c} : /\ row[d].status # "none" /\ u \in Parties(d)
                                     /\ row[d].created >= row[c].created

Phase(c) ==
    CASE row[c].status = "none"      -> "free"
      [] row[c].status \in Waiting   -> "ringing"
      [] row[c].status = "connected" -> "live"
      [] OTHER                       -> "over"

LedgerOf ==
    [c \in Calls |-> [phase |-> Phase(c),
        parties |-> IF row[c].status = "none" THEN <<>> ELSE <<row[c].caller, row[c].callee>>]]

Ledger == INSTANCE CallLedger WITH ledger <- LedgerOf

\* The calls table implements the abstract ledger of calls.
LedgerSpec == Ledger!Spec

-----------------------------------------------------------------------------
(* What the documents and comments of the repository say *)

\* docs/function-user.md:2542: a call is not created while the caller or the callee
\* is in a waiting or connected call.
NobodyInTwoCalls ==
    \A c, d \in Calls : c # d /\ Active(c) /\ Active(d) => Parties(c) \cap Parties(d) = {}

\* docs/function-user.md:2436: when the last socket of a user closes, the unfinished
\* calls are cleaned up so that nothing is stuck.
DisconnectClearsCalls ==
    \A u \in Users, c \in Calls :
        /\ job[HubLoop].at = "sweep" /\ job[HubLoop].user = u
        /\ Active(c) /\ u \in Parties(c)
        ~> Over(c) \/ u \in online

\* services/voice_call.service.go:244 and 258: a call is "missed" when the callee did
\* not answer it, "cancelled" when the caller gave up before the answer.
UnansweredIfMissed ==
    \A c \in Calls : row[c].status \in {"missed", "cancelled"} => row[c].started = Null

\* repository/call.repository.go:394-395: the unread count includes the missed calls
\* that occurred at or after the marker.
MissedSinceIsCounted ==
    \A c \in Calls :
        LET u == row[c].callee IN
        /\ row[c].status = "missed" /\ <<u, c>> \notin hidden
        /\ row[c].ended > lastRead[u]
        => c \in MissedUnread(u)

\* services/voice_call.service.go:90: a call to an offline callee is missed at once.
MissedIsRecorded ==
    \A w \in Workers : job[w].at = "missTell" => Over(job[w].call)
=============================================================================
