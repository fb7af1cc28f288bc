-------------------------- MODULE GroupCallProofs ---------------------------
(***************************************************************************)
(* Proofs about GroupCall for every set of users, sockets and calls.  A    *)
(* session changes by one of six moves; the invariant says that each       *)
(* session is sound, that each goroutine between two lock sections agrees  *)
(* with the session it works on, and that only calls that are over are     *)
(* recorded as over.                                                       *)
(***************************************************************************)
EXTENDS GroupCall, TLAPS

\* A session of the hub, or a call that has none.
Sound(r) ==
    /\ r \in Sessions
    /\ r.phase = "none" => r = NoSession
    /\ r.phase = "over" => r = OverSession
    /\ r.phase = "live" => /\ r.creator \in r.participants
                           /\ r.active \cup r.dropped \subseteq r.joined
                           /\ r.joined \cup r.muted \cup r.dark \subseteq r.participants
                           /\ r.pending \cap r.participants = {}
                           /\ r.joined # {}
                           /\ r.expires => \A u, v \in r.joined : u = v

Working == {"insert", "record", "roster", "close"}

JobOK(s) ==
    LET k == job[s].call IN
    /\ job[s].at \in Working => k \in Calls
    /\ job[s].at = "insert" =>
          /\ call[k].phase = "none" /\ Owner[s] \in job[s].names
          /\ \A t \in Sockets \ {s} : job[t].at = "insert" => job[t].call # k
    /\ job[s].at = "record" => Live(k)
    /\ job[s].at = "close" =>
          /\ call[k].phase = "over" /\ ~Recorded(k) /\ hub.call # k
          /\ job[s].goal \in {"ended", "cancelled"}
          /\ \A t \in Sockets \ {s} : ~Closing(t, k)

Typed ==
    /\ call \in [Calls -> Sessions]
    /\ job \in [Sockets -> Jobs]
    /\ doc \in [Calls -> [status : {"absent", "calling", "ended", "cancelled"}, roster : SUBSET Users]]
    /\ crashes \in 0..MaxCrashes

SessionsOK == \A k \in Calls : Sound(call[k])
JobsOK == \A s \in Sockets : JobOK(s)
HubOK ==
    \/ hub = HubIdle
    \/ /\ hub \in [call : Calls, goal : {"ended", "cancelled"}]
       /\ call[hub.call].phase = "over" /\ ~Recorded(hub.call)
DocOK == \A k \in Calls : Recorded(k) => call[k].phase = "over"

IInv == Typed /\ SessionsOK /\ JobsOK /\ HubOK /\ DocOK

-----------------------------------------------------------------------------
(* The moves of a session *)

Opens(r, q) ==
    /\ r.phase = "none"
    /\ \E u \in Users, names \in SUBSET Users :
          /\ u \in names
          /\ q = [NoSession EXCEPT !.phase = "live", !.creator = u, !.participants = names,
                                   !.joined = {u}, !.expires = TRUE]

Walks(r, q) == r.phase = "live" /\ \E u \in r.participants : q = Joining(r, u)

LetsIn(r, q) ==
    /\ r.phase = "live"
    /\ \E u \in r.pending :
          q = [Joining(r, u) EXCEPT !.pending = @ \ {u}, !.participants = @ \cup {u}]

Tweaks(r, q) ==
    /\ r.phase = "live"
    /\ \E A, D \in SUBSET r.joined, P \in SUBSET (Users \ r.participants),
          M, K \in SUBSET r.participants :
          q = [r EXCEPT !.active = A, !.pending = P, !.dropped = D, !.muted = M, !.dark = K]

Quits(r, q) ==
    /\ r.phase = "live"
    /\ \E gone \in SUBSET r.joined, heir \in Users :
       \E A, D \in SUBSET (r.joined \ gone), P \in SUBSET r.pending, M, K \in SUBSET r.participants :
          /\ gone # {} /\ r.joined \ gone # {}
          /\ heir # r.creator => /\ r.creator \in gone \cap r.dropped
                                 /\ heir \in (r.joined \ gone) \ r.dropped
          /\ q = [r EXCEPT !.creator = heir, !.joined = @ \ gone, !.active = A, !.pending = P,
                           !.dropped = D, !.muted = M, !.dark = K]

Ends(r, q) == r.phase = "live" /\ q = OverSession

Moves(r, q) == Opens(r, q) \/ Walks(r, q) \/ LetsIn(r, q) \/ Tweaks(r, q) \/ Quits(r, q) \/ Ends(r, q)

\* A move keeps a session sound.
LEMMA MoveIsSound ==
    ASSUME NEW r, Sound(r), NEW q, Moves(r, q)
    PROVE  Sound(q)
  <1>0. r \in Sessions /\ NoUser \notin Users
    BY GroupAssumption DEF Sound
  <1>1. CASE Opens(r, q)
    <2>1. PICK u \in Users, names \in SUBSET Users :
             u \in names /\ q = [NoSession EXCEPT !.phase = "live", !.creator = u,
                !.participants = names, !.joined = {u}, !.expires = TRUE]
      BY <1>1 DEF Opens
    <2>2. q = [phase |-> "live", creator |-> u, participants |-> names, joined |-> {u},
               active |-> {}, pending |-> {}, dropped |-> {}, muted |-> {}, dark |-> {},
               expires |-> TRUE]
      BY <2>1 DEF NoSession
    <2>3. q \in Sessions
      BY <2>2 DEF Sessions
    <2>4. q.phase # "none" /\ q.phase # "over"
      BY <2>2
    <2>5. /\ q.creator \in q.participants /\ q.joined \subseteq q.participants
          /\ q.joined # {} /\ \A v, w \in q.joined : v = w
      BY <2>1, <2>2
    <2>6. q.active = {} /\ q.dropped = {} /\ q.muted = {} /\ q.dark = {} /\ q.pending = {}
      BY <2>2
    <2> QED BY <2>3, <2>4, <2>5, <2>6 DEF Sound
  <1>2. CASE Walks(r, q)
    <2>1. PICK u \in r.participants : q = Joining(r, u)
      BY <1>2 DEF Walks
    <2>2. q = [phase |-> r.phase, creator |-> r.creator, participants |-> r.participants,
               joined |-> r.joined \cup {u}, active |-> r.active, pending |-> r.pending,
               dropped |-> r.dropped \ {u}, muted |-> r.muted, dark |-> r.dark,
               expires |-> r.expires /\ r.joined \subseteq {u}]
      BY <2>1, <1>0 DEF Joining, Sessions
    <2>3. q \in Sessions
      BY <2>2, <1>0 DEF Sessions
    <2>4. r.phase = "live"
      BY <1>2 DEF Walks
    <2> QED BY <2>2, <2>3, <2>4 DEF Sound
  <1>3. CASE LetsIn(r, q)
    <2>1. PICK u \in r.pending :
             q = [Joining(r, u) EXCEPT !.pending = @ \ {u}, !.participants = @ \cup {u}]
      BY <1>3 DEF LetsIn
    <2>2. q = [phase |-> r.phase, creator |-> r.creator, participants |-> r.participants \cup {u},
               joined |-> r.joined \cup {u}, active |-> r.active, pending |-> r.pending \ {u},
               dropped |-> r.dropped \ {u}, muted |-> r.muted, dark |-> r.dark,
               expires |-> r.expires /\ r.joined \subseteq {u}]
      BY <2>1, <1>0 DEF Joining, Sessions
    <2>3. q \in Sessions
      BY <2>2, <1>0 DEF Sessions
    <2>4. r.phase = "live"
      BY <1>3 DEF LetsIn
    <2> QED BY <2>2, <2>3, <2>4 DEF Sound
  <1>4. CASE Tweaks(r, q)
    <2>1. PICK A \in SUBSET r.joined, D \in SUBSET r.joined, P \in SUBSET (Users \ r.participants),
               M \in SUBSET r.participants, K \in SUBSET r.participants :
             q = [r EXCEPT !.active = A, !.pending = P, !.dropped = D, !.muted = M, !.dark = K]
      BY <1>4 DEF Tweaks
    <2>2. q = [phase |-> r.phase, creator |-> r.creator, participants |-> r.participants,
               joined |-> r.joined, active |-> A, pending |-> P, dropped |-> D, muted |-> M,
               dark |-> K, expires |-> r.expires]
      BY <2>1, <1>0 DEF Sessions
    <2>3. q \in Sessions
      BY <2>2, <1>0 DEF Sessions
    <2>4. r.phase = "live"
      BY <1>4 DEF Tweaks
    <2> QED BY <2>2, <2>3, <2>4 DEF Sound
  <1>5. CASE Quits(r, q)
    <2>1. PICK gone \in SUBSET r.joined, heir \in Users :
          \E A, D \in SUBSET (r.joined \ gone), P \in SUBSET r.pending,
             M, K \in SUBSET r.participants :
             /\ gone # {} /\ r.joined \ gone # {}
             /\ heir # r.creator => /\ r.creator \in gone \cap r.dropped
                                    /\ heir \in (r.joined \ gone) \ r.dropped
             /\ q = [r EXCEPT !.creator = heir, !.joined = @ \ gone, !.active = A, !.pending = P,
                              !.dropped = D, !.muted = M, !.dark = K]
      BY <1>5 DEF Quits
    <2>2. PICK A \in SUBSET (r.joined \ gone), D \in SUBSET (r.joined \ gone),
               P \in SUBSET r.pending, M \in SUBSET r.participants, K \in SUBSET r.participants :
             /\ gone # {} /\ r.joined \ gone # {}
             /\ heir # r.creator => /\ r.creator \in gone \cap r.dropped
                                    /\ heir \in (r.joined \ gone) \ r.dropped
             /\ q = [r EXCEPT !.creator = heir, !.joined = @ \ gone, !.active = A, !.pending = P,
                              !.dropped = D, !.muted = M, !.dark = K]
      BY <2>1
    <2>3. q = [phase |-> r.phase, creator |-> heir, participants |-> r.participants,
               joined |-> r.joined \ gone, active |-> A, pending |-> P, dropped |-> D,
               muted |-> M, dark |-> K, expires |-> r.expires]
      BY <2>2, <1>0 DEF Sessions
    <2>4. q \in Sessions
      BY <2>3, <1>0 DEF Sessions
    <2>5. r.phase = "live"
      BY <1>5 DEF Quits
    <2>6. heir \in r.participants
      <3>1. r.creator \in r.participants /\ r.joined \subseteq r.participants
        BY <2>5 DEF Sound
      <3> QED BY <2>2, <3>1
    <2>7. /\ A \cup D \subseteq r.joined \ gone
          /\ (r.joined \ gone) \cup M \cup K \subseteq r.participants
          /\ P \cap r.participants = {}
          /\ r.joined \ gone # {}
          /\ r.expires => \A u, v \in r.joined \ gone : u = v
      BY <2>2, <2>5 DEF Sound
    <2> QED BY <2>3, <2>4, <2>5, <2>6, <2>7 DEF Sound
  <1>6. CASE Ends(r, q)
    <2>1. q \in Sessions /\ q = OverSession /\ q.phase = "over"
      BY <1>6 DEF Ends, OverSession, NoSession, Sessions
    <2> QED BY <2>1 DEF Sound
  <1> QED BY <1>1, <1>2, <1>3, <1>4, <1>5, <1>6 DEF Moves

\* A session starts once and ends once.
LEMMA MovePhases ==
    ASSUME NEW r, Sound(r), NEW q, Moves(r, q)
    PROVE  /\ r.phase \in {"none", "live"} /\ q.phase \in {"live", "over"}
           /\ r.phase = "none" => Opens(r, q) /\ q.phase = "live"
           /\ q.phase = "over" => Ends(r, q)
  <1>0. r \in Sessions
    BY DEF Sound
  <1>1. CASE Opens(r, q)
    BY <1>1 DEF Opens, NoSession
  <1>2. CASE Walks(r, q)
    BY <1>2, <1>0 DEF Walks, Joining, Sessions
  <1>3. CASE LetsIn(r, q)
    BY <1>3, <1>0 DEF LetsIn, Joining, Sessions
  <1>4. CASE Tweaks(r, q)
    BY <1>4, <1>0 DEF Tweaks, Sessions
  <1>5. CASE Quits(r, q)
    BY <1>5, <1>0 DEF Quits, Sessions
  <1>6. CASE Ends(r, q)
    BY <1>6 DEF Ends, OverSession, NoSession
  <1> QED BY <1>1, <1>2, <1>3, <1>4, <1>5, <1>6 DEF Moves

-----------------------------------------------------------------------------
(* The actions are moves *)

Moved(k) == Moves(call[k], call'[k]) /\ call' = [call EXCEPT ![k] = call'[k]]

\* What the invariant says of one session.
LEMMA OneSession ==
    ASSUME IInv, NEW k \in Calls
    PROVE  Sound(call[k]) /\ call[k] \in Sessions /\ DOMAIN call = Calls
  BY DEF IInv, Typed, SessionsOK

\* A new value for one session.
LEMMA SetSession ==
    ASSUME IInv, NEW k \in Calls, NEW q, call' = [call EXCEPT ![k] = q], Moves(call[k], q)
    PROVE  Moved(k)
  <1>1. call'[k] = q
    BY OneSession
  <1> QED BY <1>1 DEF Moved

\* A change of the rosters that keeps them in their bounds.
LEMMA TweakMoves ==
    ASSUME IInv, NEW k \in Calls, Live(k),
           NEW A \in SUBSET call[k].joined, NEW D \in SUBSET call[k].joined,
           NEW P \in SUBSET (Users \ call[k].participants),
           NEW M \in SUBSET call[k].participants, NEW K \in SUBSET call[k].participants,
           NEW q, q = [call[k] EXCEPT !.active = A, !.pending = P, !.dropped = D,
                                      !.muted = M, !.dark = K],
           call' = [call EXCEPT ![k] = q]
    PROVE  Moved(k)
  <1>1. Tweaks(call[k], q)
    BY DEF Tweaks, Live
  <1> QED BY <1>1, SetSession DEF Moves

\* CreateGroupCall inserts: the session opens.
LEMMA InsertMoves ==
    ASSUME IInv, NEW s \in Sockets, Insert(s)
    PROVE  job[s].call \in Calls /\ Moved(job[s].call)
  <1> DEFINE k == job[s].call
             q == [NoSession EXCEPT !.phase = "live", !.creator = Owner[s],
                     !.participants = job[s].names, !.joined = {Owner[s]}, !.expires = TRUE]
  <1>1. k \in Calls /\ call[k].phase = "none" /\ Owner[s] \in job[s].names
    BY DEF IInv, JobsOK, JobOK, Insert, Working
  <1>2. Owner[s] \in Users /\ job[s].names \in SUBSET Users
    BY GroupAssumption DEF IInv, Typed, Jobs
  <1>3. call' = [call EXCEPT ![k] = q]
    BY DEF Insert
  <1>4. Opens(call[k], q)
    BY <1>1, <1>2 DEF Opens
  <1> HIDE DEF q, k
  <1> QED BY <1>1, <1>3, <1>4, SetSession DEF Moves, k

\* A request to join walks in or waits.
LEMMA RequestMoves ==
    ASSUME IInv, NEW s \in Sockets, NEW k \in Calls, RequestJoin(s, k)
    PROVE  Moved(k)
  <1> DEFINE u == Owner[s]
  <1>0. Live(k) /\ u \in Users /\ Sound(call[k]) /\ call[k] \in Sessions
    BY OneSession, GroupAssumption DEF RequestJoin
  <1>1. CASE u \in call[k].participants
    <2>1. call' = [call EXCEPT ![k] = Joining(call[k], u)]
      BY <1>1, OneSession DEF RequestJoin
    <2>2. Walks(call[k], Joining(call[k], u))
      BY <1>0, <1>1 DEF Walks, Live
    <2> QED BY <2>1, <2>2, SetSession DEF Moves
  <1>2. CASE u \notin call[k].participants
    <2> DEFINE q == [call[k] EXCEPT !.pending = @ \cup {u}]
               P == call[k].pending \cup {u}
    <2>1. call' = [call EXCEPT ![k] = q]
      BY <1>2, OneSession DEF RequestJoin
    <2>2. P \in SUBSET (Users \ call[k].participants)
      BY <1>0, <1>2 DEF Sound, Sessions, Live
    <2>3. q = [call[k] EXCEPT !.active = call[k].active, !.pending = P,
                  !.dropped = call[k].dropped, !.muted = call[k].muted, !.dark = call[k].dark]
      BY <1>0 DEF Sessions
    <2>4. /\ call[k].active \in SUBSET call[k].joined /\ call[k].dropped \in SUBSET call[k].joined
          /\ call[k].muted \in SUBSET call[k].participants
          /\ call[k].dark \in SUBSET call[k].participants
      BY <1>0 DEF Sound, Live
    <2> HIDE DEF q, P
    <2> QED BY <1>0, <2>1, <2>2, <2>3, <2>4, TweakMoves
  <1> QED BY <1>1, <1>2

\* The rosters of a live session within their bounds.
LEMMA Bounds ==
    ASSUME IInv, NEW k \in Calls, Live(k)
    PROVE  /\ call[k].active \in SUBSET call[k].joined
           /\ call[k].dropped \in SUBSET call[k].joined
           /\ call[k].pending \in SUBSET (Users \ call[k].participants)
           /\ call[k].muted \in SUBSET call[k].participants
           /\ call[k].dark \in SUBSET call[k].participants
           /\ call[k].joined \in SUBSET call[k].participants
           /\ call[k].participants \in SUBSET Users /\ call[k].pending \in SUBSET Users
           /\ call[k].creator \in Users /\ call[k].joined # {}
  BY OneSession DEF Sound, Sessions, Live

\* A rejection only shortens the waiting list.
LEMMA RejectMoves ==
    ASSUME IInv, NEW s \in Sockets, NEW k \in Calls, NEW u \in Users, RejectJoin(s, k, u)
    PROVE  Moved(k)
  <1> DEFINE V == call[k].pending \ {u}
             q == [call[k] EXCEPT !.pending = V]
  <1>1. Live(k) /\ call' = [call EXCEPT ![k] = q]
    BY OneSession DEF RejectJoin
  <1>2. V \in SUBSET (Users \ call[k].participants)
    BY OneSession, Bounds, <1>1, GroupAssumption DEF RejectJoin
  <1>3. q = [call[k] EXCEPT !.active = call[k].active, !.pending = V, !.dropped = call[k].dropped,
                            !.muted = call[k].muted, !.dark = call[k].dark]
    BY OneSession DEF Sessions
  <1> HIDE DEF q, V
  <1> QED BY <1>1, <1>2, <1>3, Bounds, TweakMoves

\* A relayed signal marks a joined sender.
LEMMA SignalMoves ==
    ASSUME IInv, NEW s \in Sockets, NEW k \in Calls, Signal(s, k)
    PROVE  Moved(k)
  <1> DEFINE V == call[k].active \cup {Owner[s]}
             q == [call[k] EXCEPT !.active = V]
  <1>1. Live(k) /\ call' = [call EXCEPT ![k] = q]
    BY OneSession DEF Signal
  <1>2. V \in SUBSET call[k].joined
    BY OneSession, Bounds, <1>1, GroupAssumption DEF Signal
  <1>3. q = [call[k] EXCEPT !.active = V, !.pending = call[k].pending, !.dropped = call[k].dropped,
                            !.muted = call[k].muted, !.dark = call[k].dark]
    BY OneSession DEF Sessions
  <1> HIDE DEF q, V
  <1> QED BY <1>1, <1>2, <1>3, Bounds, TweakMoves

\* The creator switches the microphone of a participant.
LEMMA MuteMoves ==
    ASSUME IInv, NEW s \in Sockets, NEW k \in Calls, NEW u \in Users, ToggleMute(s, k, u)
    PROVE  Moved(k)
  <1>0. PICK on \in BOOLEAN :
           call' = [call EXCEPT ![k].muted = IF on THEN @ \cup {u} ELSE @ \ {u}]
    BY DEF ToggleMute
  <1> DEFINE V == IF on THEN call[k].muted \cup {u} ELSE call[k].muted \ {u}
             q == [call[k] EXCEPT !.muted = V]
  <1>1. Live(k) /\ u \in call[k].participants /\ call' = [call EXCEPT ![k] = q]
    BY <1>0, OneSession DEF ToggleMute
  <1>2. V \in SUBSET call[k].participants
    BY <1>1, Bounds
  <1>3. q = [call[k] EXCEPT !.active = call[k].active, !.pending = call[k].pending,
                !.dropped = call[k].dropped, !.muted = V, !.dark = call[k].dark]
    BY OneSession DEF Sessions
  <1> HIDE DEF q, V
  <1> QED BY <1>1, <1>2, <1>3, Bounds, TweakMoves

\* A participant switches the own microphone or camera.
LEMMA OwnMoves ==
    ASSUME IInv, NEW s \in Sockets, NEW k \in Calls, NEW switch, ToggleOwn(s, k, switch)
    PROVE  Moved(k)
  <1> DEFINE u == Owner[s]
             M == IF switch # "mic" THEN call[k].muted
                  ELSE IF u \in call[k].muted THEN call[k].muted \ {u} ELSE call[k].muted \cup {u}
             K == IF switch = "mic" THEN call[k].dark
                  ELSE IF u \in call[k].dark THEN call[k].dark \ {u} ELSE call[k].dark \cup {u}
             q == [call[k] EXCEPT !.muted = M, !.dark = K]
  <1>1. Live(k) /\ u \in call[k].participants
    BY DEF ToggleOwn
  <1>2. call' = [call EXCEPT ![k] = q]
    <2>0. switch \in {"mic", "video"}
      BY DEF ToggleOwn
    <2>1. CASE switch = "mic"
      <3>1. call' = [call EXCEPT ![k] = [call[k] EXCEPT !.muted = M]]
        BY <2>1, OneSession DEF ToggleOwn
      <3>2. q = [call[k] EXCEPT !.muted = M]
        BY <2>1, OneSession DEF Sessions
      <3> QED BY <3>1, <3>2
    <2>2. CASE switch = "video"
      <3>1. call' = [call EXCEPT ![k] = [call[k] EXCEPT !.dark = K]]
        BY <2>2, OneSession DEF ToggleOwn
      <3>2. q = [call[k] EXCEPT !.dark = K]
        BY <2>2, OneSession DEF Sessions
      <3> QED BY <3>1, <3>2
    <2> QED BY <2>0, <2>1, <2>2
  <1>3. M \in SUBSET call[k].participants /\ K \in SUBSET call[k].participants
    BY <1>1, Bounds
  <1>4. q = [call[k] EXCEPT !.active = call[k].active, !.pending = call[k].pending,
                !.dropped = call[k].dropped, !.muted = M, !.dark = K]
    BY OneSession DEF Sessions
  <1> HIDE DEF q, M, K
  <1> QED BY <1>1, <1>2, <1>3, <1>4, Bounds, TweakMoves

\* A mark of disconnection touches a joined user of a live session, or nothing.
LEMMA MarkMoves ==
    ASSUME IInv, NEW s \in Sockets, NEW k \in Calls, MarkDisconnected(s, k)
    PROVE  call' = call \/ Moved(k)
  <1> DEFINE u == Owner[s]
             V == call[k].dropped \cup {u}
             q == [call[k] EXCEPT !.dropped = V]
  <1>1. CASE ~(Live(k) /\ u \in call[k].joined)
    BY <1>1 DEF MarkDisconnected
  <1>2. CASE Live(k) /\ u \in call[k].joined
    <2>1. call' = [call EXCEPT ![k] = q]
      BY <1>2, OneSession DEF MarkDisconnected
    <2>2. V \in SUBSET call[k].joined
      BY <1>2, Bounds
    <2>3. q = [call[k] EXCEPT !.active = call[k].active, !.pending = call[k].pending,
                  !.dropped = V, !.muted = call[k].muted, !.dark = call[k].dark]
      BY OneSession DEF Sessions
    <2> HIDE DEF q, V
    <2> QED BY <1>2, <2>1, <2>2, <2>3, Bounds, TweakMoves
  <1> QED BY <1>1, <1>2

\* An approval lets in somebody who waits.
LEMMA ApproveMoves ==
    ASSUME IInv, NEW s \in Sockets, NEW k \in Calls, NEW u \in Users, ApproveJoin(s, k, u)
    PROVE  Moved(k)
  <1> DEFINE q == [Joining(call[k], u) EXCEPT !.pending = @ \ {u}, !.participants = @ \cup {u}]
  <1>1. Live(k) /\ u \in call[k].pending /\ call' = [call EXCEPT ![k] = q]
    BY DEF ApproveJoin
  <1>2. LetsIn(call[k], q)
    BY <1>1 DEF LetsIn, Live
  <1> HIDE DEF q
  <1> QED BY <1>1, <1>2, SetSession DEF Moves

\* EndCallByUser ends the session or takes one user out of a session that goes on.
LEMMA EndMoves ==
    ASSUME IInv, NEW s \in Sockets, NEW k \in Calls, EndCallByUser(s, k)
    PROVE  Moved(k)
  <1> DEFINE u == Owner[s]
  <1>1. Live(k) /\ u \in call[k].joined
    BY DEF EndCallByUser
  <1>2. CASE call' = [call EXCEPT ![k] = OverSession]
    <2>1. Ends(call[k], OverSession)
      BY <1>1 DEF Ends, Live
    <2> QED BY <1>2, <2>1, SetSession DEF Moves
  <1>3. CASE /\ call[k].creator # u /\ call[k].joined \ {u} # {}
             /\ call' = [call EXCEPT ![k] = Left(call[k], u)]
    <2> DEFINE q == Left(call[k], u)
    <2>1. q = [call[k] EXCEPT !.creator = call[k].creator, !.joined = @ \ {u},
                  !.active = call[k].active \ {u}, !.pending = call[k].pending,
                  !.dropped = call[k].dropped \ {u}, !.muted = call[k].muted,
                  !.dark = call[k].dark]
      BY OneSession DEF Left, Sessions
    <2>2. /\ {u} \in SUBSET call[k].joined /\ call[k].creator \in Users
          /\ call[k].active \ {u} \in SUBSET (call[k].joined \ {u})
          /\ call[k].dropped \ {u} \in SUBSET (call[k].joined \ {u})
          /\ call[k].pending \in SUBSET call[k].pending
          /\ call[k].muted \in SUBSET call[k].participants
          /\ call[k].dark \in SUBSET call[k].participants
      BY <1>1, Bounds
    <2> HIDE DEF q
    <2>3. Quits(call[k], q)
      BY <1>1, <1>3, <2>1, <2>2 DEF Quits, Live
    <2> QED BY <1>3, <2>3, SetSession DEF Moves, q
  <1> QED BY <1>2, <1>3, OneSession DEF EndCallByUser

\* A session whose 60 seconds are over ends.
LEMMA ExpireMoves ==
    ASSUME IInv, NEW k \in Calls, Expire(k)
    PROVE  Moved(k)
  <1>1. Live(k) /\ call' = [call EXCEPT ![k] = OverSession]
    BY DEF Expire, Close
  <1>2. Ends(call[k], OverSession)
    BY <1>1 DEF Ends, Live
  <1> QED BY <1>1, <1>2, SetSession DEF Moves

\* The cleanup ends the session, only shortens its waiting list, or takes people out.
LEMMA DropMoves ==
    ASSUME IInv, NEW k \in Calls, NEW late \in SUBSET Users, NEW gone \in SUBSET Users,
           Live(k), gone \subseteq call[k].dropped, Drop(k, late, gone)
    PROVE  Moved(k)
  <1> DEFINE r == TimedOut(call[k], late)
  <1>0. r = [call[k] EXCEPT !.pending = @ \ late] /\ call[k] \in Sessions
    BY OneSession DEF TimedOut
  <1>1. /\ r.joined = call[k].joined /\ r.active = call[k].active /\ r.dropped = call[k].dropped
        /\ r.muted = call[k].muted /\ r.dark = call[k].dark /\ r.creator = call[k].creator
        /\ r.pending = call[k].pending \ late
    BY <1>0 DEF Sessions
  <1>2. Live(k) /\ gone \subseteq call[k].dropped
    OBVIOUS
  <1>3. CASE call' = [call EXCEPT ![k] = OverSession]
    <2>1. Ends(call[k], OverSession)
      BY <1>2 DEF Ends, Live
    <2> QED BY <1>3, <2>1, SetSession DEF Moves
  <1>4. ASSUME NEW heir \in Users, ~(call[k].joined \subseteq gone),
               heir # call[k].creator => /\ call[k].creator \in gone
                                         /\ heir \in call[k].joined \ call[k].dropped,
               call' = [call EXCEPT ![k] = Removed(r, gone, heir)]
        PROVE  Moved(k)
    <2> DEFINE q == Removed(r, gone, heir)
    <2>1. q = [call[k] EXCEPT !.creator = heir, !.joined = @ \ gone,
                  !.active = call[k].active \ gone, !.pending = call[k].pending \ late,
                  !.dropped = call[k].dropped \ gone, !.muted = call[k].muted \ gone,
                  !.dark = call[k].dark \ gone]
      BY <1>0, <1>1 DEF Removed, Sessions
    <2>2. /\ gone \in SUBSET call[k].joined
          /\ call[k].active \ gone \in SUBSET (call[k].joined \ gone)
          /\ call[k].dropped \ gone \in SUBSET (call[k].joined \ gone)
          /\ call[k].pending \ late \in SUBSET call[k].pending
          /\ call[k].muted \ gone \in SUBSET call[k].participants
          /\ call[k].dark \ gone \in SUBSET call[k].participants
      BY <1>2, Bounds
    <2>3. call' = [call EXCEPT ![k] = q]
      BY <1>4
    <2> HIDE DEF q
    <2>4. CASE gone # {}
      <3>1. call[k].joined \ gone # {}
        BY <1>4
      <3>2. heir # call[k].creator => /\ call[k].creator \in gone \cap call[k].dropped
                                      /\ heir \in (call[k].joined \ gone) \ call[k].dropped
        BY <1>2, <1>4
      <3>3. Quits(call[k], q)
        BY <1>2, <2>1, <2>2, <2>4, <3>1, <3>2 DEF Quits, Live
      <3> QED BY <2>3, <3>3, SetSession DEF Moves
    <2>5. CASE gone = {}
      <3>1. heir = call[k].creator
        BY <1>4, <2>5
      <3>2. q = [call[k] EXCEPT !.active = call[k].active \ gone, !.pending = call[k].pending \ late,
                    !.dropped = call[k].dropped \ gone, !.muted = call[k].muted \ gone,
                    !.dark = call[k].dark \ gone]
        <4>1. call[k].joined \ gone = call[k].joined
          BY <2>5
        <4>2. call[k] \in Sessions
          BY <1>0
        <4> QED BY <2>1, <3>1, <4>1, <4>2 DEF Sessions
      <3>3. /\ call[k].active \ gone \in SUBSET call[k].joined
            /\ call[k].dropped \ gone \in SUBSET call[k].joined
            /\ call[k].pending \ late \in SUBSET (Users \ call[k].participants)
        BY <1>2, Bounds
      <3> QED BY <1>2, <2>2, <2>3, <3>2, <3>3, TweakMoves
    <2> QED BY <2>4, <2>5
  <1>5. CASE ~(call[k].joined \subseteq gone)
    <2>1. CASE /\ call[k].creator \in gone
               /\ \E heir \in Heirs(r) : call' = [call EXCEPT ![k] = Removed(r, gone, heir)]
      <3>1. PICK heir \in Heirs(r) : call' = [call EXCEPT ![k] = Removed(r, gone, heir)]
        BY <2>1
      <3>2. heir \in call[k].joined \ call[k].dropped /\ heir \in Users
        BY <1>1, <1>2, Bounds DEF Heirs
      <3> HIDE DEF r
      <3> QED BY <1>4, <1>5, <2>1, <3>1, <3>2
    <2>2. CASE call' = [call EXCEPT ![k] = Removed(r, gone, call[k].creator)]
      <3>1. call[k].creator \in Users
        BY <1>2, Bounds
      <3> HIDE DEF r
      <3> QED BY <1>4, <1>5, <2>2, <3>1
    <2>3. \/ /\ r.creator \in gone
             /\ \E heir \in Heirs(r) : call' = [call EXCEPT ![k] = Removed(r, gone, heir)]
          \/ call' = [call EXCEPT ![k] = Removed(r, gone, r.creator)]
      BY <1>1, <1>5 DEF Drop
    <2> QED BY <1>1, <2>1, <2>2, <2>3
  <1>6. CASE call[k].joined \subseteq gone
    BY <1>1, <1>3, <1>6 DEF Drop, Close
  <1> QED BY <1>5, <1>6

\* The cleanup of one session moves it.
LEMMA CleanupMoves ==
    ASSUME IInv, NEW k \in Calls, Cleanup(k)
    PROVE  Moved(k)
  <1>1. call[k] \in Sessions
    BY OneSession
  <1>2. /\ call[k].pending \cap Overdue(k) \in SUBSET Users
        /\ call[k].dropped \cap Overdue(k) \in SUBSET Users
    BY <1>1 DEF Sessions
  <1> QED BY <1>2, DropMoves DEF Cleanup

-----------------------------------------------------------------------------
(* The steps keep the invariant *)

\* A move changes one session and keeps all of them sound.
LEMMA OneMoved ==
    ASSUME IInv, NEW k \in Calls, Moved(k)
    PROVE  /\ call' \in [Calls -> Sessions] /\ SessionsOK'
           /\ call'[k].phase \in {"live", "over"}
           /\ call[k].phase \in {"none", "live"}
           /\ \A x \in Calls \ {k} : call'[x] = call[x]
  <1>1. Sound(call'[k]) /\ call'[k].phase \in {"live", "over"} /\ call[k].phase \in {"none", "live"}
    BY OneSession, MoveIsSound, MovePhases DEF Moved
  <1>2. call'[k] \in Sessions
    BY <1>1 DEF Sound
  <1>3. call' \in [Calls -> Sessions] /\ \A x \in Calls \ {k} : call'[x] = call[x]
    BY <1>2 DEF Moved, IInv, Typed
  <1>4. SessionsOK'
    <2> SUFFICES ASSUME NEW x \in Calls PROVE Sound(call'[x])
      BY DEF SessionsOK
    <2>1. Sound(call[x])
      BY OneSession
    <2> QED BY <1>1, <1>3, <2>1
  <1> QED BY <1>1, <1>3, <1>4

\* The sessions of a step that opens none: only a live one, of a known id, may change.
Calm ==
    /\ call' \in [Calls -> Sessions] /\ SessionsOK'
    /\ \A k \in Calls : /\ call[k].phase = "none" => call'[k].phase = "none"
                        /\ call[k].phase = "over" => call'[k].phase = "over"
                        /\ Live(k) /\ ~Known(k) => call'[k].phase = "live"

\* No session changes.
LEMMA StillIsCalm ==
    ASSUME IInv, call' = call
    PROVE  Calm
  BY DEF Calm, IInv, Typed, SessionsOK, Live

\* A live session of a known id moves.
LEMMA MovedIsCalm ==
    ASSUME IInv, NEW k \in Calls, Moved(k), Live(k), Known(k)
    PROVE  Calm
  <1>1. \A x \in Calls \ {k} : call'[x] = call[x]
    BY OneMoved
  <1> QED BY <1>1, OneMoved DEF Calm, Live

\* A goroutine that is not at work owes nothing.
LEMMA IdleOK ==
    ASSUME NEW t \in Sockets, job'[t].at \notin {"insert", "record", "close"},
           job'[t].at = "roster" => job'[t].call \in Calls
    PROVE  JobOK(t)'
  BY DEF JobOK, Working

\* A step that neither opens a session nor writes to the history, and takes at most one
\* goroutine to a place where it owes nothing.
LEMMA CalmStep ==
    ASSUME IInv, Calm, UNCHANGED <<hub, doc, crashes>>,
           job' \in [Sockets -> Jobs],
           \A t \in Sockets : \/ job'[t] = job[t]
                              \/ /\ job'[t].at \notin {"insert", "record", "close"}
                                 /\ job'[t].at = "roster" => job'[t].call \in Calls
    PROVE  IInv'
  <1>1. Typed'
    BY DEF IInv, Typed, Calm
  <1>2. HubOK' /\ DocOK'
    BY DEF IInv, HubOK, DocOK, Calm, Recorded
  <1>3. JobsOK'
    <2> SUFFICES ASSUME NEW t \in Sockets PROVE JobOK(t)'
      BY DEF JobsOK
    <2>1. CASE job'[t].at \notin {"insert", "record", "close"} /\ job'[t] # job[t]
      BY <2>1, IdleOK
    <2>2. CASE job'[t] = job[t]
      <3>1. JobOK(t)
        BY DEF IInv, JobsOK
      <3>2. job[t].at = "record" => ~Known(job[t].call)
        BY DEF Known
      <3>3. \A x \in Sockets : job'[x].at \in {"insert", "close"} => job'[x] = job[x]
        OBVIOUS
      <3> QED BY <2>2, <3>1, <3>2, <3>3 DEF JobOK, Calm, Working, Live, Closing, Recorded
    <2> QED BY <2>1, <2>2
  <1> QED BY <1>1, <1>2, <1>3 DEF IInv, Calm

\* A goroutine goes on to j.
LEMMA SetJob ==
    ASSUME IInv, NEW s \in Sockets, NEW j \in Jobs, job' = [job EXCEPT ![s] = j]
    PROVE  /\ job' \in [Sockets -> Jobs] /\ job'[s] = j
           /\ \A t \in Sockets \ {s} : job'[t] = job[t]
  BY DEF IInv, Typed

\* What the goroutine s knows of itself.
LEMMA OneJob ==
    ASSUME IInv, NEW s \in Sockets
    PROVE  job[s] \in Jobs /\ JobOK(s) /\ job \in [Sockets -> Jobs]
  BY DEF IInv, Typed, JobsOK

\* A calm step in which the goroutine s goes on to j, and owes nothing there.
LEMMA CalmJob ==
    ASSUME IInv, Calm, UNCHANGED <<hub, doc, crashes>>,
           NEW s \in Sockets, NEW j \in Jobs, job' = [job EXCEPT ![s] = j],
           j.at \notin {"insert", "record", "close"}, j.at = "roster" => j.call \in Calls
    PROVE  IInv'
  BY SetJob, CalmStep

\* A handler that moves a session and leaves its goroutine reading.
LEMMA MovedStep ==
    ASSUME IInv, NEW k \in Calls, Moved(k), Live(k), Known(k), UNCHANGED <<job, hub, doc, crashes>>
    PROVE  IInv'
  BY MovedIsCalm, CalmStep DEF IInv, Typed

\* The sockets come and go.
LEMMA SocketStep ==
    ASSUME IInv, NEW s \in Sockets, Connect(s) \/ Lose(s) \/ ListCalls(s) \/ Unregister(s)
    PROVE  IInv'
  <1>1. call' = call /\ UNCHANGED <<hub, doc, crashes>>
    BY DEF Connect, Lose, ListCalls, Unregister
  <1>2. \E j \in Jobs : /\ j.at \notin {"insert", "record", "close", "roster"}
                        /\ job' = [job EXCEPT ![s] = j]
    <2>1. CASE Connect(s)
      <3> DEFINE j == [at |-> "reading", call |-> NoCall, names |-> {}, goal |-> "none", todo |-> {}]
      <3>1. Reading = j /\ j \in Jobs
        BY DEF Reading, Closed, Jobs
      <3>2. job' = [job EXCEPT ![s] = j]
        BY <2>1, <3>1 DEF Connect
      <3> QED BY <3>1, <3>2
    <2>2. CASE Lose(s)
      <3> DEFINE at == IF SocketsOf(Owner[s]) # {s} THEN "leave" ELSE "list"
                 j == [Closed EXCEPT !.at = at]
      <3>1. at \in {"leave", "list"}
        OBVIOUS
      <3>2. job' = [job EXCEPT ![s] = j]
        BY <2>2 DEF Lose
      <3>3. j \in Jobs /\ j.at \notin {"insert", "record", "close", "roster"}
        <4> HIDE DEF at
        <4> QED BY <3>1 DEF Closed, Jobs
      <3> HIDE DEF j
      <3> QED BY <3>2, <3>3
    <2>3. CASE ListCalls(s)
      <3> DEFINE todo == {k \in LiveCalls : Owner[s] \in call[k].joined}
                 j == [Closed EXCEPT !.at = "mark", !.todo = todo]
      <3>1. todo \in SUBSET Calls
        BY DEF LiveCalls
      <3>2. job' = [job EXCEPT ![s] = j]
        BY <2>3 DEF ListCalls
      <3>3. j \in Jobs /\ j.at = "mark"
        <4> HIDE DEF todo
        <4> QED BY <3>1 DEF Closed, Jobs
      <3> HIDE DEF j
      <3> QED BY <3>2, <3>3
    <2>4. CASE Unregister(s)
      BY <2>4 DEF Unregister, Closed, Jobs
    <2> QED BY <2>1, <2>2, <2>3, <2>4
  <1> QED BY <1>1, <1>2, StillIsCalm, CalmJob

\* Marking a call takes it off the list.
LEMMA MarkStep ==
    ASSUME IInv, NEW s \in Sockets, NEW k \in Calls, MarkDisconnected(s, k)
    PROVE  IInv'
  <1> DEFINE j == [job[s] EXCEPT !.todo = @ \ {k}]
  <1>1. Calm
    <2>1. CASE call' = call
      BY <2>1, StillIsCalm
    <2>2. CASE call' # call
      <3>1. Live(k)
        BY <2>2 DEF MarkDisconnected
      <3>2. Sound(call'[k]) /\ Moved(k) /\ \A x \in Calls \ {k} : call'[x] = call[x]
        BY <2>2, MarkMoves, OneMoved DEF SessionsOK
      <3>3. call'[k].phase = "live"
        BY <2>2, OneSession DEF MarkDisconnected, Sessions, Live
      <3> QED BY <3>1, <3>2, <3>3, OneMoved DEF Calm, Live
    <2> QED BY <2>1, <2>2
  <1>2. job' = [job EXCEPT ![s] = j] /\ UNCHANGED <<hub, doc, crashes>>
    BY OneJob DEF MarkDisconnected, IInv, Typed
  <1>3. j \in Jobs /\ j.at = "mark"
    BY OneJob DEF MarkDisconnected, Jobs
  <1> HIDE DEF j
  <1> QED BY <1>1, <1>2, <1>3, CalmJob

\* An approval leaves its goroutine with the roster to write.
LEMMA ApproveStep ==
    ASSUME IInv, NEW s \in Sockets, NEW k \in Calls, NEW u \in Users, ApproveJoin(s, k, u)
    PROVE  IInv'
  <1> DEFINE names == [Joining(call[k], u) EXCEPT !.pending = @ \ {u}, !.participants = @ \cup {u}].participants
             j == [Closed EXCEPT !.at = "roster", !.call = k, !.names = names]
  <1>1. Calm
    BY ApproveMoves, MovedIsCalm DEF ApproveJoin
  <1>2. names \in SUBSET Users
    <2>1. names = call[k].participants \cup {u}
      BY OneSession DEF Joining, Sessions
    <2> QED BY <2>1, Bounds DEF ApproveJoin
  <1>3. job' = [job EXCEPT ![s] = j] /\ UNCHANGED <<hub, doc, crashes>>
    BY DEF ApproveJoin
  <1>4. j \in Jobs /\ j.at = "roster" /\ j.call = k
    <2> HIDE DEF names
    <2> QED BY <1>2 DEF Closed, Jobs
  <1> HIDE DEF j
  <1> QED BY <1>1, <1>3, <1>4, CalmJob

\* A verdict is one of the two final states of a call.
LEMMA VerdictIsFinal ==
    ASSUME NEW joined
    PROVE  Verdict(joined) \in {"ended", "cancelled"}
  BY DEF Verdict

\* CreateGroupCall has looked: its call is still nobody's.
LEMMA CreateStep ==
    ASSUME IInv, NEW s \in Sockets, NEW k \in Calls, NEW invited \in SUBSET Users,
           Create(s, k, invited)
    PROVE  IInv'
  <1> DEFINE names == invited \cup {Owner[s]}
             j == [Closed EXCEPT !.at = "insert", !.call = k, !.names = names]
  <1>1. names \in SUBSET Users /\ Owner[s] \in names
    BY GroupAssumption
  <1>2. job' = [job EXCEPT ![s] = j] /\ UNCHANGED <<call, hub, doc, crashes>>
    BY DEF Create
  <1>3. j \in Jobs /\ j.at = "insert" /\ j.call = k /\ Owner[s] \in j.names
    <2> HIDE DEF names
    <2> QED BY <1>1 DEF Closed, Jobs
  <1> HIDE DEF j
  <1>4. job' \in [Sockets -> Jobs] /\ job'[s] = j /\ \A t \in Sockets \ {s} : job'[t] = job[t]
    BY <1>2, <1>3, SetJob
  <1>5. call[k].phase = "none" /\ \A t \in Sockets : job[t].call # k
    BY DEF Create
  <1>6. JobsOK'
    <2> SUFFICES ASSUME NEW t \in Sockets PROVE JobOK(t)'
      BY DEF JobsOK
    <2>1. CASE t = s
      BY <2>1, <1>2, <1>3, <1>4, <1>5 DEF JobOK, Working
    <2>2. CASE t # s
      BY <2>2, <1>2, <1>3, <1>4, <1>5, OneJob DEF JobOK, Working, Live, Closing, Recorded
    <2> QED BY <2>1, <2>2
  <1>7. Typed' /\ SessionsOK' /\ HubOK' /\ DocOK'
    BY <1>2, <1>4 DEF IInv, Typed, SessionsOK, HubOK, DocOK, Recorded
  <1> QED BY <1>6, <1>7 DEF IInv

\* The insert opens a session nobody else works on.
LEMMA InsertStep ==
    ASSUME IInv, NEW s \in Sockets, Insert(s)
    PROVE  IInv'
  <1> DEFINE k == job[s].call
             j == [job[s] EXCEPT !.at = "record"]
  <1>1. k \in Calls /\ Moved(k) /\ call[k].phase = "none"
    BY InsertMoves, OneJob DEF Insert, JobOK
  <1>2. /\ call' \in [Calls -> Sessions] /\ SessionsOK' /\ call'[k].phase = "live"
        /\ \A x \in Calls \ {k} : call'[x] = call[x]
    BY <1>1, OneMoved, OneSession, MovePhases DEF Moved
  <1>3. job' = [job EXCEPT ![s] = j] /\ UNCHANGED <<hub, doc, crashes>>
    BY OneJob DEF Insert
  <1>4. j \in Jobs /\ j.at = "record" /\ j.call = k
    BY OneJob DEF Jobs
  <1> HIDE DEF j
  <1>5. job' \in [Sockets -> Jobs] /\ job'[s] = j /\ \A t \in Sockets \ {s} : job'[t] = job[t]
    BY <1>3, <1>4, SetJob
  <1>6. \A t \in Sockets \ {s} : job[t].at = "insert" => job[t].call # k
    BY OneJob DEF Insert, JobOK
  <1> HIDE DEF k
  <1>7. JobsOK'
    <2> SUFFICES ASSUME NEW t \in Sockets PROVE JobOK(t)'
      BY DEF JobsOK
    <2>1. CASE t = s
      BY <2>1, <1>1, <1>2, <1>4, <1>5 DEF JobOK, Working, Live
    <2>2. CASE t # s
      BY <2>2, <1>1, <1>2, <1>3, <1>4, <1>5, <1>6, OneJob DEF JobOK, Working, Live, Closing, Recorded
    <2> QED BY <2>1, <2>2
  <1>8. Typed'
    BY <1>2, <1>3, <1>5 DEF IInv, Typed
  <1>9. HubOK' /\ DocOK'
    BY <1>1, <1>2, <1>3 DEF IInv, HubOK, DocOK, Recorded
  <1> QED BY <1>2, <1>7, <1>8, <1>9 DEF IInv

\* A write to the history by the goroutine s, which then reads again.
LEMMA WriteStep ==
    ASSUME IInv, NEW s \in Sockets, UNCHANGED <<call, hub, crashes>>,
           job' = [job EXCEPT ![s] = Reading],
           doc' \in [Calls -> [status : {"absent", "calling", "ended", "cancelled"}, roster : SUBSET Users]],
           \A k \in Calls : Recorded(k)' => Recorded(k) \/ Closing(s, k)
    PROVE  IInv'
  <1>1. Reading.at = "reading"
    BY DEF Reading, Closed
  <1>2. Reading \in Jobs
    BY DEF Reading, Closed, Jobs
  <1>3. /\ job' \in [Sockets -> Jobs] /\ job'[s].at = "reading"
        /\ \A t \in Sockets \ {s} : job'[t] = job[t]
    BY <1>1, <1>2, SetJob
  <1>4. JobsOK'
    <2> SUFFICES ASSUME NEW t \in Sockets PROVE JobOK(t)'
      BY DEF JobsOK
    <2>1. CASE t = s
      BY <2>1, <1>3, IdleOK
    <2>2. CASE t # s
      <3>1. job'[t] = job[t] /\ JobOK(t)
        BY <2>2, <1>3, OneJob
      <3>2. \A x \in Sockets, k \in Calls : Closing(x, k)' => Closing(x, k)
        BY <1>3 DEF Closing
      <3>3. job[t].at = "close" => ~Closing(s, job[t].call)
        BY <2>2, <3>1 DEF JobOK
      <3>4. \A x \in Sockets : job'[x].at = "insert" => job'[x] = job[x]
        BY <1>3
      <3>5. job[t].at = "close" => ~Recorded(job[t].call)' /\ job[t].call \in Calls
        BY <3>1, <3>3 DEF JobOK, Working
      <3> QED BY <3>1, <3>2, <3>4, <3>5 DEF JobOK, Working, Live
    <2> QED BY <2>1, <2>2
  <1>5. \A k \in Calls : Closing(s, k) => call[k].phase = "over" /\ hub.call # k
    BY OneJob DEF JobOK, Closing
  <1>6. HubOK' /\ DocOK'
    BY <1>5 DEF IInv, HubOK, DocOK, Recorded
  <1> QED BY <1>3, <1>4, <1>6 DEF IInv, Typed, SessionsOK

\* The three writes of the goroutines.
LEMMA WritesStep ==
    ASSUME IInv, NEW s \in Sockets, Record(s) \/ WriteRoster(s) \/ WriteEnd(s)
    PROVE  IInv'
  <1> DEFINE Docs == [status : {"absent", "calling", "ended", "cancelled"}, roster : SUBSET Users]
             k == job[s].call
  <1>1. k \in Calls /\ job[s].names \in SUBSET Users /\ doc \in [Calls -> Docs]
    BY OneJob DEF Record, WriteRoster, WriteEnd, JobOK, Working, Jobs, IInv, Typed
  <1>2. job' = [job EXCEPT ![s] = Reading] /\ UNCHANGED <<call, hub, crashes>>
    BY DEF Record, WriteRoster, WriteEnd
  <1>3. \E d \in Docs : /\ doc' = [doc EXCEPT ![k] = d]
                        /\ d.status \in {"ended", "cancelled"} => Recorded(k) \/ Closing(s, k)
    <2>0. CASE doc' = doc
      BY <1>1, <2>0 DEF Recorded
    <2>1. CASE doc' # doc /\ Record(s)
      <3> DEFINE d == [status |-> "calling", roster |-> job[s].names]
      <3> QED BY <1>1, <2>1 DEF Record
    <2>2. CASE doc' # doc /\ WriteRoster(s)
      <3> DEFINE d == [doc[k] EXCEPT !.roster = IF doc[k] = NoDoc THEN @ ELSE job[s].names]
      <3>1. doc' = [doc EXCEPT ![k] = d]
        BY <1>1, <2>2 DEF WriteRoster
      <3>2. d \in Docs /\ d.status = doc[k].status
        BY <1>1
      <3> HIDE DEF d
      <3> QED BY <3>1, <3>2 DEF Recorded
    <2>3. CASE doc' # doc /\ WriteEnd(s)
      <3> DEFINE d == [doc[k] EXCEPT !.status = IF doc[k] = NoDoc THEN @ ELSE job[s].goal]
      <3>1. doc' = [doc EXCEPT ![k] = d]
        BY <1>1, <2>3 DEF WriteEnd, Ended
      <3>2. job[s].goal \in {"ended", "cancelled"} /\ Closing(s, k)
        BY <2>3, OneJob DEF WriteEnd, JobOK, Closing
      <3>3. d \in Docs
        BY <1>1, <3>2
      <3> HIDE DEF d
      <3> QED BY <3>1, <3>2, <3>3
    <2> QED BY <2>0, <2>1, <2>2, <2>3
  <1>4. doc' \in [Calls -> Docs] /\ \A x \in Calls : Recorded(x)' => Recorded(x) \/ Closing(s, x)
    BY <1>1, <1>3 DEF Recorded
  <1> QED BY <1>2, <1>4, WriteStep

\* EndCallByUser takes a user out, or the session with the end still to be recorded.
LEMMA EndStep ==
    ASSUME IInv, NEW s \in Sockets, NEW k \in Calls, EndCallByUser(s, k)
    PROVE  IInv'
  <1>1. Live(k) /\ Known(k) /\ Moved(k) /\ UNCHANGED <<hub, doc, crashes>>
    BY EndMoves DEF EndCallByUser
  <1>2. CASE UNCHANGED job
    BY <1>1, <1>2, MovedStep
  <1>3. ASSUME NEW goal \in {"ended", "cancelled"}, call' = [call EXCEPT ![k] = OverSession],
               job' = [job EXCEPT ![s] = [Closed EXCEPT !.at = "close", !.call = k, !.goal = goal]]
        PROVE  IInv'
    <2> DEFINE j == [Closed EXCEPT !.at = "close", !.call = k, !.goal = goal]
    <2>1. j \in Jobs /\ j.at = "close" /\ j.call = k /\ j.goal = goal
      BY DEF Closed, Jobs
    <2>2. job' = [job EXCEPT ![s] = j]
      BY <1>3
    <2> HIDE DEF j
    <2>3. job' \in [Sockets -> Jobs] /\ job'[s] = j /\ \A t \in Sockets \ {s} : job'[t] = job[t]
      BY <2>1, <2>2, SetJob
    <2>4. Calm /\ \A x \in Calls \ {k} : call'[x] = call[x]
      BY <1>1, MovedIsCalm, OneMoved
    <2>5. call[k].phase = "live" /\ call'[k].phase = "over"
      <3>1. OverSession.phase = "over"
        BY DEF OverSession, NoSession
      <3> QED BY <1>1, <1>3, <3>1, OneSession DEF Live
    <2>6. ~Recorded(k) /\ hub.call # k
      <3>1. ~Recorded(k)
        BY <2>5 DEF IInv, DocOK
      <3>2. hub.call # k
        BY <2>5, GroupAssumption DEF IInv, HubOK, HubIdle
      <3> QED BY <3>1, <3>2
    <2>7. JobsOK'
      <3> SUFFICES ASSUME NEW t \in Sockets PROVE JobOK(t)'
        BY DEF JobsOK
      <3>1. \A x \in Sockets \ {s} : job[x].at = "close" => job[x].call # k
        BY <2>5, OneJob DEF JobOK
      <3>2. CASE t = s
        BY <3>1, <3>2, <1>1, <1>3, <2>1, <2>3, <2>5, <2>6 DEF JobOK, Working, Closing, Recorded
      <3>3. CASE t # s
        <4>1. JobOK(t) /\ job'[t] = job[t]
          BY <3>3, <2>3, OneJob
        <4>2. job[t].at = "record" => ~Known(job[t].call)
          BY DEF Known
        <4>3. \A x \in Sockets : job'[x].at = "insert" => job'[x] = job[x]
          BY <2>1, <2>3
        <4> QED BY <3>1, <3>3, <4>1, <4>2, <4>3, <1>1, <2>1, <2>3, <2>4
              DEF JobOK, Calm, Working, Live, Closing, Recorded
      <3> QED BY <3>2, <3>3
    <2>8. HubOK' /\ DocOK' /\ Typed'
      BY <1>1, <2>3, <2>4 DEF IInv, HubOK, DocOK, Typed, Calm, Recorded
    <2> QED BY <2>4, <2>7, <2>8 DEF IInv, Calm
  <1> QED BY <1>2, <1>3, VerdictIsFinal DEF EndCallByUser

\* The cleanup takes the session out and leaves its end to the hub goroutine to record.
LEMMA CloseStep ==
    ASSUME IInv, NEW k \in Calls, NEW joined, Close(k, Verdict(joined)), hub = HubIdle,
           Live(k), Known(k), UNCHANGED <<job, doc, crashes>>
    PROVE  IInv'
  <1>1. Moved(k)
    <2>1. Ends(call[k], OverSession) /\ call' = [call EXCEPT ![k] = OverSession]
      BY DEF Ends, Live, Close
    <2> QED BY <2>1, SetSession DEF Moves
  <1>2. Calm
    BY <1>1, MovedIsCalm
  <1>3. call[k].phase = "live" /\ call'[k].phase = "over"
    <2>1. OverSession.phase = "over"
      BY DEF OverSession, NoSession
    <2> QED BY <2>1, OneSession DEF Live, Close
  <1>4. hub' \in [call : Calls, goal : {"ended", "cancelled"}] /\ hub'.call = k
    BY VerdictIsFinal DEF Close
  <1>5. ~Recorded(k)
    BY <1>3 DEF IInv, DocOK
  <1>6. JobsOK'
    <2> SUFFICES ASSUME NEW t \in Sockets PROVE JobOK(t)'
      BY DEF JobsOK
    <2>1. job[t].at = "record" => ~Known(job[t].call)
      BY DEF Known
    <2>2. job[t].at = "close" => job[t].call # k
      BY <1>3, OneJob DEF JobOK
    <2> QED BY <2>1, <2>2, <1>2, <1>4, OneJob DEF JobOK, Calm, Working, Live, Closing, Recorded
  <1>7. HubOK' /\ DocOK' /\ Typed'
    BY <1>2, <1>3, <1>4, <1>5 DEF IInv, HubOK, DocOK, Typed, Calm, Recorded
  <1> QED BY <1>2, <1>6, <1>7 DEF IInv, Calm

\* One session in the periodic cleanup.
LEMMA CleanupStep ==
    ASSUME IInv, NEW k \in Calls, Expire(k) \/ Cleanup(k)
    PROVE  IInv'
  <1>1. CASE Expire(k)
    BY <1>1, CloseStep DEF Expire
  <1>2. CASE Cleanup(k)
    <2>1. Live(k) /\ Known(k) /\ Moved(k) /\ hub = HubIdle /\ UNCHANGED <<job, doc, crashes>>
      BY <1>2, CleanupMoves DEF Cleanup
    <2>2. CASE hub' = hub
      BY <2>1, <2>2, MovedStep
    <2>3. CASE hub' # hub
      <3>1. Close(k, Verdict({}))
        BY <1>2, <2>3 DEF Cleanup, Drop
      <3> QED BY <2>1, <3>1, CloseStep
    <2> QED BY <2>2, <2>3
  <1> QED BY <1>1, <1>2

\* The hub goroutine records the end it owes.
LEMMA RecordEndStep ==
    ASSUME IInv, RecordEnd
    PROVE  IInv'
  <1> DEFINE k == hub.call
             Docs == [status : {"absent", "calling", "ended", "cancelled"}, roster : SUBSET Users]
  <1>1. k \in Calls /\ hub.goal \in {"ended", "cancelled"} /\ call[k].phase = "over"
    BY DEF IInv, HubOK, RecordEnd
  <1>2. UNCHANGED <<call, job, crashes>> /\ hub' = HubIdle
    BY DEF RecordEnd
  <1>3. doc' \in [Calls -> Docs] /\ \A x \in Calls : Recorded(x)' => Recorded(x) \/ x = k
    <2>1. doc \in [Calls -> Docs]
      BY DEF IInv, Typed
    <2> DEFINE d == [doc[k] EXCEPT !.status = IF doc[k] = NoDoc THEN @ ELSE hub.goal]
    <2>2. d \in Docs
      BY <1>1, <2>1
    <2>3. doc' = doc \/ doc' = [doc EXCEPT ![k] = d]
      BY <1>1, <2>1 DEF RecordEnd, Ended
    <2> HIDE DEF d
    <2> QED BY <2>1, <2>2, <2>3 DEF Recorded
  <1>4. JobsOK'
    <2> SUFFICES ASSUME NEW t \in Sockets PROVE JobOK(t)'
      BY DEF JobsOK
    <2>1. JobOK(t)
      BY OneJob
    <2>2. \A x \in Calls : hub'.call # x
      BY <1>2, GroupAssumption DEF HubIdle
    <2> QED BY <1>2, <1>3, <2>1, <2>2 DEF JobOK, Working, Live, Closing
  <1> QED BY <1>1, <1>2, <1>3, <1>4 DEF IInv, Typed, SessionsOK, HubOK, DocOK

\* After a restart nothing runs: what was live is over, and nothing is owed.
LEMMA CrashStep ==
    ASSUME IInv, Crash
    PROVE  IInv'
  <1>1. OverSession \in Sessions /\ Sound(OverSession) /\ OverSession.phase = "over"
    BY DEF OverSession, NoSession, Sessions, Sound
  <1>2. call' \in [Calls -> Sessions] /\ SessionsOK'
    BY <1>1, OneSession DEF IInv, Typed, SessionsOK, Crash
  <1>3. \A k \in Calls : call[k].phase = "over" => call'[k].phase = "over"
    BY <1>1 DEF Crash
  <1>4. Closed \in Jobs /\ Closed.at = "closed"
    BY DEF Closed, Jobs
  <1>5. job' \in [Sockets -> Jobs] /\ JobsOK'
    <2>1. \A t \in Sockets : job'[t] = Closed
      BY DEF Crash
    <2> QED BY <1>4, <2>1, IdleOK DEF Crash, JobsOK
  <1>6. crashes' \in 0..MaxCrashes /\ doc' = doc /\ hub' = HubIdle
    BY GroupAssumption DEF IInv, Typed, Crash
  <1>7. Typed' /\ HubOK' /\ DocOK'
    BY <1>2, <1>3, <1>5, <1>6 DEF IInv, Typed, HubOK, DocOK, Recorded
  <1> QED BY <1>2, <1>5, <1>7 DEF IInv

-----------------------------------------------------------------------------
(* The invariant *)

\* IInv holds before anybody connects.
LEMMA InitOK ==
    ASSUME Init
    PROVE  IInv
  <1>1. NoSession \in Sessions /\ Sound(NoSession) /\ NoSession.phase = "none"
    BY DEF NoSession, Sessions, Sound
  <1>2. Closed \in Jobs /\ Closed.at = "closed"
    BY DEF Closed, Jobs
  <1>3. Typed
    BY <1>1, <1>2, GroupAssumption DEF Typed, Init, NoDoc
  <1>4. SessionsOK /\ DocOK /\ HubOK
    BY <1>1 DEF Init, SessionsOK, DocOK, HubOK, Recorded, NoDoc
  <1>5. JobsOK
    BY <1>2 DEF Init, JobsOK, JobOK, Working
  <1> QED BY <1>3, <1>4, <1>5 DEF IInv

\* Every step of a goroutine, the hub or a restart keeps IInv.
LEMMA NextKeeps ==
    ASSUME IInv, [Next]_vars
    PROVE  IInv'
  <1>1. ASSUME NEW s \in Sockets, Connect(s) \/ Lose(s) \/ Proceed(s)
        PROVE  IInv'
    BY <1>1, SocketStep, InsertStep, WritesStep, MarkStep DEF Proceed
  <1>2. ASSUME NEW s \in Sockets, NEW k \in Calls, Handle(s, k)
        PROVE  IInv'
    <2>1. ASSUME NEW invited \in SUBSET Users, Create(s, k, invited)
          PROVE  IInv'
      BY <2>1, CreateStep
    <2>2. CASE RequestJoin(s, k)
      BY <2>2, RequestMoves, MovedStep DEF RequestJoin
    <2>3. ASSUME NEW u \in Users, ApproveJoin(s, k, u)
          PROVE  IInv'
      BY <2>3, ApproveStep
    <2>4. ASSUME NEW u \in Users, RejectJoin(s, k, u)
          PROVE  IInv'
      BY <2>4, RejectMoves, MovedStep DEF RejectJoin
    <2>5. ASSUME NEW u \in Users, ToggleMute(s, k, u)
          PROVE  IInv'
      BY <2>5, MuteMoves, MovedStep DEF ToggleMute
    <2>6. CASE Signal(s, k)
      BY <2>6, SignalMoves, MovedStep DEF Signal
    <2>7. ASSUME NEW switch \in {"mic", "video"}, ToggleOwn(s, k, switch)
          PROVE  IInv'
      BY <2>7, OwnMoves, MovedStep DEF ToggleOwn
    <2>8. CASE EndCallByUser(s, k)
      BY <2>8, EndStep
    <2> QED BY <1>2, <2>1, <2>2, <2>3, <2>4, <2>5, <2>6, <2>7, <2>8 DEF Handle
  <1>3. CASE UNCHANGED vars
    <2>1. Calm
      BY <1>3, StillIsCalm DEF vars
    <2> QED BY <1>3, <2>1, CalmStep, OneJob DEF vars, IInv, Typed
  <1>4. ASSUME NEW k \in Calls, NEW u \in Users, Tick(k, u)
        PROVE  IInv'
    <2>1. Calm /\ UNCHANGED <<call, job, hub, doc, crashes>>
      BY <1>4, StillIsCalm DEF Tick
    <2> QED BY <2>1, CalmStep, OneJob DEF IInv, Typed
  <1> QED BY <1>1, <1>2, <1>3, <1>4, CleanupStep, RecordEndStep, CrashStep DEF Next

\* IInv holds of every reachable state; the theorems below follow from it.
THEOREM Invariant == Spec => []IInv
  <1>1. Init => IInv
    BY InitOK
  <1>2. IInv /\ [Next]_vars => IInv'
    BY NextKeeps
  <1> QED BY <1>1, <1>2, PTL DEF Spec

-----------------------------------------------------------------------------
(* What follows from the invariant *)

\* The timers keep their range: a step sets some back to 0, or lets one grow.
LEMMA AgesStayTyped ==
    ASSUME age \in [Calls -> [Users -> 0..Patience]], [Next]_vars
    PROVE  age' \in [Calls -> [Users -> 0..Patience]]
  <1>0. Patience \in Nat \ {0}
    BY GroupAssumption
  <1>1. Timers => age' \in [Calls -> [Users -> 0..Patience]]
    BY <1>0 DEF Timers
  <1>2. ASSUME NEW k \in Calls, NEW u \in Users, Restart(k, u)
        PROVE  age' \in [Calls -> [Users -> 0..Patience]]
    BY <1>0, <1>2 DEF Restart
  <1>3. ASSUME NEW k \in Calls, NEW u \in Users, Tick(k, u)
        PROVE  age' \in [Calls -> [Users -> 0..Patience]]
    BY <1>0, <1>3 DEF Tick
  <1>4. \A s \in Sockets : Owner[s] \in Users
    BY GroupAssumption
  <1>5. ASSUME NEW s \in Sockets, Connect(s) \/ Lose(s) \/ Proceed(s)
        PROVE  \/ age' = age \/ Timers
               \/ \E k \in Calls : Restart(k, Owner[s])
    BY <1>5 DEF Proceed, Connect, Lose, Insert, Record, WriteRoster, WriteEnd, ListCalls,
                MarkDisconnected, Unregister
  <1>6. ASSUME NEW s \in Sockets, NEW k \in Calls, Handle(s, k)
        PROVE  age' = age \/ Timers \/ Restart(k, Owner[s])
    <2>1. ASSUME NEW u \in Users, ApproveJoin(s, k, u) \/ RejectJoin(s, k, u) \/ ToggleMute(s, k, u)
          PROVE  age' = age \/ Timers
      BY <2>1 DEF ApproveJoin, RejectJoin, ToggleMute
    <2>2. RequestJoin(s, k) => Timers \/ Restart(k, Owner[s])
      BY DEF RequestJoin
    <2>3. Signal(s, k) \/ (\E switch \in {"mic", "video"} : ToggleOwn(s, k, switch))
            \/ (\E invited \in SUBSET Users : Create(s, k, invited)) => age' = age
      BY DEF Signal, ToggleOwn, Create
    <2>4. EndCallByUser(s, k) => Timers
      BY DEF EndCallByUser
    <2> QED BY <1>6, <2>1, <2>2, <2>3, <2>4 DEF Handle
  <1>7. ASSUME NEW k \in Calls, Expire(k) \/ Cleanup(k)
        PROVE  Timers
    BY <1>7 DEF Expire, Cleanup
  <1>8. RecordEnd \/ UNCHANGED vars => age' = age
    BY DEF RecordEnd, vars
  <1>9. Crash => Timers
    BY DEF Crash
  <1> QED BY <1>1, <1>2, <1>3, <1>4, <1>5, <1>6, <1>7, <1>8, <1>9 DEF Next

\* TypeOK holds of every state: the types, and a live session always has a creator.
THEOREM TypeCorrect == Spec => []TypeOK
  <1> DEFINE AgesOK == age \in [Calls -> [Users -> 0..Patience]]
  <1>1. ASSUME IInv, AgesOK
        PROVE  TypeOK
    <2>1. \A k \in Calls : Live(k) <=> call[k].creator # NoUser
      <3> SUFFICES ASSUME NEW k \in Calls PROVE Live(k) <=> call[k].creator # NoUser
        OBVIOUS
      <3>1. NoSession.creator = NoUser /\ OverSession.creator = NoUser
        BY DEF NoSession, OverSession
      <3>2. Live(k) => call[k].creator \in Users
        BY <1>1, Bounds
      <3>3. call[k].phase \in {"none", "live", "over"}
        BY <1>1, OneSession DEF Sessions
      <3>4. ~Live(k) => call[k] = NoSession \/ call[k] = OverSession
        BY <1>1, <3>3, OneSession DEF Sound, Live
      <3> QED BY <3>1, <3>2, <3>4, GroupAssumption
    <2>2. hub \in [call : Calls \cup {NoCall}, goal : {"none", "ended", "cancelled"}]
      BY <1>1 DEF IInv, HubOK, HubIdle
    <2>3. \A s \in Sockets : job[s].at \in {"insert", "record", "roster", "close"} => job[s].call \in Calls
      BY <1>1, OneJob DEF JobOK, Working
    <2> QED BY <1>1, <2>1, <2>2, <2>3 DEF TypeOK, IInv, Typed
  <1>2. Init => AgesOK
    BY GroupAssumption DEF Init
  <1>3. AgesOK /\ [Next]_vars => AgesOK'
    BY AgesStayTyped
  <1> HIDE DEF AgesOK
  <1> QED BY <1>1, <1>2, <1>3, Invariant, PTL DEF Spec

\* The sets of a session with no people in it.
LEMMA EmptySessions ==
    ASSUME IInv, NEW k \in Calls, ~Live(k)
    PROVE  /\ call[k].participants = {} /\ call[k].joined = {} /\ call[k].active = {}
           /\ call[k].pending = {} /\ call[k].dropped = {} /\ call[k].muted = {} /\ call[k].dark = {}
  <1>1. call[k].phase \in {"none", "live", "over"}
    BY OneSession DEF Sessions
  <1>2. call[k] = NoSession \/ call[k] = OverSession
    BY <1>1, OneSession DEF Sound, Live
  <1>3. CASE call[k] = NoSession
    BY <1>3 DEF NoSession
  <1>4. CASE call[k] = OverSession
    BY <1>4 DEF OverSession, NoSession
  <1> QED BY <1>2, <1>3, <1>4

\* RostersAgree: the five sets of a session agree, whoever joins, drops and leaves.
THEOREM RostersAlwaysAgree == Spec => []RostersAgree
  <1>1. ASSUME IInv, NEW k \in Calls
        PROVE  /\ call[k].active \cup call[k].dropped \subseteq call[k].joined
               /\ call[k].joined \cup call[k].muted \cup call[k].dark \subseteq call[k].participants
               /\ call[k].pending \cap call[k].participants = {}
               /\ Live(k) => call[k].creator \in call[k].participants
    <2>1. CASE Live(k)
      BY <1>1, <2>1, OneSession DEF Sound, Live
    <2>2. CASE ~Live(k)
      BY <1>1, <2>2, EmptySessions
    <2> QED BY <2>1, <2>2
  <1>2. IInv => RostersAgree
    BY <1>1 DEF RostersAgree
  <1> QED BY <1>2, Invariant, PTL

\* NeverEmpty: a session has somebody in it, and the 60 s limit bears on one person only.
THEOREM SessionsNeverEmpty == Spec => []NeverEmpty
  <1>1. IInv => NeverEmpty
    BY OneSession DEF NeverEmpty, LiveCalls, Sound, Live
  <1> QED BY <1>1, Invariant, PTL

\* EndedOnce: one goroutine at most records the end of a call, once the call is over.
THEOREM EndsAreRecordedOnce == Spec => []EndedOnce
  <1>1. ASSUME IInv, NEW k \in Calls
        PROVE  /\ \A s, t \in Sockets : Closing(s, k) /\ Closing(t, k) => s = t
               /\ hub.call = k => \A s \in Sockets : ~Closing(s, k)
               /\ hub.call = k \/ (\E s \in Sockets : Closing(s, k)) => ~Recorded(k) /\ ~Live(k)
               /\ Recorded(k) => call[k].phase = "over"
    <2>1. \A s, t \in Sockets : Closing(s, k) /\ Closing(t, k) => s = t
      BY <1>1, OneJob DEF JobOK, Closing
    <2>2. \A s \in Sockets : Closing(s, k) => hub.call # k /\ ~Recorded(k) /\ call[k].phase = "over"
      BY <1>1, OneJob DEF JobOK, Closing
    <2>3. hub.call = k => ~Recorded(k) /\ call[k].phase = "over"
      BY <1>1, GroupAssumption DEF IInv, HubOK, HubIdle
    <2>4. Recorded(k) => call[k].phase = "over"
      BY <1>1 DEF IInv, DocOK
    <2> QED BY <2>1, <2>2, <2>3, <2>4 DEF Live
  <1>2. IInv => EndedOnce
    BY <1>1 DEF EndedOnce
  <1> QED BY <1>2, Invariant, PTL

\* Every step leaves the sessions alone, moves one of them, or is a restart.
LEMMA StepIsMove ==
    ASSUME IInv, [Next]_vars
    PROVE  call' = call \/ (\E k \in Calls : Moved(k)) \/ Crash
  <1>1. ASSUME NEW s \in Sockets, Connect(s) \/ Lose(s) \/ Proceed(s)
        PROVE  call' = call \/ (\E k \in Calls : Moved(k))
    <2>1. CASE Insert(s)
      BY <2>1, InsertMoves
    <2>2. ASSUME NEW k \in Calls, MarkDisconnected(s, k)
          PROVE  call' = call \/ Moved(k)
      BY <2>2, MarkMoves
    <2>3. CASE \/ Connect(s) \/ Lose(s) \/ Record(s) \/ WriteRoster(s) \/ WriteEnd(s)
               \/ ListCalls(s) \/ Unregister(s)
      BY <2>3 DEF Connect, Lose, Record, WriteRoster, WriteEnd, ListCalls, Unregister
    <2> QED BY <1>1, <2>1, <2>2, <2>3 DEF Proceed
  <1>2. ASSUME NEW s \in Sockets, NEW k \in Calls, Handle(s, k)
        PROVE  call' = call \/ Moved(k)
    <2>1. ASSUME NEW invited \in SUBSET Users, Create(s, k, invited)
          PROVE  call' = call
      BY <2>1 DEF Create
    <2> QED BY <1>2, <2>1, RequestMoves, ApproveMoves, RejectMoves, MuteMoves, SignalMoves,
               OwnMoves, EndMoves DEF Handle
  <1>3. ASSUME NEW k \in Calls, Expire(k) \/ Cleanup(k) \/ \E u \in Users : Tick(k, u)
        PROVE  call' = call \/ Moved(k)
    BY <1>3, ExpireMoves, CleanupMoves DEF Tick
  <1>4. RecordEnd \/ UNCHANGED vars => call' = call
    BY DEF RecordEnd, vars
  <1> QED BY <1>1, <1>2, <1>3, <1>4 DEF Next

\* HeirIsPresent: the creator's role passes only from somebody who is removed while
\* disconnected to somebody joined and connected.
THEOREM HeirIsAlwaysPresent == Spec => HeirIsPresent
  <1>1. ASSUME IInv, [Next]_vars, NEW k \in Calls, Live(k), Live(k)',
               call'[k].creator # call[k].creator
        PROVE  /\ call[k].creator \in call[k].dropped \ call'[k].joined
               /\ call'[k].creator \in call'[k].joined \ call[k].dropped
    <2>1. ~Crash
      <3>1. OverSession.phase = "over"
        BY DEF OverSession, NoSession
      <3> QED BY <1>1, <3>1 DEF Crash, Live
    <2>2. PICK x \in Calls : Moved(x)
      BY <1>1, <2>1, StepIsMove
    <2>3. x = k
      BY <1>1, <2>2, OneMoved
    <2> DEFINE r == call[k]
               q == call'[k]
    <2>4. r \in Sessions /\ r.phase = "live" /\ q.phase = "live" /\ Moves(r, q)
      BY <1>1, <2>2, <2>3, OneSession DEF Moved, Live
    <2>5. Quits(r, q)
      <3>1. ~Opens(r, q)
        BY <2>4 DEF Opens
      <3>2. ~Walks(r, q) /\ ~LetsIn(r, q)
        BY <1>1, <2>4 DEF Walks, LetsIn, Joining, Sessions
      <3>3. ~Tweaks(r, q)
        BY <1>1, <2>4 DEF Tweaks, Sessions
      <3>4. ~Ends(r, q)
        BY <2>4 DEF Ends, OverSession, NoSession
      <3> QED BY <2>4, <3>1, <3>2, <3>3, <3>4 DEF Moves
    <2>6. PICK gone \in SUBSET r.joined, heir \in Users :
             /\ heir # r.creator => /\ r.creator \in gone \cap r.dropped
                                    /\ heir \in (r.joined \ gone) \ r.dropped
             /\ q.creator = heir /\ q.joined = r.joined \ gone
      BY <2>4, <2>5 DEF Quits, Sessions
    <2> QED BY <1>1, <2>6
  <1>2. IInv /\ [Next]_vars =>
           [\A k \in Calls : Live(k) /\ Live(k)' /\ call'[k].creator # call[k].creator =>
              /\ call[k].creator \in call[k].dropped \ call'[k].joined
              /\ call'[k].creator \in call'[k].joined \ call[k].dropped]_vars
    BY <1>1
  <1> QED BY <1>2, Invariant, PTL DEF Spec, HeirIsPresent

-----------------------------------------------------------------------------
(* The sessions implement the abstract rooms *)

\* A step of one session is a step of its room.
LEMMA RoomMove ==
    ASSUME IInv, NEW k \in Calls, Moved(k)
    PROVE  Rooms!Next \/ RoomOf' = RoomOf
  <1> DEFINE r == call[k]
             q == call'[k]
  <1>0. Sound(r) /\ r \in Sessions /\ Moves(r, q) /\ RoomOf[k] = Room(r)
    BY OneSession DEF Moved, RoomOf
  <1>1. RoomOf' = [RoomOf EXCEPT ![k] = Room(q)]
    <2>1. \A x \in Calls \ {k} : call'[x] = call[x]
      BY OneMoved
    <2>2. RoomOf' = [x \in Calls |-> Room(call'[x])]
      BY DEF RoomOf, Room
    <2>3. \A x \in Calls : Room(call'[x]) = [RoomOf EXCEPT ![k] = Room(q)][x]
      BY <2>1 DEF RoomOf
    <2> QED BY <2>2, <2>3 DEF RoomOf
  <1>2. /\ RoomOf[k].phase = r.phase /\ RoomOf[k].host = r.creator
        /\ RoomOf[k].guests = r.participants /\ RoomOf[k].inside = r.joined
        /\ DOMAIN RoomOf = Calls
    BY <1>0 DEF Room, RoomOf
  <1>3. RoomOf[k] = [phase |-> r.phase, host |-> r.creator, guests |-> r.participants,
                     inside |-> r.joined]
    BY <1>0 DEF Room
  <1> HIDE DEF r, q
  <1>4. CASE Opens(r, q)
    <2>1. PICK u \in Users, names \in SUBSET Users :
             u \in names /\ q = [NoSession EXCEPT !.phase = "live", !.creator = u,
                !.participants = names, !.joined = {u}, !.expires = TRUE]
      BY <1>4 DEF Opens
    <2>2. Room(q) = [phase |-> "live", host |-> u, guests |-> names \cup {u}, inside |-> {u}]
      BY <2>1 DEF Room, NoSession
    <2>3. Rooms!Open(k, u, names)
      BY <1>1, <1>2, <1>4, <2>2 DEF Rooms!Open, Opens
    <2> QED BY <2>3 DEF Rooms!Next
  <1>5. CASE Walks(r, q)
    <2>1. PICK u \in r.participants : q = Joining(r, u)
      BY <1>5 DEF Walks
    <2>2. Room(q) = [phase |-> r.phase, host |-> r.creator, guests |-> r.participants,
                     inside |-> r.joined \cup {u}]
      BY <1>0, <2>1 DEF Room, Joining, Sessions
    <2>3. Room(q) = [RoomOf[k] EXCEPT !.inside = @ \cup {u}]
      BY <1>3, <2>2
    <2>4. Rooms!Enter(k, u) /\ u \in Users
      BY <1>0, <1>1, <1>2, <1>5, <2>3 DEF Rooms!Enter, Walks, Sessions
    <2> QED BY <2>4 DEF Rooms!Next
  <1>6. CASE LetsIn(r, q)
    <2>1. PICK u \in r.pending :
             q = [Joining(r, u) EXCEPT !.pending = @ \ {u}, !.participants = @ \cup {u}]
      BY <1>6 DEF LetsIn
    <2>2. Room(q) = [phase |-> r.phase, host |-> r.creator, guests |-> r.participants \cup {u},
                     inside |-> r.joined \cup {u}]
      BY <1>0, <2>1 DEF Room, Joining, Sessions
    <2>3. u \notin r.participants /\ u \in Users /\ r.phase = "live"
      BY <1>0, <1>6 DEF Sound, LetsIn, Sessions
    <2>4. RoomOf' = [RoomOf EXCEPT ![k].guests = @ \cup {u}, ![k].inside = @ \cup {u}]
      BY <1>1, <1>2, <1>3, <2>2
    <2>5. Rooms!LetIn(k, u)
      BY <1>2, <2>3, <2>4 DEF Rooms!LetIn
    <2> QED BY <2>3, <2>5 DEF Rooms!Next
  <1>7. CASE Tweaks(r, q)
    <2>1. Room(q) = Room(r)
      BY <1>0, <1>7 DEF Tweaks, Room, Sessions
    <2> QED BY <1>0, <1>1, <1>2, <2>1 DEF RoomOf
  <1>8. CASE Quits(r, q)
    <2>1. PICK gone \in SUBSET r.joined, heir \in Users :
             /\ gone # {} /\ r.joined \ gone # {}
             /\ heir # r.creator => r.creator \in gone /\ heir \in r.joined \ gone
             /\ q.creator = heir /\ q.joined = r.joined \ gone
             /\ q.phase = r.phase /\ q.participants = r.participants
      BY <1>0, <1>8 DEF Quits, Sessions
    <2>2. Room(q) = [phase |-> r.phase, host |-> heir, guests |-> r.participants,
                     inside |-> r.joined \ gone]
      BY <2>1 DEF Room
    <2>3. RoomOf' = [RoomOf EXCEPT ![k].inside = r.joined \ gone, ![k].host = heir]
      BY <1>1, <1>2, <1>3, <2>2
    <2>4. gone \in SUBSET Users /\ r.phase = "live"
      BY <1>0, <1>8 DEF Quits, Sessions
    <2>5. Rooms!Leave(k, gone, heir)
      BY <1>2, <2>1, <2>3, <2>4 DEF Rooms!Leave
    <2> QED BY <2>4, <2>5 DEF Rooms!Next
  <1>9. CASE Ends(r, q)
    <2>1. Room(q) = Rooms!Closed
      BY <1>9 DEF Ends, Room, OverSession, NoSession, Rooms!Closed, Rooms!Unused
    <2>2. Rooms!Close(k)
      BY <1>1, <1>2, <1>9, <2>1 DEF Rooms!Close, Ends
    <2> QED BY <2>2 DEF Rooms!Next
  <1> QED BY <1>0, <1>4, <1>5, <1>6, <1>7, <1>8, <1>9 DEF Moves

\* A restart is the process forgetting its rooms.
LEMMA RoomCrash ==
    ASSUME IInv, Crash
    PROVE  Rooms!Forget
  <1>1. Room(OverSession) = Rooms!Closed
    BY DEF Room, OverSession, NoSession, Rooms!Closed, Rooms!Unused
  <1>2. \A k \in Calls : /\ RoomOf[k] = Room(call[k]) /\ RoomOf[k].phase = call[k].phase
                         /\ call'[k] = IF Live(k) THEN OverSession ELSE call[k]
    BY DEF RoomOf, Room, Crash
  <1>3. RoomOf' = [k \in Calls |-> Room(call'[k])]
    BY DEF RoomOf, Room
  <1>4. \A k \in Calls :
           Room(call'[k]) = IF RoomOf[k].phase = "live" THEN Rooms!Closed ELSE RoomOf[k]
    BY <1>1, <1>2 DEF Live
  <1> QED BY <1>3, <1>4 DEF Rooms!Forget

\* RoomSpec: the sessions of the hub implement the abstract rooms of CallRoom.
THEOREM ImplementsRooms == Spec => RoomSpec
  <1>1. Init => Rooms!Init
    <2>1. Room(NoSession) = Rooms!Unused
      BY DEF Room, NoSession, Rooms!Unused
    <2> QED BY <2>1 DEF Init, Rooms!Init, RoomOf
  <1>2. IInv /\ [Next]_vars => [Rooms!Next]_RoomOf
    <2>1. call' = call => RoomOf' = RoomOf
      BY DEF RoomOf, Room
    <2> QED BY <2>1, StepIsMove, RoomMove, RoomCrash DEF Rooms!Next
  <1> QED BY <1>1, <1>2, Invariant, PTL DEF Spec, RoomSpec, Rooms!Spec
=============================================================================
