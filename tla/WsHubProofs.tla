---------------------------- MODULE WsHubProofs ----------------------------
(***************************************************************************)
(* Proofs about WsHub for every set of users, clients and handlers and     *)
(* every capacity.  A delivery works on a snapshot of the clients, so the  *)
(* argument is about what a snapshot may still hold: a client whose        *)
(* channel is open is registered, or is the one the hub goroutine is       *)
(* about to close, and in both cases no new map of its user has been made  *)
(* since the snapshot was taken.                                           *)
(***************************************************************************)
EXTENDS WsHub, TLAPS

\* What the hub goroutine has in hand at each of its steps.
HubShape ==
    /\ hub.at = "idle" => hub = HubIdle
    /\ hub.at \in {"online", "check"} => hub.client \in Clients
    /\ hub.at \notin {"idle", "callback"} => task[Hub] = NoTask
    /\ task[Hub].kind = "room" => hub.at = "idle"
    /\ \A a \in Senders : task[a].kind # "room"
    /\ hub.at = "online" => hub.client \in clients \/ send[hub.client].closed
    /\ hub.at = "check" => send[hub.client].closed
    /\ hub.at \in {"notify", "callback"} => hub.client \notin clients

\* Whoever the hub or a delivery holds has registered once, and before that his
\* channel is open.
Known ==
    /\ \A c \in Clients : sock[c] = "new" => ~send[c].closed
    /\ \A c \in clients \cup room : sock[c] # "new"
    /\ \A a \in Actors : \A c \in task[a].todo \cup task[a].stuck : sock[c] # "new"
    /\ hub.client \in Clients => sock[hub.client] # "new"

\* The map a snapshot was copied from is the map of its open clients.
Fresh ==
    \A a \in Actors : task[a].kind = "user" =>
        \A c \in task[a].todo \cup task[a].stuck :
            Owner[c] = task[a].user /\ (~send[c].closed => task[a].era = era[Owner[c]])

\* A user with a client is online, or is about to be marked so.
PresenceKept ==
    \A u \in Users : Connected(u) # {} =>
        presence[u] = "online" \/ (hub.at = "online" /\ Owner[hub.client] = u)

IInv == TypeOK /\ HubShape /\ Known /\ Fresh /\ OpenWhileRegistered /\ PresenceKept

Tasks == [kind : {"none", "user", "all", "room"}, user : Users \cup {NoUser}, era : Nat,
          todo : SUBSET Clients, stuck : SUBSET Clients]
Hubs == [at : {"idle", "online", "notify", "callback", "check"}, client : Clients \cup {NoClient},
         gone : SUBSET Users, tell : SUBSET Users]
Sends == [queued : 0..Capacity, closed : BOOLEAN]

-----------------------------------------------------------------------------
(* Records.                                                                *)

LEMMA TaskFields ==
    ASSUME NEW k, NEW u, NEW e, NEW t, NEW s
    PROVE  /\ Task(k, u, e, t, s).kind = k /\ Task(k, u, e, t, s).user = u
           /\ Task(k, u, e, t, s).era = e /\ Task(k, u, e, t, s).todo = t
           /\ Task(k, u, e, t, s).stuck = s
  BY DEF Task

LEMMA TaskType ==
    ASSUME NEW k \in {"none", "user", "all", "room"}, NEW u \in Users \cup {NoUser}, NEW e \in Nat,
           NEW t \in SUBSET Clients, NEW s \in SUBSET Clients
    PROVE  Task(k, u, e, t, s) \in Tasks
  BY DEF Task, Tasks

LEMMA HubFields ==
    ASSUME NEW p, NEW c, NEW g, NEW t
    PROVE  /\ HubAt(p, c, g, t).at = p /\ HubAt(p, c, g, t).client = c
           /\ HubAt(p, c, g, t).gone = g /\ HubAt(p, c, g, t).tell = t
  BY DEF HubAt

LEMMA HubType ==
    ASSUME NEW p \in {"idle", "online", "notify", "callback", "check"},
           NEW c \in Clients \cup {NoClient}, NEW g \in SUBSET Users, NEW t \in SUBSET Users
    PROVE  HubAt(p, c, g, t) \in Hubs
  BY DEF HubAt, Hubs

LEMMA IdleFacts ==
    /\ HubIdle \in Hubs /\ HubIdle.at = "idle" /\ HubIdle.client = NoClient /\ NoClient \notin Clients
    /\ NoTask \in Tasks /\ NoTask.kind = "none" /\ NoTask.todo = {} /\ NoTask.stuck = {}
  BY HubType, HubFields, TaskType, TaskFields, HubAssumption DEF HubIdle, NoTask

LEMMA TypeParts ==
    TypeOK <=> /\ sock \in [Clients -> {"new", "reading", "casting", "answering", "leaving", "left"}]
               /\ send \in [Clients -> Sends]
               /\ clients \subseteq Clients /\ room \subseteq Clients
               /\ era \in [Users -> Nat]
               /\ presence \in [Users -> {"online", "offline"}]
               /\ hub \in Hubs
               /\ task \in [Actors -> Tasks]
               /\ fault \in {"none", "exit", "locked"}
  BY DEF TypeOK, Sends, Hubs, Tasks

LEMMA TypeFacts ==
    ASSUME TypeOK
    PROVE  /\ \A c \in Clients : Owner[c] \in Users
           /\ \A c \in Clients : send[c] \in Sends
           /\ \A c \in Clients : send[c].queued \in 0..Capacity /\ send[c].closed \in BOOLEAN
           /\ \A a \in Actors : task[a] \in Tasks
           /\ \A a \in Actors : /\ task[a].todo \subseteq Clients /\ task[a].stuck \subseteq Clients
                                /\ task[a].era \in Nat /\ task[a].user \in Users \cup {NoUser}
                                /\ task[a].kind \in {"none", "user", "all", "room"}
           /\ hub.client \in Clients \cup {NoClient} /\ hub.gone \subseteq Users /\ hub.tell \subseteq Users
           /\ hub.at \in {"idle", "online", "notify", "callback", "check"}
           /\ Hub \in Actors /\ \A a \in Senders : a \in Actors /\ a # Hub
           /\ Capacity \in Nat /\ Capacity > 0
  BY HubAssumption DEF TypeOK, Sends, Tasks, Actors

LEMMA SendTypes ==
    ASSUME TypeOK, NEW c \in Clients
    PROVE  /\ send[c].queued < Capacity => [send EXCEPT ![c].queued = @ + 1] \in [Clients -> Sends]
           /\ send[c].queued > 0 => [send EXCEPT ![c].queued = @ - 1] \in [Clients -> Sends]
           /\ [send EXCEPT ![c].closed = TRUE] \in [Clients -> Sends]
  <1>1. send \in [Clients -> Sends] /\ send[c] \in Sends
    BY TypeParts
  <1>2. send[c].queued < Capacity => [send[c] EXCEPT !.queued = @ + 1] \in Sends
    BY <1>1, TypeFacts DEF Sends
  <1>3. send[c].queued > 0 => [send[c] EXCEPT !.queued = @ - 1] \in Sends
    BY <1>1, TypeFacts DEF Sends
  <1>4. [send[c] EXCEPT !.closed = TRUE] \in Sends
    BY <1>1, TypeFacts DEF Sends
  <1> QED BY <1>1, <1>2, <1>3, <1>4

-----------------------------------------------------------------------------
(* The pumps.                                                              *)

\* Steps that move a ReadPump or the room, and leave the hub and the deliveries.
LEMMA MovesSock ==
    ASSUME IInv,
           sock' \in [Clients -> {"new", "reading", "casting", "answering", "leaving", "left"}],
           \A c \in Clients : sock[c] # "new" => sock'[c] # "new",
           \A c \in Clients : sock'[c] # "new" => sock[c] # "new",
           room' \subseteq Clients, \A c \in room' : sock[c] # "new",
           fault' \in {"none", "exit", "locked"},
           send' = send, clients' = clients, era' = era, presence' = presence, hub' = hub, task' = task
    PROVE  IInv'
  <1> USE DEF IInv
  <1>1. TypeOK'
    BY TypeParts DEF TypeOK, Sends, Hubs, Tasks
  <1>2. HubShape' /\ Fresh' /\ PresenceKept'
    BY DEF HubShape, Fresh, PresenceKept, Connected
  <1>3. Known'
    BY TypeFacts DEF Known, TypeOK
  <1>4. OpenWhileRegistered'
    BY DEF OpenWhileRegistered
  <1> QED BY <1>1, <1>2, <1>3, <1>4

\* Steps that put a frame into an open buffer or take one out.
LEMMA MovesQueue ==
    ASSUME IInv, send' \in [Clients -> Sends], \A c \in Clients : send'[c].closed = send[c].closed,
           sock' \in [Clients -> {"new", "reading", "casting", "answering", "leaving", "left"}],
           \A c \in Clients : sock[c] # "new" <=> sock'[c] # "new",
           clients' = clients, room' = room, era' = era, presence' = presence, hub' = hub, task' = task,
           fault' = fault
    PROVE  IInv'
  <1> USE DEF IInv
  <1>1. TypeOK'
    BY TypeParts DEF TypeOK, Sends, Hubs, Tasks
  <1>2. HubShape'
    BY TypeFacts DEF HubShape
  <1>3. Fresh'
    BY TypeFacts DEF Fresh
  <1>4. Known'
    BY TypeFacts DEF Known, TypeOK
  <1>5. OpenWhileRegistered' /\ PresenceKept'
    BY DEF OpenWhileRegistered, PresenceKept, Connected
  <1> QED BY <1>1, <1>2, <1>3, <1>4, <1>5

LEMMA PumpsKeep ==
    ASSUME IInv, NEW c \in Clients, Pumps(c)
    PROVE  IInv'
  <1> USE TypeFacts, SendTypes DEF IInv
  <1>1. CASE JoinChat(c)
    <2>1. /\ send' = send /\ clients' = clients /\ era' = era /\ presence' = presence /\ hub' = hub
          /\ task' = task /\ sock' = sock /\ fault' = fault /\ room' = room \cup {c} /\ sock[c] = "reading"
      BY <1>1 DEF JoinChat
    <2> QED BY <2>1, MovesSock DEF Known, TypeOK
  <1>2. CASE Read(c) \/ Lose(c)
    <2>1. /\ send' = send /\ clients' = clients /\ era' = era /\ presence' = presence /\ hub' = hub
          /\ task' = task /\ room' = room /\ fault' = fault /\ sock[c] = "reading"
          /\ \E s \in {"casting", "answering", "leaving"} : sock' = [sock EXCEPT ![c] = s]
      BY <1>2 DEF Read, Lose
    <2> QED BY <2>1, MovesSock DEF Known, TypeOK
  <1>3. CASE Answer(c)
    <2>1. /\ clients' = clients /\ era' = era /\ presence' = presence /\ hub' = hub
          /\ task' = task /\ room' = room /\ sock[c] = "answering"
      BY <1>3 DEF Answer
    <2>2. CASE /\ ~send[c].closed /\ send[c].queued < Capacity
               /\ send' = [send EXCEPT ![c].queued = @ + 1]
               /\ sock' = [sock EXCEPT ![c] = "reading"] /\ fault' = fault
      <3>1. \A x \in Clients : send'[x].closed = send[x].closed
        BY <2>2 DEF TypeOK
      <3>2. send' \in [Clients -> Sends]
        BY <2>2
      <3> QED BY <2>1, <2>2, <3>1, <3>2, MovesQueue DEF TypeOK
    <2>3. CASE /\ send' = send /\ \/ sock' = [sock EXCEPT ![c] = "leaving"] /\ fault' = fault
                                  \/ fault' = "exit" /\ sock' = sock
      BY <2>1, <2>3, MovesSock DEF Known, TypeOK
    <2> QED BY <1>3, <2>2, <2>3 DEF Answer
  <1>4. CASE Write(c)
    <2>1. /\ clients' = clients /\ era' = era /\ presence' = presence /\ hub' = hub
          /\ task' = task /\ room' = room /\ sock' = sock /\ fault' = fault
          /\ send[c].queued > 0 /\ send' = [send EXCEPT ![c].queued = @ - 1]
      BY <1>4 DEF Write
    <2>2. \A x \in Clients : send'[x].closed = send[x].closed
      BY <2>1 DEF TypeOK
    <2>3. send' \in [Clients -> Sends]
      BY <2>1
    <2> QED BY <2>1, <2>2, <2>3, MovesQueue DEF TypeOK
  <1> QED BY <1>1, <1>2, <1>3, <1>4 DEF Pumps

-----------------------------------------------------------------------------
(* Deliveries.                                                             *)

\* A delivery starts, loses a client of its snapshot or ends.
LEMMA MovesTask ==
    ASSUME IInv, NEW a \in Actors, NEW t \in Tasks, task' = [task EXCEPT ![a] = t],
           \A c \in t.todo \cup t.stuck : c \in clients \/ c \in task[a].todo \cup task[a].stuck,
           t.kind = "user" =>
               \/ t.user = task[a].user /\ t.era = task[a].era /\ task[a].kind = "user"
                  /\ t.todo \cup t.stuck \subseteq task[a].todo \cup task[a].stuck
               \/ \A c \in t.todo \cup t.stuck : Owner[c] = t.user /\ t.era = era[t.user],
           send' \in [Clients -> Sends], \A c \in Clients : send'[c].closed = send[c].closed,
           sock' = sock, clients' = clients, era' = era, room' = room, presence' = presence,
           hub' \in Hubs, hub'.at = hub.at, hub'.client = hub.client,
           fault' \in {"none", "exit", "locked"}, HubShape'
    PROVE  IInv'
  <1> USE TypeFacts DEF IInv
  <1>1. \A b \in Actors \ {a} : task'[b] = task[b]
    BY TypeParts
  <1>2. task'[a] = t /\ task' \in [Actors -> Tasks]
    BY TypeParts
  <1>3. TypeOK'
    BY <1>2, TypeParts DEF TypeOK, Sends, Hubs, Tasks
  <1>4. Known'
    <2>1. \A c \in t.todo \cup t.stuck : sock[c] # "new"
      BY DEF Known
    <2> QED BY <1>1, <1>2, <2>1 DEF Known
  <1>5. Fresh'
    <2>1. ASSUME NEW c \in t.todo \cup t.stuck, t.kind = "user"
          PROVE  Owner[c] = t.user /\ (~send'[c].closed => t.era = era[Owner[c]])
      <3>1. c \in Clients
        BY DEF Tasks
      <3> QED BY <2>1, <3>1 DEF Fresh
    <2>2. ASSUME NEW b \in Actors \ {a}, task[b].kind = "user", NEW c \in task[b].todo \cup task[b].stuck
          PROVE  Owner[c] = task[b].user /\ (~send'[c].closed => task[b].era = era[Owner[c]])
      BY <2>2 DEF Fresh
    <2> QED BY <1>1, <1>2, <2>1, <2>2 DEF Fresh
  <1>6. OpenWhileRegistered' /\ PresenceKept'
    BY DEF OpenWhileRegistered, PresenceKept, Connected
  <1> QED BY <1>3, <1>4, <1>5, <1>6

LEMMA SenderShape ==
    ASSUME IInv, NEW a \in Senders, NEW t, task' = [task EXCEPT ![a] = t], t.kind # "room",
           \A c \in Clients : send'[c].closed = send[c].closed,
           clients' = clients, hub' = hub
    PROVE  HubShape'
  <1> USE TypeFacts DEF IInv
  <1>1. task'[Hub] = task[Hub] /\ \A b \in Senders : task'[b] = IF b = a THEN t ELSE task[b]
    BY TypeParts
  <1> QED BY <1>1 DEF HubShape

\* The same for a delivery of the hub goroutine that is not a broadcast to the room.
LEMMA HubTaskShape ==
    ASSUME IInv, NEW t, task' = [task EXCEPT ![Hub] = t], t.kind # "room" \/ hub.at = "idle",
           hub.at \in {"idle", "callback"} \/ t = NoTask,
           \A c \in Clients : send'[c].closed = send[c].closed,
           clients' = clients, hub'.at = hub.at, hub'.client = hub.client,
           hub.at = "idle" => hub' = hub
    PROVE  HubShape'
  <1> USE TypeFacts DEF IInv
  <1>1. task'[Hub] = t /\ \A b \in Senders : task'[b] = task[b]
    BY TypeParts
  <1> QED BY <1>1 DEF HubShape

LEMMA SendToUserKeeps ==
    ASSUME IInv, NEW a \in Senders, NEW u \in Users, SendToUser(a, u)
    PROVE  IInv'
  <1> USE TypeFacts, TypeParts DEF IInv
  <1> DEFINE t == ToUser(u)
  <1>1. /\ t.kind = "user" /\ t.user = u /\ t.era = era[u] /\ t.todo = Connected(u) /\ t.stuck = {}
        /\ t \in Tasks
    BY TaskFields, TaskType DEF ToUser, Connected
  <1>2. \A c \in t.todo : c \in clients /\ Owner[c] = u
    BY <1>1 DEF Connected, Of
  <1>3. /\ task' = [task EXCEPT ![a] = t] /\ sock' = sock /\ send' = send /\ clients' = clients
        /\ era' = era /\ room' = room /\ presence' = presence /\ hub' = hub /\ fault' = fault
    BY DEF SendToUser
  <1> HIDE DEF t
  <1>4. HubShape'
    BY <1>1, <1>3, SenderShape
  <1> QED BY <1>1, <1>2, <1>3, <1>4, MovesTask

\* A delivery that goes on with fewer clients keeps the shape of the hub.
LEMMA ShrinkShape ==
    ASSUME IInv, NEW a \in Actors, NEW t, task' = [task EXCEPT ![a] = t],
           t = NoTask \/ (t.kind = task[a].kind /\ task[a].todo \cup task[a].stuck # {}),
           \A c \in Clients : send'[c].closed = send[c].closed,
           clients' = clients, hub' = hub
    PROVE  HubShape'
  <1> USE TypeFacts, IdleFacts DEF IInv
  <1>1. CASE a \in Senders
    <2>1. t.kind # "room"
      BY <1>1 DEF HubShape
    <2> QED BY <1>1, <2>1, SenderShape
  <1>2. CASE a = Hub
    <2>1. t.kind # "room" \/ hub.at = "idle"
      BY <1>2 DEF HubShape
    <2>2. hub.at \in {"idle", "callback"} \/ t = NoTask
      BY <1>2 DEF HubShape
    <2> QED BY <1>2, <2>1, <2>2, HubTaskShape
  <1> QED BY <1>1, <1>2 DEF Actors

LEMMA LessTask ==
    ASSUME TypeOK, NEW a \in Actors, NEW c \in task[a].todo, NEW stuck \in SUBSET Clients,
           stuck \subseteq task[a].stuck \cup {c}
    PROVE  LET t == Task(task[a].kind, task[a].user, task[a].era, task[a].todo \ {c}, stuck)
           IN  /\ t \in Tasks /\ t.kind = task[a].kind /\ t.user = task[a].user /\ t.era = task[a].era
               /\ t.todo \cup t.stuck \subseteq task[a].todo \cup task[a].stuck
  <1> DEFINE left == task[a].todo \ {c}
             t == Task(task[a].kind, task[a].user, task[a].era, left, stuck)
  <1>1. /\ task[a].kind \in {"none", "user", "all", "room"} /\ task[a].user \in Users \cup {NoUser}
        /\ task[a].era \in Nat /\ left \in SUBSET Clients /\ stuck \in SUBSET Clients
    BY TypeFacts
  <1>3. t.kind = task[a].kind /\ t.user = task[a].user /\ t.era = task[a].era
        /\ t.todo = left /\ t.stuck = stuck
    BY TaskFields
  <1> HIDE DEF left
  <1>4. t \in Tasks
    BY <1>1, TaskType
  <1> QED BY <1>3, <1>4 DEF left

LEMMA OfferKeeps ==
    ASSUME IInv, NEW a \in Actors, NEW c \in Clients, Offer(a, c)
    PROVE  IInv'
  <1> USE TypeFacts, TypeParts, IdleFacts DEF IInv
  <1>1. /\ sock' = sock /\ clients' = clients /\ era' = era /\ room' = room
        /\ presence' = presence /\ hub' = hub /\ c \in task[a].todo
    BY DEF Offer
  <1>2. ASSUME NEW t \in Tasks, task' = [task EXCEPT ![a] = t],
               \/ t = NoTask
               \/ /\ t.kind = task[a].kind /\ t.user = task[a].user /\ t.era = task[a].era
                  /\ t.todo \cup t.stuck \subseteq task[a].todo \cup task[a].stuck,
               send' \in [Clients -> Sends], \A x \in Clients : send'[x].closed = send[x].closed,
               fault' = fault
        PROVE  IInv'
    <2>1. task[a].todo \cup task[a].stuck # {}
      BY <1>1
    <2>2. HubShape'
      BY <1>1, <1>2, <2>1, ShrinkShape
    <2>3. \A x \in t.todo \cup t.stuck : x \in task[a].todo \cup task[a].stuck
      BY <1>2
    <2>4. t.kind = "user" => /\ t.user = task[a].user /\ t.era = task[a].era /\ task[a].kind = "user"
                             /\ t.todo \cup t.stuck \subseteq task[a].todo \cup task[a].stuck
      BY <1>2
    <2> QED BY <1>1, <1>2, <2>2, <2>3, <2>4, MovesTask
  <1> DEFINE t1 == Task(task[a].kind, task[a].user, task[a].era, task[a].todo \ {c}, task[a].stuck)
             t2 == Task(task[a].kind, task[a].user, task[a].era, task[a].todo \ {c}, task[a].stuck \cup {c})
  <1>3. \/ /\ send[c].queued < Capacity /\ send' = [send EXCEPT ![c].queued = @ + 1]
           /\ task' = [task EXCEPT ![a] = t1] /\ fault' = fault
        \/ task' = [task EXCEPT ![a] = t2] /\ send' = send /\ fault' = fault
        \/ fault' = "exit" /\ task' = task /\ send' = send
        \/ task' = [task EXCEPT ![a] = NoTask] /\ fault' = fault /\ send' = send
    BY DEF Offer
  <1>a. /\ task[a].stuck \in SUBSET Clients /\ task[a].stuck \subseteq task[a].stuck \cup {c}
        /\ task[a].stuck \cup {c} \in SUBSET Clients
    OBVIOUS
  <1>4. /\ t1 \in Tasks /\ t1.kind = task[a].kind /\ t1.user = task[a].user /\ t1.era = task[a].era
        /\ t1.todo \cup t1.stuck \subseteq task[a].todo \cup task[a].stuck
    BY ONLY TypeOK, a \in Actors, <1>1, <1>a, LessTask
  <1>5. /\ t2 \in Tasks /\ t2.kind = task[a].kind /\ t2.user = task[a].user /\ t2.era = task[a].era
        /\ t2.todo \cup t2.stuck \subseteq task[a].todo \cup task[a].stuck
    BY ONLY TypeOK, a \in Actors, <1>1, <1>a, LessTask
  <1> HIDE DEF t1, t2
  <1>6. CASE /\ send[c].queued < Capacity /\ send' = [send EXCEPT ![c].queued = @ + 1]
             /\ task' = [task EXCEPT ![a] = t1] /\ fault' = fault
    <2>1. send' \in [Clients -> Sends]
      BY <1>6, SendTypes
    <2>2. \A x \in Clients : send'[x].closed = send[x].closed
      BY <1>6
    <2> QED BY <1>2, <1>4, <1>6, <2>1, <2>2
  <1>7. CASE task' = [task EXCEPT ![a] = t2] /\ send' = send /\ fault' = fault
    BY <1>2, <1>5, <1>7
  <1>8. CASE fault' = "exit" /\ task' = task /\ send' = send
    <2>1. \A x \in room : sock[x] # "new"
      BY DEF Known
    <2> QED BY <1>1, <1>8, <2>1, MovesSock
  <1>9. CASE task' = [task EXCEPT ![a] = NoTask] /\ fault' = fault /\ send' = send
    BY <1>2, <1>9
  <1> QED BY <1>3, <1>6, <1>7, <1>8, <1>9

LEMMA SentKeeps ==
    ASSUME IInv, NEW a \in Actors, Sent(a)
    PROVE  IInv'
  <1> USE TypeFacts, TypeParts, IdleFacts DEF IInv
  <1>1. /\ task' = [task EXCEPT ![a] = NoTask] /\ sock' = sock /\ send' = send /\ clients' = clients
        /\ era' = era /\ room' = room /\ presence' = presence /\ hub' = hub /\ fault' = fault
    BY DEF Sent
  <1>2. HubShape'
    BY <1>1, ShrinkShape
  <1> QED BY <1>1, <1>2, MovesTask

LEMMA TellKeeps ==
    ASSUME IInv, NEW u \in Users, Tell(u)
    PROVE  IInv'
  <1> USE TypeFacts, TypeParts DEF IInv
  <1> DEFINE t == ToUser(u)
  <1>1. /\ t.kind = "user" /\ t.user = u /\ t.era = era[u] /\ t.todo = Connected(u) /\ t.stuck = {}
        /\ t \in Tasks
    BY TaskFields, TaskType DEF ToUser, Connected
  <1>2. \A c \in t.todo : c \in clients /\ Owner[c] = u
    BY <1>1 DEF Connected, Of
  <1>3. /\ task' = [task EXCEPT ![Hub] = t] /\ sock' = sock /\ send' = send /\ clients' = clients
        /\ era' = era /\ room' = room /\ presence' = presence /\ fault' = fault /\ hub.at = "callback"
        /\ hub' = HubAt("callback", hub.client, hub.gone, hub.tell \ {u})
    BY DEF Tell
  <1>4. hub' \in Hubs /\ hub'.at = hub.at /\ hub'.client = hub.client
    <2>1. hub.tell \ {u} \in SUBSET Users /\ hub.gone \in SUBSET Users
      OBVIOUS
    <2>2. hub'.at = "callback" /\ hub'.client = hub.client
      BY <1>3, HubFields
    <2>3. hub' \in Hubs
      BY <1>3, <2>1, HubType
    <2> QED BY <1>3, <2>2, <2>3
  <1> HIDE DEF t
  <1>5. HubShape'
    BY <1>1, <1>3, <1>4, HubTaskShape
  <1> QED BY <1>1, <1>2, <1>3, <1>4, <1>5, MovesTask

\* The clients that are taken out were all found stuck: their channels are open
\* and get closed, and the entry of the user is still the one that was copied.
LEMMA EmptiedNone ==
    ASSUME IInv, NEW a \in Actors, task[a].stuck # {}, \A c \in task[a].stuck : ~send[c].closed
    PROVE  Emptied(task[a]) = {}
  <1>1. PICK c \in task[a].stuck : ~send[c].closed
    OBVIOUS
  <1>2. task[a].kind = "user" => Owner[c] = task[a].user /\ task[a].era = era[Owner[c]]
    BY <1>1 DEF IInv, Fresh
  <1> QED BY <1>2 DEF Emptied

LEMMA PruneKeeps ==
    ASSUME IInv, NEW a \in Actors, Prune(a)
    PROVE  IInv'
  <1> USE TypeFacts, TypeParts, IdleFacts DEF IInv
  <1> DEFINE S == task[a].stuck
  <1>1. /\ sock' = sock /\ era' = era /\ presence' = presence /\ task[a].todo = {} /\ S # {}
        /\ S \subseteq Clients
    BY DEF Prune
  <1>2. CASE /\ fault' \in {"exit", "locked"} /\ send' = send /\ clients' = clients /\ room' = room
             /\ hub' = hub /\ task' = task
    <2>1. \A x \in room : sock[x] # "new"
      BY DEF Known
    <2> QED BY <1>1, <1>2, <2>1, MovesSock
  <1>3. CASE /\ \A c \in S : ~send[c].closed
             /\ clients' = clients \ (S \cup Emptied(task[a]))
             /\ room' = room \ S
             /\ send' = [c \in Clients |-> IF c \in S THEN [send[c] EXCEPT !.closed = TRUE] ELSE send[c]]
             /\ task' = [task EXCEPT ![a] = NoTask]
             /\ hub' = IF task[a].kind = "room"
                       THEN HubAt("notify", NoClient, {Owner[c] : c \in S}, {}) ELSE hub
             /\ fault' = fault
    <2>1. clients' = clients \ S
      BY <1>1, <1>3, EmptiedNone
    <2>2. \A c \in Clients : /\ c \in S => send'[c].closed
                             /\ c \notin S => send'[c] = send[c]
                             /\ ~send'[c].closed => ~send[c].closed
      BY <1>1, <1>3 DEF Sends
    <2>3. send' \in [Clients -> Sends]
      <3>1. \A c \in Clients : [send[c] EXCEPT !.closed = TRUE] \in Sends
        BY DEF Sends
      <3> QED BY <1>3, <3>1
    <2>4. task'[a] = NoTask /\ \A b \in Actors \ {a} : task'[b] = task[b]
      BY <1>3
    <2>5. CASE task[a].kind = "room"
      <3>1. a = Hub /\ hub = HubIdle
        BY <2>5 DEF HubShape, Actors
      <3>2. {Owner[c] : c \in S} \subseteq Users
        BY <1>1
      <3>3. hub' \in Hubs /\ hub'.at = "notify" /\ hub'.client = NoClient
        BY <1>3, <2>5, <3>2, HubType, HubFields
      <3>4. TypeOK'
        BY <1>1, <1>3, <2>1, <2>3, <3>3 DEF TypeOK, Sends, Hubs, Tasks
      <3>5. HubShape'
        BY <2>1, <2>4, <3>1, <3>3 DEF HubShape
      <3>6. Known'
        BY <1>1, <1>3, <2>1, <2>2, <2>4, <3>3 DEF Known
      <3>7. Fresh'
        BY <1>1, <2>2, <2>4 DEF Fresh
      <3>8. OpenWhileRegistered'
        BY <1>1, <2>1, <2>2, <3>1 DEF OpenWhileRegistered
      <3>9. PresenceKept'
        BY <1>1, <2>1, <3>1 DEF PresenceKept, Connected
      <3> QED BY <3>4, <3>5, <3>6, <3>7, <3>8, <3>9
    <2>6. CASE task[a].kind # "room"
      <3>1. hub' = hub
        BY <1>3, <2>6
      <3>4. TypeOK'
        BY <1>1, <1>3, <2>1, <2>3, <3>1 DEF TypeOK, Sends, Hubs, Tasks
      <3>5. HubShape'
        BY <2>1, <2>2, <2>4, <3>1 DEF HubShape
      <3>6. Known'
        BY <1>1, <1>3, <2>1, <2>2, <2>4, <3>1 DEF Known
      <3>7. Fresh'
        BY <1>1, <2>2, <2>4 DEF Fresh
      <3>8. OpenWhileRegistered'
        BY <1>1, <2>1, <2>2, <3>1 DEF OpenWhileRegistered
      <3>9. PresenceKept'
        BY <1>1, <2>1, <3>1 DEF PresenceKept, Connected
      <3> QED BY <3>4, <3>5, <3>6, <3>7, <3>8, <3>9
    <2> QED BY <2>5, <2>6
  <1>4. \/ /\ fault' \in {"exit", "locked"} /\ send' = send /\ clients' = clients /\ room' = room
           /\ hub' = hub /\ task' = task
        \/ /\ \A c \in S : ~send[c].closed
           /\ clients' = clients \ (S \cup Emptied(task[a]))
           /\ room' = room \ S
           /\ send' = [c \in Clients |-> IF c \in S THEN [send[c] EXCEPT !.closed = TRUE] ELSE send[c]]
           /\ task' = [task EXCEPT ![a] = NoTask]
           /\ hub' = IF task[a].kind = "room"
                     THEN HubAt("notify", NoClient, {Owner[c] : c \in S}, {}) ELSE hub
           /\ fault' = fault
    BY DEF Prune
  <1> QED BY <1>2, <1>3, <1>4

-----------------------------------------------------------------------------
(* The hub goroutine.                                                      *)

LEMMA RegisterKeeps ==
    ASSUME IInv, NEW c \in Clients, Register(c)
    PROVE  IInv'
  <1> USE TypeFacts, TypeParts, IdleFacts DEF IInv
  <1>1. /\ hub = HubIdle /\ task[Hub] = NoTask /\ sock[c] = "new"
        /\ sock' = [sock EXCEPT ![c] = "reading"] /\ clients' = clients \cup {c}
        /\ era' = [era EXCEPT ![Owner[c]] = IF Connected(Owner[c]) = {} THEN @ + 1 ELSE @]
        /\ hub' = HubAt("online", c, {}, {})
        /\ send' = send /\ room' = room /\ presence' = presence /\ task' = task /\ fault' = fault
    BY DEF Register, Selecting
  <1>2. hub' \in Hubs /\ hub'.at = "online" /\ hub'.client = c
    BY <1>1, HubType, HubFields
  <1>3. sock'[c] = "reading" /\ \A x \in Clients \ {c} : sock'[x] = sock[x]
    BY <1>1
  <1>4. TypeOK'
    <2>1. era' \in [Users -> Nat]
      BY <1>1
    <2> QED BY <1>1, <1>2, <2>1 DEF TypeOK, Sends, Hubs, Tasks
  <1>5. HubShape'
    BY <1>1, <1>2 DEF HubShape
  <1>6. Known'
    BY <1>1, <1>2, <1>3 DEF Known
  <1>7. Fresh'
    <2>1. ASSUME NEW a \in Actors, task[a].kind = "user", NEW x \in task[a].todo \cup task[a].stuck
          PROVE  Owner[x] = task[a].user /\ (~send[x].closed => task[a].era = era'[Owner[x]])
      <3>1. x \in Clients /\ sock[x] # "new"
        BY DEF Known
      <3>2. Owner[x] = task[a].user /\ (~send[x].closed => task[a].era = era[Owner[x]])
        BY <2>1 DEF Fresh
      <3>3. ~send[x].closed => x \in clients
        BY <1>1, <3>1 DEF OpenWhileRegistered
      <3>4. ~send[x].closed /\ Owner[x] = Owner[c] => Connected(Owner[c]) # {}
        BY <3>1, <3>3 DEF Connected, Of
      <3> QED BY <1>1, <3>1, <3>2, <3>4
    <2> QED BY <1>1, <2>1 DEF Fresh
  <1>8. OpenWhileRegistered'
    BY <1>1, <1>2, <1>3 DEF OpenWhileRegistered, Known
  <1>9. PresenceKept'
    <2>1. ASSUME NEW u \in Users, u # Owner[c] PROVE Connected(u)' = Connected(u)
      BY <1>1, <2>1 DEF Connected, Of
    <2> QED BY <1>1, <1>2, <2>1 DEF PresenceKept
  <1> QED BY <1>4, <1>5, <1>6, <1>7, <1>8, <1>9

LEMMA UnregisterKeeps ==
    ASSUME IInv, NEW c \in Clients, Unregister(c)
    PROVE  IInv'
  <1> USE TypeFacts, TypeParts, IdleFacts DEF IInv
  <1>1. /\ hub = HubIdle /\ task[Hub] = NoTask /\ sock[c] = "leaving"
        /\ sock' = [sock EXCEPT ![c] = "left"] /\ clients' = clients \ {c} /\ room' = room \ {c}
        /\ hub' = HubAt("notify", c, {Owner[c]}, {})
        /\ send' = send /\ era' = era /\ presence' = presence /\ task' = task /\ fault' = fault
    BY DEF Unregister, Selecting
  <1>2. hub' \in Hubs /\ hub'.at = "notify" /\ hub'.client = c
    <2>1. {Owner[c]} \in SUBSET Users
      OBVIOUS
    <2> QED BY <1>1, <2>1, HubType, HubFields
  <1>3. sock'[c] = "left" /\ \A x \in Clients \ {c} : sock'[x] = sock[x]
    BY <1>1
  <1>4. TypeOK'
    BY <1>1, <1>2 DEF TypeOK, Sends, Hubs, Tasks
  <1>5. HubShape'
    BY <1>1, <1>2 DEF HubShape
  <1>6. Known'
    BY <1>1, <1>2, <1>3 DEF Known
  <1>7. Fresh'
    BY <1>1 DEF Fresh
  <1>8. OpenWhileRegistered'
    BY <1>1, <1>2, <1>3 DEF OpenWhileRegistered
  <1>9. PresenceKept'
    BY <1>1, <1>2 DEF PresenceKept, Connected
  <1> QED BY <1>4, <1>5, <1>6, <1>7, <1>8, <1>9

\* The hub goroutine is done with a client, and tells everybody or nobody.
LEMMA BackToSelect ==
    ASSUME IInv, hub.at # "idle", hub' = HubIdle, NEW t \in Tasks, t.kind \notin {"user", "room"},
           t.todo \cup t.stuck \subseteq clients,
           task' = [task EXCEPT ![Hub] = t],
           hub.client \in Clients => hub.client \in clients \/ send[hub.client].closed,
           presence' \in [Users -> {"online", "offline"}],
           \A u \in Users : Connected(u) # {} => presence'[u] = "online",
           sock' = sock, send' = send, clients' = clients, era' = era, room' = room, fault' = fault
    PROVE  IInv'
  <1> USE TypeFacts, TypeParts, IdleFacts DEF IInv
  <1>1. task'[Hub] = t /\ \A a \in Actors \ {Hub} : task'[a] = task[a]
    OBVIOUS
  <1>2. TypeOK'
    BY DEF TypeOK, Sends, Hubs, Tasks
  <1>3. HubShape'
    BY <1>1 DEF HubShape
  <1>4. Known'
    BY <1>1 DEF Known
  <1>5. Fresh'
    BY <1>1 DEF Fresh
  <1>6. OpenWhileRegistered'
    BY DEF OpenWhileRegistered
  <1>7. PresenceKept'
    BY DEF PresenceKept, Connected
  <1> QED BY <1>2, <1>3, <1>4, <1>5, <1>6, <1>7

LEMMA AllFacts ==
    ASSUME TypeOK
    PROVE  ToAll \in Tasks /\ ToAll.kind = "all" /\ ToAll.todo = clients /\ ToAll.stuck = {}
  <1>1. clients \in SUBSET Clients /\ {} \in SUBSET Clients /\ NoUser \in Users \cup {NoUser} /\ 0 \in Nat
    BY TypeParts
  <1>2. ToAll \in Tasks
    BY <1>1, TaskType DEF ToAll
  <1> QED BY <1>2, TaskFields DEF ToAll

LEMMA MarkOnlineKeeps ==
    ASSUME IInv, MarkOnline
    PROVE  IInv'
  <1> USE TypeFacts, TypeParts, AllFacts DEF IInv
  <1>1. /\ hub.at = "online" /\ hub.client \in Clients
        /\ presence' = [presence EXCEPT ![Owner[hub.client]] = "online"]
        /\ task' = [task EXCEPT ![Hub] = ToAll] /\ hub' = HubIdle
        /\ sock' = sock /\ send' = send /\ clients' = clients /\ era' = era /\ room' = room /\ fault' = fault
    BY DEF MarkOnline, HubShape
  <1>2. hub.client \in clients \/ send[hub.client].closed
    BY <1>1 DEF HubShape
  <1>3. \A u \in Users : Connected(u) # {} => presence'[u] = "online"
    BY <1>1 DEF PresenceKept
  <1>4. presence' \in [Users -> {"online", "offline"}]
    BY <1>1
  <1> QED BY <1>1, <1>2, <1>3, <1>4, BackToSelect

LEMMA MarkOfflineKeeps ==
    ASSUME IInv, MarkOffline
    PROVE  IInv'
  <1> USE TypeFacts, TypeParts, AllFacts, IdleFacts DEF IInv
  <1>1. /\ hub.at = "check" /\ hub.client \in Clients /\ send[hub.client].closed
        /\ task[Hub] = NoTask /\ hub' = HubIdle
        /\ sock' = sock /\ send' = send /\ clients' = clients /\ era' = era /\ room' = room /\ fault' = fault
    BY DEF MarkOffline, HubShape
  <1>2. \A u \in Users : Connected(u) # {} => presence[u] = "online"
    BY <1>1 DEF PresenceKept
  <1>3. CASE /\ Connected(Owner[hub.client]) = {}
             /\ presence' = [presence EXCEPT ![Owner[hub.client]] = "offline"]
             /\ task' = [task EXCEPT ![Hub] = ToAll]
    <2>1. \A u \in Users : Connected(u) # {} => presence'[u] = "online"
      BY <1>2, <1>3
    <2>2. presence' \in [Users -> {"online", "offline"}]
      BY <1>3
    <2> QED BY <1>1, <1>3, <2>1, <2>2, BackToSelect
  <1>4. CASE presence' = presence /\ task' = task
    <2>1. task' = [task EXCEPT ![Hub] = NoTask]
      BY <1>1, <1>4
    <2> QED BY <1>1, <1>2, <1>4, <2>1, BackToSelect
  <1> QED BY <1>3, <1>4 DEF MarkOffline

LEMMA NotifyKeeps ==
    ASSUME IInv, Notify
    PROVE  IInv'
  <1> USE TypeFacts, TypeParts, IdleFacts DEF IInv
  <1>1. PICK tell \in SUBSET Users : hub' = HubAt("callback", hub.client, hub.gone, tell)
    BY DEF Notify
  <1>2. /\ hub.at = "notify" /\ sock' = sock /\ send' = send /\ clients' = clients /\ era' = era
        /\ room' = room /\ presence' = presence /\ task' = task /\ fault' = fault
    BY DEF Notify
  <1>3. hub'.at = "callback" /\ hub'.client = hub.client
    BY <1>1, HubFields
  <1>4. hub' \in Hubs
    <2>1. hub.gone \in SUBSET Users
      OBVIOUS
    <2> QED BY <1>1, <2>1, HubType
  <1>5. TypeOK'
    BY <1>2, <1>4 DEF TypeOK, Sends, Hubs, Tasks
  <1>6. HubShape'
    BY <1>2, <1>3 DEF HubShape
  <1>7. Known' /\ Fresh'
    BY <1>2, <1>3 DEF Known, Fresh
  <1>8. OpenWhileRegistered'
    BY <1>2, <1>3 DEF OpenWhileRegistered
  <1>9. PresenceKept'
    BY <1>2 DEF PresenceKept, Connected
  <1> QED BY <1>5, <1>6, <1>7, <1>8, <1>9

LEMMA CloseSendKeeps ==
    ASSUME IInv, CloseSend
    PROVE  IInv'
  <1> USE TypeFacts, TypeParts, IdleFacts DEF IInv
  <1>1. /\ hub.at = "callback" /\ task[Hub] = NoTask /\ hub.client \notin clients
        /\ sock' = sock /\ clients' = clients /\ era' = era /\ room' = room /\ presence' = presence
        /\ task' = task
    BY DEF CloseSend, HubShape
  <1>2. CASE hub.client = NoClient /\ hub' = HubIdle /\ send' = send /\ fault' = fault
    <2>1. task' = [task EXCEPT ![Hub] = NoTask]
      BY <1>1
    <2>2. \A u \in Users : Connected(u) # {} => presence'[u] = "online"
      BY <1>1 DEF PresenceKept
    <2> QED BY <1>1, <1>2, <2>1, <2>2, BackToSelect
  <1>3. CASE fault' = "exit" /\ send' = send /\ hub' = hub
    <2>1. \A x \in room : sock[x] # "new"
      BY DEF Known
    <2> QED BY <1>1, <1>3, <2>1, MovesSock
  <1>4. CASE /\ hub.client # NoClient
             /\ send' = [send EXCEPT ![hub.client].closed = TRUE]
             /\ hub' = HubAt("check", hub.client, hub.gone, {})
             /\ fault' = fault
    <2> DEFINE c == hub.client
    <2>1. c \in Clients
      BY <1>4
    <2>2. hub'.at = "check" /\ hub'.client = c
      BY <1>4, HubFields
    <2>3. hub' \in Hubs
      <3>1. hub.gone \in SUBSET Users
        OBVIOUS
      <3> QED BY <1>4, <3>1, HubType
    <2>4. send' \in [Clients -> Sends]
      BY <1>4, <2>1, SendTypes
    <2>5. /\ send'[c].closed
          /\ \A x \in Clients : (x # c => send'[x] = send[x]) /\ (~send'[x].closed => ~send[x].closed)
      <3>1. send[c] \in Sends
        BY <2>1
      <3>2. send'[c] = [send[c] EXCEPT !.closed = TRUE]
        BY <1>4, <2>1
      <3>3. send'[c].closed
        BY <3>1, <3>2 DEF Sends
      <3>4. \A x \in Clients : x # c => send'[x] = send[x]
        BY <1>4, <2>1
      <3> QED BY <3>3, <3>4
    <2> HIDE DEF c
    <2>6. TypeOK'
      BY <1>1, <1>4, <2>3, <2>4 DEF TypeOK, Sends, Hubs, Tasks
    <2>7. HubShape'
      BY <1>1, <2>1, <2>2, <2>5 DEF HubShape
    <2>8. Known'
      BY <1>1, <2>1, <2>2, <2>5 DEF Known, c
    <2>9. Fresh'
      BY <1>1, <2>5 DEF Fresh
    <2>10. OpenWhileRegistered'
      BY <1>1, <2>1, <2>2, <2>5 DEF OpenWhileRegistered, c
    <2>11. PresenceKept'
      BY <1>1 DEF PresenceKept, Connected
    <2> QED BY <2>6, <2>7, <2>8, <2>9, <2>10, <2>11
  <1> QED BY <1>2, <1>3, <1>4 DEF CloseSend

LEMMA BroadcastKeeps ==
    ASSUME IInv, NEW c \in Clients, Broadcast(c)
    PROVE  IInv'
  <1> USE TypeFacts, TypeParts, IdleFacts DEF IInv
  <1>1. /\ hub = HubIdle /\ sock[c] = "casting" /\ sock' = [sock EXCEPT ![c] = "reading"]
        /\ task' = [task EXCEPT ![Hub] = ToRoom] /\ send' = send /\ clients' = clients /\ era' = era
        /\ room' = room /\ presence' = presence /\ hub' = hub /\ fault' = fault
    BY DEF Broadcast, Selecting
  <1>2. ToRoom \in Tasks /\ ToRoom.kind = "room" /\ ToRoom.todo = room /\ ToRoom.stuck = {}
    <2>1. room \in SUBSET Clients /\ {} \in SUBSET Clients /\ NoUser \in Users \cup {NoUser} /\ 0 \in Nat
      OBVIOUS
    <2>2. ToRoom \in Tasks
      BY <2>1, TaskType DEF ToRoom
    <2> QED BY <2>2, TaskFields DEF ToRoom
  <1>3. task'[Hub] = ToRoom /\ \A a \in Actors \ {Hub} : task'[a] = task[a]
    BY <1>1
  <1>4. \A x \in Clients : sock'[x] = "new" <=> sock[x] = "new"
    BY <1>1
  <1>5. TypeOK'
    BY <1>1, <1>2 DEF TypeOK, Sends, Hubs, Tasks
  <1>6. HubShape'
    BY <1>1, <1>3 DEF HubShape
  <1>7. Known'
    BY <1>1, <1>2, <1>3, <1>4 DEF Known
  <1>8. Fresh'
    BY <1>1, <1>2, <1>3 DEF Fresh
  <1>9. OpenWhileRegistered' /\ PresenceKept'
    BY <1>1, <1>4 DEF OpenWhileRegistered, PresenceKept, Connected
  <1> QED BY <1>5, <1>6, <1>7, <1>8, <1>9

-----------------------------------------------------------------------------
(* The theorems.                                                           *)

LEMMA InitInvariant == Init => IInv
  <1> SUFFICES ASSUME Init PROVE IInv
    OBVIOUS
  <1> USE HubAssumption, IdleFacts
  <1>1. TypeOK
    BY TypeParts DEF Init, Sends
  <1>2. HubShape
    BY TypeFacts, <1>1 DEF Init, HubShape, Actors
  <1>3. Known /\ Fresh
    BY DEF Init, Known, Fresh
  <1>4. OpenWhileRegistered /\ PresenceKept
    BY DEF Init, OpenWhileRegistered, PresenceKept, Connected
  <1> QED BY <1>1, <1>2, <1>3, <1>4 DEF IInv

LEMMA NextInvariant == IInv /\ [Next]_vars => IInv'
  <1> SUFFICES ASSUME IInv, [Next]_vars PROVE IInv'
    OBVIOUS
  <1> USE TypeFacts DEF IInv
  <1>1. ASSUME NEW a \in Actors, Deliver(a) PROVE IInv'
    BY <1>1, OfferKeeps, PruneKeeps, SentKeeps DEF Deliver
  <1>2. CASE HubStep
    BY <1>1, <1>2, MarkOnlineKeeps, NotifyKeeps, TellKeeps, CloseSendKeeps, MarkOfflineKeeps DEF HubStep
  <1>3. ASSUME NEW c \in Clients, Register(c) \/ Unregister(c) \/ Broadcast(c) \/ Pumps(c) PROVE IInv'
    BY <1>3, RegisterKeeps, UnregisterKeeps, BroadcastKeeps, PumpsKeep
  <1>4. ASSUME NEW a \in Senders, (\E u \in Users : SendToUser(a, u)) \/ Deliver(a) PROVE IInv'
    BY <1>1, <1>4, SendToUserKeeps
  <1>5. CASE UNCHANGED vars
    <2>1. /\ sock' = sock /\ send' = send /\ clients' = clients /\ era' = era /\ room' = room
          /\ presence' = presence /\ hub' = hub /\ task' = task /\ fault' = fault
      BY <1>5 DEF vars
    <2>2. \A x \in room : sock[x] # "new"
      BY DEF Known
    <2> QED BY <2>1, <2>2, TypeParts, MovesSock
  <1> QED BY <1>2, <1>3, <1>4, <1>5 DEF Next

LEMMA Invariant == Spec => []IInv
  BY InitInvariant, NextInvariant, PTL DEF Spec

\* Sockets, buffers, rooms and deliveries keep their types; no buffer exceeds its
\* capacity and none is read when it is empty.
THEOREM TypeCorrect == Spec => []TypeOK
  <1>1. IInv => TypeOK
    BY DEF IInv
  <1> QED BY <1>1, Invariant, PTL

\* A registered client has an open channel, and whoever is out has a closed one,
\* save the client the hub goroutine is about to close.
THEOREM ChannelsCorrect == Spec => []OpenWhileRegistered
  <1>1. IInv => OpenWhileRegistered
    BY DEF IInv
  <1> QED BY <1>1, Invariant, PTL

\* At its select, the hub goroutine has marked everybody online who has a client.
THEOREM PresenceCorrect == Spec => []ConnectedIsOnline
  <1>1. IInv => ConnectedIsOnline
    BY IdleFacts DEF IInv, PresenceKept, ConnectedIsOnline, Selecting
  <1> QED BY <1>1, Invariant, PTL

\* A client leaves the hub only closed, or to be closed next: no delivery empties
\* the entry of a user who came back meanwhile.
THEOREM RemovalsCorrect == Spec => OnlyClosedRemoved
  <1>1. ASSUME IInv, [Next]_vars, NEW c \in clients \ clients'
        PROVE  send'[c].closed \/ hub'.client = c
    <2> USE TypeFacts DEF IInv
    <2>1. c \in Clients
      BY <1>1, TypeParts
    <2>2. ASSUME NEW a \in Actors, Prune(a) PROVE send'[c].closed
      <3>1. task[a].stuck # {} /\ \A x \in task[a].stuck : ~send[x].closed
        BY <1>1, <2>2 DEF Prune
      <3>2. Emptied(task[a]) = {}
        BY <1>1, <3>1, EmptiedNone
      <3>3. c \in task[a].stuck
        BY <1>1, <2>2, <3>2 DEF Prune
      <3>4. send'[c] = [send[c] EXCEPT !.closed = TRUE]
        BY <1>1, <2>1, <2>2, <3>3 DEF Prune
      <3> QED BY <2>1, <3>4 DEF Sends
    <2>3. ASSUME NEW x \in Clients, Unregister(x) PROVE hub'.client = c
      BY <1>1, <2>3, HubFields DEF Unregister
    <2>4. \/ \E a \in Actors : Prune(a)
          \/ \E x \in Clients : Unregister(x)
          \/ clients \subseteq clients'
      BY <1>1 DEF Next, vars, HubStep, Deliver, Pumps, MarkOnline, Notify, Tell, CloseSend, MarkOffline,
         Offer, Sent, SendToUser, Register, Broadcast, JoinChat, Read, Answer, Lose, Write
    <2> QED BY <1>1, <2>2, <2>3, <2>4
  <1>2. IInv /\ [Next]_vars =>
          [\A c \in clients \ clients' : send'[c].closed \/ hub'.client = c]_vars
    BY <1>1
  <1> QED BY <1>2, Invariant, PTL DEF Spec, OnlyClosedRemoved
=============================================================================
