------------------------------- MODULE WsHub --------------------------------
(***************************************************************************)
(* The hub of the notification, chat and voice call sockets (ws/hub.go)    *)
(* with the ReadPump and the WritePump of every socket (ws/client.go).     *)
(*                                                                         *)
(* Three kinds of goroutines share the hub: its own, which registers,      *)
(* unregisters and broadcasts one request at a time; the ReadPumps; and    *)
(* the HTTP handlers that call SendToUser.  A delivery takes a snapshot of *)
(* the clients under the read lock, offers the frame to one client after   *)
(* another without any lock, and removes the clients whose buffer was full *)
(* under the write lock.  Each lock section is one action.                 *)
(*                                                                         *)
(* A frame is a place taken in the buffer of a client.  There is one chat  *)
(* room, and no broadcast goes to the room of all ("__global__").          *)
(* Sending on a closed channel and closing it twice panic.  gin's Recovery *)
(* (cmd/main.go) catches the panic of an HTTP handler and of a ReadPump    *)
(* that runs in one; any other panic ends the process, and a panic under   *)
(* the write lock leaves the hub locked.  The model stops there.           *)
(***************************************************************************)
EXTENDS Naturals, FiniteSets

CONSTANTS
    Users,
    Clients,      \* the Client of each connection
    Owner,        \* the user of each client
    Guarded,      \* the clients whose ReadPump runs in its HTTP handler
    Senders,      \* the HTTP handlers
    Hub,          \* the hub goroutine
    Capacity,     \* of the send channel of a client (256 in the code)
    NoUser, NoClient

ASSUME HubAssumption ==
    /\ Owner \in [Clients -> Users]
    /\ Guarded \subseteq Clients
    /\ Hub \notin Senders
    /\ Capacity \in Nat \ {0}
    /\ NoUser \notin Users
    /\ NoClient \notin Clients
    /\ IsFiniteSet(Clients)

VARIABLES
    sock,         \* the ReadPump of each client
    send,         \* the send channel of each client
    clients,      \* h.clients, the clients of all users together
    era,          \* which map h.clients[user] is: a new one after the last client went
    room,         \* h.rooms[chat]
    presence,
    hub,          \* what the hub goroutine is doing
    task,         \* the delivery each goroutine is at
    fault

vars == <<sock, send, clients, era, room, presence, hub, task, fault>>

Actors == Senders \cup {Hub}
Of(u) == {c \in Clients : Owner[c] = u}
Connected(u) == clients \cap Of(u)

\* A delivery: to whom it still goes, and whose buffer was full.  For a user, also which
\* map of clients was copied.
Task(kind, u, e, todo, stuck) == [kind |-> kind, user |-> u, era |-> e, todo |-> todo, stuck |-> stuck]
NoTask == Task("none", NoUser, 0, {}, {})

\* Where the hub goroutine is: with which client, whose departure it announces, to whom.
HubAt(step, c, gone, tell) == [at |-> step, client |-> c, gone |-> gone, tell |-> tell]
HubIdle == HubAt("idle", NoClient, {}, {})

Init ==
    /\ sock = [c \in Clients |-> "new"]
    /\ send = [c \in Clients |-> [queued |-> 0, closed |-> FALSE]]
    /\ clients = {}
    /\ era = [u \in Users |-> 0]
    /\ room = {}
    /\ presence = [u \in Users |-> "offline"]
    /\ hub = HubIdle
    /\ task = [a \in Actors |-> NoTask]
    /\ fault = "none"

\* The hub goroutine waits at its select.
Selecting == hub = HubIdle /\ task[Hub] = NoTask

-----------------------------------------------------------------------------
(* Deliveries: SendToUser, SendToAll and the broadcast to a room *)

ToUser(u) == Task("user", u, era[u], Connected(u), {})
ToAll == Task("all", NoUser, 0, clients, {})
ToRoom == Task("room", NoUser, 0, room, {})

SendToUser(a, u) ==
    /\ task[a] = NoTask
    /\ task' = [task EXCEPT ![a] = ToUser(u)]
    /\ UNCHANGED <<sock, send, clients, era, room, presence, hub, fault>>

\* The frame for one client of the snapshot: queued, or the client is stuck.
Offer(a, c) ==
    /\ c \in task[a].todo
    /\ \/ /\ ~send[c].closed /\ send[c].queued < Capacity
          /\ send' = [send EXCEPT ![c].queued = @ + 1]
          /\ task' = [task EXCEPT ![a] = Task(@.kind, @.user, @.era, @.todo \ {c}, @.stuck)]
          /\ UNCHANGED fault
       \/ /\ ~send[c].closed /\ send[c].queued = Capacity
          /\ task' = [task EXCEPT ![a] = Task(@.kind, @.user, @.era, @.todo \ {c}, @.stuck \cup {c})]
          /\ UNCHANGED <<send, fault>>
       \/ /\ send[c].closed
          /\ IF a = Hub THEN fault' = "exit" /\ UNCHANGED task
                        ELSE task' = [task EXCEPT ![a] = NoTask] /\ UNCHANGED fault
          /\ UNCHANGED send
    /\ UNCHANGED <<sock, clients, era, room, presence, hub>>

EmptiedAlways(t) == IF t.kind = "user" THEN Of(t.user) ELSE {}   \* mutant: no test of len(clients)
\* SendToUser empties the entry of the user when the map of its snapshot is empty, though
\* that map may no longer be the entry.
Emptied(t) == IF t.kind = "user" /\ t.era # era[t.user] THEN Of(t.user) ELSE {}

PruneUnclosed(a) ==                              \* mutant: the channel stays open
    LET t == task[a] IN
    /\ t.todo = {} /\ t.stuck # {}
    /\ clients' = clients \ (t.stuck \cup Emptied(t))
    /\ room' = room \ t.stuck
    /\ task' = [task EXCEPT ![a] = NoTask]
    /\ UNCHANGED <<sock, send, era, presence, hub, fault>>
Prune(a) ==
    LET t == task[a] IN
    /\ t.todo = {} /\ t.stuck # {}
    /\ \/ /\ \E c \in t.stuck : send[c].closed
          /\ fault' = IF a = Hub THEN "exit" ELSE "locked"
          /\ UNCHANGED <<send, clients, room, hub, task>>
       \/ /\ \A c \in t.stuck : ~send[c].closed
          /\ clients' = clients \ (t.stuck \cup Emptied(t))
          /\ room' = room \ t.stuck
          /\ send' = [c \in Clients |-> IF c \in t.stuck THEN [send[c] EXCEPT !.closed = TRUE]
                                                         ELSE send[c]]
          /\ task' = [task EXCEPT ![a] = NoTask]
          /\ hub' = IF t.kind = "room"
                    THEN HubAt("notify", NoClient, {Owner[c] : c \in t.stuck}, {})
                    ELSE hub
          /\ UNCHANGED fault
    /\ UNCHANGED <<sock, era, presence>>

Sent(a) ==
    /\ task[a].kind # "none" /\ task[a].todo = {} /\ task[a].stuck = {}
    /\ task' = [task EXCEPT ![a] = NoTask]
    /\ UNCHANGED <<sock, send, clients, era, room, presence, hub, fault>>

-----------------------------------------------------------------------------
(* The hub goroutine *)

Register(c) ==
    /\ Selecting
    /\ sock[c] = "new"
    /\ sock' = [sock EXCEPT ![c] = "reading"]
    /\ clients' = clients \cup {c}
    /\ era' = [era EXCEPT ![Owner[c]] = IF Connected(Owner[c]) = {} THEN @ + 1 ELSE @]
    /\ hub' = HubAt("online", c, {}, {})
    /\ UNCHANGED <<send, room, presence, task, fault>>

MarkOnline ==
    /\ hub.at = "online"
    /\ presence' = [presence EXCEPT ![Owner[hub.client]] = "online"]
    /\ task' = [task EXCEPT ![Hub] = ToAll]
    /\ hub' = HubIdle
    /\ UNCHANGED <<sock, send, clients, era, room, fault>>

Unregister(c) ==
    /\ Selecting
    /\ sock[c] = "leaving"
    /\ sock' = [sock EXCEPT ![c] = "left"]
    /\ clients' = clients \ {c}
    /\ room' = room \ {c}
    /\ hub' = HubAt("notify", c, {Owner[c]}, {})
    /\ UNCHANGED <<send, era, presence, task, fault>>

\* onClientDisconnect: the calls of the users who are offline end, and others are told.
Notify ==
    /\ hub.at = "notify"
    /\ \E tell \in SUBSET Users :
          /\ tell # {} => \E u \in hub.gone : Connected(u) = {}
          /\ hub' = HubAt("callback", hub.client, hub.gone, tell)
    /\ UNCHANGED <<sock, send, clients, era, room, presence, task, fault>>

Tell(u) ==
    /\ hub.at = "callback" /\ task[Hub] = NoTask
    /\ u \in hub.tell
    /\ task' = [task EXCEPT ![Hub] = ToUser(u)]
    /\ hub' = HubAt("callback", hub.client, hub.gone, hub.tell \ {u})
    /\ UNCHANGED <<sock, send, clients, era, room, presence, fault>>

\* close(client.send), when a client was unregistered.
CloseSend ==
    /\ hub.at = "callback" /\ task[Hub] = NoTask /\ hub.tell = {}
    /\ \/ hub.client = NoClient /\ hub' = HubIdle /\ UNCHANGED <<send, fault>>
       \/ /\ hub.client # NoClient
          /\ send[hub.client].closed
          /\ fault' = "exit"
          /\ UNCHANGED <<send, hub>>
       \/ /\ hub.client # NoClient
          /\ ~send[hub.client].closed
          /\ send' = [send EXCEPT ![hub.client].closed = TRUE]
          /\ hub' = HubAt("check", hub.client, hub.gone, {})
          /\ UNCHANGED fault
    /\ UNCHANGED <<sock, clients, era, room, presence, task>>

MarkOfflineAlways ==                             \* mutant: hasConnections is not read
    /\ hub.at = "check"
    /\ presence' = [presence EXCEPT ![Owner[hub.client]] = "offline"]
    /\ task' = [task EXCEPT ![Hub] = ToAll]
    /\ hub' = HubIdle
    /\ UNCHANGED <<sock, send, clients, era, room, fault>>
MarkOfflineUnsaved ==                            \* mutant: the others are told, nothing is kept
    /\ hub.at = "check"
    /\ task' = [task EXCEPT ![Hub] = IF Connected(Owner[hub.client]) = {} THEN ToAll ELSE @]
    /\ hub' = HubIdle
    /\ UNCHANGED <<sock, send, clients, era, room, presence, fault>>
\* ... and the user whose last connection it was is offline.
MarkOffline ==
    /\ hub.at = "check"
    /\ IF Connected(Owner[hub.client]) = {}
       THEN /\ presence' = [presence EXCEPT ![Owner[hub.client]] = "offline"]
            /\ task' = [task EXCEPT ![Hub] = ToAll]
       ELSE UNCHANGED <<presence, task>>
    /\ hub' = HubIdle
    /\ UNCHANGED <<sock, send, clients, era, room, fault>>

Broadcast(c) ==
    /\ Selecting
    /\ sock[c] = "casting"
    /\ sock' = [sock EXCEPT ![c] = "reading"]
    /\ task' = [task EXCEPT ![Hub] = ToRoom]
    /\ UNCHANGED <<send, clients, era, room, presence, hub, fault>>

-----------------------------------------------------------------------------
(* The pumps of a socket *)

JoinChat(c) ==
    /\ sock[c] = "reading"
    /\ room' = room \cup {c}
    /\ UNCHANGED <<sock, send, clients, era, presence, hub, task, fault>>

\* A message for the room, or an answer to the socket itself.
Read(c) ==
    /\ sock[c] = "reading"
    /\ \E next \in {"casting", "answering"} : sock' = [sock EXCEPT ![c] = next]
    /\ UNCHANGED <<send, clients, era, room, presence, hub, task, fault>>

\* c.send <- data blocks while the buffer is full.
Answer(c) ==
    /\ sock[c] = "answering"
    /\ \/ /\ ~send[c].closed /\ send[c].queued < Capacity
          /\ send' = [send EXCEPT ![c].queued = @ + 1]
          /\ sock' = [sock EXCEPT ![c] = "reading"]
          /\ UNCHANGED fault
       \/ /\ send[c].closed
          /\ IF c \in Guarded THEN sock' = [sock EXCEPT ![c] = "leaving"] /\ UNCHANGED fault
                              ELSE fault' = "exit" /\ UNCHANGED sock
          /\ UNCHANGED send
    /\ UNCHANGED <<clients, era, room, presence, hub, task>>

\* The read fails: the peer is gone, or the WritePump has closed the connection.
Lose(c) ==
    /\ sock[c] = "reading"
    /\ sock' = [sock EXCEPT ![c] = "leaving"]
    /\ UNCHANGED <<send, clients, era, room, presence, hub, task, fault>>

\* The WritePump; once it has stopped, it takes no frame any more.
Write(c) ==
    /\ send[c].queued > 0
    /\ send' = [send EXCEPT ![c].queued = @ - 1]
    /\ UNCHANGED <<sock, clients, era, room, presence, hub, task, fault>>

-----------------------------------------------------------------------------
Deliver(a) == (\E c \in Clients : Offer(a, c)) \/ Prune(a) \/ Sent(a)

HubStep ==
    \/ MarkOnline \/ Notify \/ (\E u \in Users : Tell(u)) \/ CloseSend \/ MarkOffline
    \/ Deliver(Hub)

Pumps(c) ==
    \/ JoinChat(c) \/ Read(c) \/ Answer(c) \/ Lose(c) \/ Write(c)

Next ==
    /\ fault = "none"
    /\ \/ HubStep
       \/ \E c \in Clients : Register(c) \/ Unregister(c) \/ Broadcast(c) \/ Pumps(c)
       \/ \E a \in Senders : (\E u \in Users : SendToUser(a, u)) \/ Deliver(a)

Spec == Init /\ [][Next]_vars

\* The hub goroutine keeps running, and its select picks at random among the channels that
\* are ready: no request waits for ever.
Fairness ==
    /\ WF_vars(fault = "none" /\ HubStep)
    /\ \A c \in Clients : SF_vars(fault = "none" /\ Unregister(c))

FairSpec == Spec /\ Fairness

-----------------------------------------------------------------------------
(* Properties *)

TypeOK ==
    /\ sock \in [Clients -> {"new", "reading", "casting", "answering", "leaving", "left"}]
    /\ send \in [Clients -> [queued : 0..Capacity, closed : BOOLEAN]]
    /\ clients \subseteq Clients /\ room \subseteq Clients
    /\ era \in [Users -> Nat]
    /\ presence \in [Users -> {"online", "offline"}]
    /\ hub \in [at : {"idle", "online", "notify", "callback", "check"},
                client : Clients \cup {NoClient}, gone : SUBSET Users, tell : SUBSET Users]
    /\ task \in [Actors -> [kind : {"none", "user", "all", "room"}, user : Users \cup {NoUser},
                            era : Nat, todo : SUBSET Clients,
                            stuck : SUBSET Clients]]
    /\ fault \in {"none", "exit", "locked"}

\* A client is in the hub exactly while its channel is open: nobody closes the channel of a
\* client others can still look up, and nobody who is out keeps an open channel, save the
\* one the hub goroutine is about to close.
OpenWhileRegistered ==
    \A c \in Clients :
        /\ c \in clients => ~send[c].closed
        /\ sock[c] # "new" /\ c \notin clients /\ ~send[c].closed => hub.client = c

\* Taking out stuck clients never takes out another one: the entry that SendToUser empties
\* (ws/hub.go:208) is not that of a user who came back meanwhile.
OnlyClosedRemoved ==
    [][\A c \in clients \ clients' : send'[c].closed \/ hub'.client = c]_vars

\* A user with a registered client is online, once the hub goroutine is at its select.
ConnectedIsOnline ==
    Selecting => \A u \in Users : Connected(u) # {} => presence[u] = "online"

\* Unless the process fails, a user who has no connection any more becomes offline.
GoneIsOffline ==
    \A u \in Users :
        (\A c \in Of(u) : sock[c] \in {"new", "leaving", "left"}) /\ presence[u] = "online"
            ~> \/ presence[u] = "offline" \/ fault # "none"
               \/ \E c \in Of(u) : sock[c] = "reading"

\* SendToUser is thread-safe (ws/hub.go:166): no goroutine fails on a closed channel.
NoPanic == fault = "none"
=============================================================================
