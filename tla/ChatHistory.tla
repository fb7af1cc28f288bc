---------------------------- MODULE ChatHistory ----------------------------
(* The messages of one direct chat: sending, deleting for oneself and       *)
(* recalling, pinning, read marks, and what a client that joins the room is *)
(* told (services/chat.service.go, repository/chat.repository.go and the    *)
(* ReadPump of ws/client.go).                                               *)
(*                                                                          *)
(* A socket's ReadPump serves one event at a time; the events of different  *)
(* sockets interleave between their database statements.  Time is the whole *)
(* second of the DATETIME columns: several stamps may be equal.             *)
(*                                                                          *)
(* Left to other modules: the hub's buffers and lost sockets (WsHub), the   *)
(* keys of the chat (ChatKeys).  Left out: the validation of contents, older *)
(* pages of the history, reactions, the count of forwards, the chats a user *)
(* hides from the list.                                                     *)
EXTENDS Integers, FiniteSets

CONSTANTS
    Users,      \* the two participants
    Sockets,    \* the open connections of the chat's participants
    Owner,      \* the user of each socket
    Messages,   \* the identifiers of messages
    Old,        \* the messages the chat holds at the start
    Author,     \* the sender of each message of Old
    NoMessage,  \* no message
    MaxPinned,  \* maxPinnedPerChat, 2 in the code
    MaxTime,    \* bound: the seconds that may pass
    MaxEvents   \* bound: the events that the sockets send and the requests over HTTP

ASSUME ChatAssumption ==
    /\ IsFiniteSet(Sockets)
    /\ Owner \in [Sockets -> Users]
    /\ Old \subseteq Messages
    /\ Author \in [Old -> Users]
    /\ NoMessage \notin Messages
    /\ MaxPinned \in Nat \ {0} /\ MaxTime \in Nat /\ MaxEvents \in Nat

VARIABLES
    now,        \* the second
    rows,       \* messages: the rows, by identifier
    pins,       \* pinned_messages
    read,       \* chat_reads.last_read_at of each user, Unread without a row
    room,       \* the sockets in the hub's room of the chat
    loaded,     \* the sockets that were sent the history
    told,       \* the messages that each socket was sent
    silent,     \* history: the messages that no one has handed to the hub, for
                \* each socket that had read the history by then
    req,        \* what the ReadPump of each socket is doing
    events,     \* the events begun so far
    crossed     \* history: the messages on which a deletion for one user was
                \* decided before the recall and written after it

vars == <<now, rows, pins, read, room, loaded, told, silent, req, events, crossed>>

Unread == -1

\* A row of messages: the columns that the operations read or write.
Row(sender, at) ==
    [sender |-> sender, at |-> at,
     forSender |-> FALSE, forReceiver |-> FALSE, recalled |-> FALSE]

Stored == DOMAIN rows

\* A step of a handler: its next statement, the message it is about, and what
\* it has read or computed so far.
Step(op, m, data) == [op |-> op, msg |-> m, data |-> data]
Idle == Step("idle", NoMessage, NoMessage)

At(s, op) == req[s].op = op
Does(s, step) == req' = [req EXCEPT ![s] = step]
Done(s) == Does(s, Idle)

InFlight == {req[s].msg : s \in {t \in Sockets : At(t, "insert")}}

Init ==
    /\ now = 0
    /\ rows = [m \in Old |-> Row(Author[m], 0)]
    /\ pins = {}
    /\ read = [u \in Users |-> Unread]
    /\ room = {}
    /\ loaded = {}
    /\ told = [s \in Sockets |-> {}]
    /\ silent = [s \in Sockets |-> {}]
    /\ req = [s \in Sockets |-> Idle]
    /\ events = 0
    /\ crossed = {}

-----------------------------------------------------------------------------
(* chat:join.  The socket enters the room before the history is read, which *)
(* here fits one page; a socket joins until it has been sent it.            *)

JoinChat(s) ==
    /\ At(s, "idle")
    /\ s \notin loaded
    /\ room' = room \cup {s}
    /\ Does(s, Step("readHistory", NoMessage, {}))
    /\ UNCHANGED <<now, rows, pins, read, loaded, told, silent, crossed>>

GetMessagesHistory(s) ==
    /\ At(s, "readHistory")
    /\ Does(s, Step("pushHistory", NoMessage, Stored))
    /\ UNCHANGED <<now, rows, pins, read, room, loaded, told, silent, crossed>>

PushHistory(s) ==
    /\ At(s, "pushHistory")
    /\ told' = [told EXCEPT ![s] = @ \cup req[s].data]
    /\ loaded' = loaded \cup {s}
    /\ Done(s)
    /\ UNCHANGED <<now, rows, pins, read, room, silent, crossed>>

-----------------------------------------------------------------------------
(* Messages of which the sockets of the room hear nothing.                  *)

HasRead(s) == s \in loaded \/ At(s, "pushHistory")

\* A message that is stored will not be announced: who has read the history and
\* was not sent the message stays without it.
Keep(m) == silent' = [s \in Sockets |-> IF HasRead(s) /\ m \notin told[s]
                                        THEN silent[s] \cup {m} ELSE silent[s]]

\* A request over HTTP stores a message: a shared post, or the card of an
\* invitation to a group.  It knows no hub.
StoreQuietly(u, m) ==
    /\ events < MaxEvents
    /\ events' = events + 1
    /\ m \notin Stored \cup InFlight
    /\ \E at \in 0..now :
          rows' = [k \in Stored \cup {m} |-> IF k = m THEN Row(u, at) ELSE rows[k]]
    /\ Keep(m)
    /\ UNCHANGED <<now, pins, read, room, loaded, told, req, crossed>>

-----------------------------------------------------------------------------
(* message:send.  created_at is taken before the row is inserted.           *)

SendMessage(s, m) ==
    /\ At(s, "idle")
    /\ m \notin Stored \cup InFlight
    /\ Does(s, Step("insert", m, Row(Owner[s], now)))
    /\ UNCHANGED <<now, rows, pins, read, room, loaded, told, silent, crossed>>

CreateMessage(s) ==
    /\ At(s, "insert")
    /\ rows' = [m \in Stored \cup {req[s].msg} |->
                    IF m = req[s].msg THEN req[s].data ELSE rows[m]]
    /\ Does(s, Step("announce", req[s].msg, NoMessage))
    /\ UNCHANGED <<now, pins, read, room, loaded, told, silent, crossed>>

\* Mutant: the room is entered only once the history has been sent.
AnnounceToLoaded(s) ==
    /\ At(s, "announce")
    /\ told' = [t \in Sockets |->
                    IF t \in loaded THEN told[t] \cup {req[s].msg} ELSE told[t]]
    /\ Done(s)
    /\ UNCHANGED <<now, rows, pins, read, room, loaded, silent, crossed>>

\* The hub takes the message and sends it to the sockets of the room.
Announce(s) ==
    /\ At(s, "announce")
    /\ told' = [t \in Sockets |->
                    IF t \in room THEN told[t] \cup {req[s].msg} ELSE told[t]]
    /\ Done(s)
    /\ UNCHANGED <<now, rows, pins, read, room, loaded, silent, crossed>>

\* The stored text cannot be had back from its ciphertext: the sender is told of an
\* error, and nobody of the message.
AnnounceFails(s) ==
    /\ At(s, "announce")
    /\ Keep(req[s].msg)
    /\ Done(s)
    /\ UNCHANGED <<now, rows, pins, read, room, loaded, told, crossed>>

-----------------------------------------------------------------------------
(* message:delete.  The row is read and checked; the update writes both     *)
(* flags, and deleted_at only for a recall.                                 *)

IsSender(s, m) == rows[m].sender = Owner[s]

\* What the update will write, and whether the row was recalled when it was read.
Flags(m, forSender, forReceiver, recalled) ==
    [forSender |-> forSender, forReceiver |-> forReceiver,
     recalled |-> recalled, wasRecalled |-> rows[m].recalled]

Recall(s, m) ==
    /\ At(s, "idle")
    /\ m \in Stored
    /\ IsSender(s, m)
    /\ ~rows[m].recalled
    /\ Does(s, Step("delete", m, Flags(m, TRUE, TRUE, TRUE)))
    /\ UNCHANGED <<now, rows, pins, read, room, loaded, told, silent, crossed>>

\* Mutant: what is deleted already is deleted again.
DeleteAgain(s, m) ==
    /\ At(s, "idle")
    /\ m \in Stored
    /\ Does(s, Step("delete", m, Flags(m, IsSender(s, m), ~IsSender(s, m), FALSE)))
    /\ UNCHANGED <<now, rows, pins, read, room, loaded, told, silent, crossed>>

DeleteForMe(s, m) ==
    /\ At(s, "idle")
    /\ m \in Stored
    /\ ~(IF IsSender(s, m) THEN rows[m].forSender ELSE rows[m].forReceiver)
    /\ Does(s, Step("delete", m, Flags(m, IsSender(s, m), ~IsSender(s, m), FALSE)))
    /\ UNCHANGED <<now, rows, pins, read, room, loaded, told, silent, crossed>>

UpdateMessageDeleteStatus(s) ==
    /\ At(s, "delete")
    /\ LET m == req[s].msg
           d == req[s].data
       IN /\ rows' = [rows EXCEPT ![m].forSender = d.forSender,
                                  ![m].forReceiver = d.forReceiver,
                                  ![m].recalled = @ \/ d.recalled]
          /\ crossed' = IF rows[m].recalled /\ ~d.recalled /\ ~d.wasRecalled
                        THEN crossed \cup {m} ELSE crossed
    /\ Done(s)
    /\ UNCHANGED <<now, pins, read, room, loaded, told, silent>>

-----------------------------------------------------------------------------
(* message:pin and message:unpin.  The service checks the message and       *)
(* counts the pins; at the limit it removes the oldest; the repository      *)
(* counts again before it inserts.                                          *)

Pinned == {p.msg : p \in pins}

PinMessage(s, m) ==
    /\ At(s, "idle")
    /\ m \in Stored
    /\ ~rows[m].recalled
    /\ m \notin Pinned
    /\ Does(s, Step(IF Cardinality(pins) >= MaxPinned THEN "findOldest" ELSE "recount",
                    m, NoMessage))
    /\ UNCHANGED <<now, rows, pins, read, room, loaded, told, silent, crossed>>

\* The oldest pin by pinned_at; any of those of one second.
FindOldestPin(s) ==
    /\ At(s, "findOldest")
    /\ \/ /\ pins = {}
          /\ Does(s, Step("recount", req[s].msg, NoMessage))
       \/ \E p \in pins :
              /\ \A q \in pins : p.at <= q.at
              /\ Does(s, Step("unpinOldest", req[s].msg, p))
    /\ UNCHANGED <<now, rows, pins, read, room, loaded, told, silent, crossed>>

\* The pin is deleted by its own identifier: another request may have removed
\* it, and its message may have been pinned anew under another.
AutoUnpinOldest(s) ==
    /\ At(s, "unpinOldest")
    /\ pins' = pins \ {req[s].data}
    /\ Does(s, Step("recount", req[s].msg, NoMessage))
    /\ UNCHANGED <<now, rows, read, room, loaded, told, silent, crossed>>

\* Mutant: the repository trusts the service's count.
TrustCount(s) ==
    /\ At(s, "recount")
    /\ Does(s, Step("insertPin", req[s].msg, NoMessage))
    /\ UNCHANGED <<now, rows, pins, read, room, loaded, told, silent, crossed>>

CountPins(s) ==
    /\ At(s, "recount")
    /\ IF Cardinality(pins) >= MaxPinned THEN Done(s)
       ELSE Does(s, Step("insertPin", req[s].msg, NoMessage))
    /\ UNCHANGED <<now, rows, pins, read, room, loaded, told, silent, crossed>>

\* An identifier that no row has and no request remembers.
FreshPin ==
    LET used == {p.id : p \in pins} \cup
                {req[s].data.id : s \in {t \in Sockets : At(t, "unpinOldest")}}
    IN CHOOSE n \in 1..(Cardinality(used) + 1) : n \notin used

\* idx_pinned_messages_chat_msg refuses a second pin of one message.
CreatePin(s) ==
    /\ At(s, "insertPin")
    /\ pins' = IF req[s].msg \in Pinned THEN pins
               ELSE pins \cup {[id |-> FreshPin, msg |-> req[s].msg, at |-> now]}
    /\ Done(s)
    /\ UNCHANGED <<now, rows, read, room, loaded, told, silent, crossed>>

UnpinMessage(s, m) ==
    /\ At(s, "idle")
    /\ m \in Pinned
    /\ pins' = {p \in pins : p.msg # m}
    /\ UNCHANGED <<now, rows, read, room, loaded, told, silent, req, crossed>>

-----------------------------------------------------------------------------
(* message:read.  The watermark of the user is read, then written.          *)

\* Mutant: any message moves the mark.
AnyMark(m, u) == m \in Stored \/ read[u] = Unread

\* messageCreatedAt.After(existing.LastReadAt), or no row yet.
IsNewer(m, u) == read[u] = Unread \/ rows[m].at > read[u]

MarkMessageRead(s, m) ==
    /\ At(s, "idle")
    /\ m \in Stored
    /\ IsNewer(m, Owner[s])
    /\ Does(s, Step(IF read[Owner[s]] = Unread THEN "createRead" ELSE "updateRead",
                    m, rows[m].at))
    /\ UNCHANGED <<now, rows, pins, read, room, loaded, told, silent, crossed>>

\* The primary key refuses a row that another request has created meanwhile.
UpsertChatRead(s) ==
    /\ req[s].op \in {"createRead", "updateRead"}
    /\ read' = IF At(s, "createRead") /\ read[Owner[s]] # Unread THEN read
               ELSE [read EXCEPT ![Owner[s]] = req[s].data]
    /\ Done(s)
    /\ UNCHANGED <<now, rows, pins, room, loaded, told, silent, crossed>>

-----------------------------------------------------------------------------
Tick ==
    /\ now < MaxTime
    /\ now' = now + 1
    /\ UNCHANGED <<rows, pins, read, room, loaded, told, silent, req, events, crossed>>

\* An event arrives at a socket whose ReadPump is free.
Event(s) ==
    /\ events < MaxEvents
    /\ events' = events + 1
    /\ \/ JoinChat(s)
       \/ \E m \in Messages :
             \/ SendMessage(s, m) \/ Recall(s, m) \/ DeleteForMe(s, m)
             \/ PinMessage(s, m) \/ UnpinMessage(s, m)
             \/ MarkMessageRead(s, m)

\* The handler of an event goes on.
Continue(s) ==
    /\ UNCHANGED events
    /\ \/ GetMessagesHistory(s) \/ PushHistory(s)
       \/ CreateMessage(s) \/ Announce(s) \/ AnnounceFails(s)
       \/ UpdateMessageDeleteStatus(s)
       \/ FindOldestPin(s) \/ AutoUnpinOldest(s) \/ CountPins(s) \/ CreatePin(s)
       \/ UpsertChatRead(s)

Next ==
    \/ Tick
    \/ \E s \in Sockets : Event(s) \/ Continue(s)
    \/ \E u \in Users, m \in Messages : StoreQuietly(u, m)

Spec == Init /\ [][Next]_vars


-----------------------------------------------------------------------------
(* Types                                                                    *)

RowType ==
    [sender : Users, at : 0..MaxTime,
     forSender : BOOLEAN, forReceiver : BOOLEAN, recalled : BOOLEAN]

\* Every variable has its type: rows are stored under identifiers of Messages,
\* the hub and the requests know open sockets only.
TypeOK ==
    /\ now \in 0..MaxTime /\ events \in 0..MaxEvents
    /\ Stored \subseteq Messages
    /\ \A m \in Stored : rows[m] \in RowType
    /\ \A p \in pins : p.msg \in Stored /\ p.at \in 0..MaxTime
    /\ read \in [Users -> {Unread} \cup 0..MaxTime]
    /\ room \subseteq Sockets
    /\ loaded \subseteq room
    /\ told \in [Sockets -> SUBSET Stored]
    /\ silent \in [Sockets -> SUBSET Stored]
    /\ \A s \in Sockets : req[s].msg \in Messages \cup {NoMessage}
    /\ crossed \subseteq Stored

-----------------------------------------------------------------------------
(* Properties                                                               *)

\* A socket that was sent the history has been sent every message of the chat,
\* except those whose sender's handler has yet to hand them to the hub, and those
\* that nobody announced since it read the history: a message of which the room
\* hears nothing is in the next history, and the room is entered before the history
\* is read, so nothing that is announced falls between the two.
NothingMissed ==
    \A s \in loaded, m \in Stored :
        \/ m \in told[s] \cup silent[s]
        \/ \E t \in Sockets : At(t, "announce") /\ req[t].msg = m

\* Overlapping requests put at most one pin each above the limit, and the
\* excess never adds up: the limit is compared again, not only made room for.
PinsAreBounded == Cardinality(pins) <= MaxPinned + Cardinality(Sockets) - 1

\* The read mark of a user with one connection never goes back, although it is
\* compared in one statement and written in another.
ReadsAdvance ==
    [][\A u \in Users :
          Cardinality({s \in Sockets : Owner[s] = u}) = 1 => read'[u] >= read[u]]_vars

\* A recalled message is hidden from both participants, unless a deletion for
\* one of them was decided before the recall and written after it.
RecallStands ==
    \A m \in Stored : rows[m].recalled =>
        \/ rows[m].forSender /\ rows[m].forReceiver
        \/ m \in crossed

-----------------------------------------------------------------------------
(* What a comment or a message of the code says and its handlers do not keep. *)

IsHidden(m, u) == IF rows[m].sender = u THEN rows[m].forSender ELSE rows[m].forReceiver

\* "Delete for the requesting user only": a message that a user has deleted for
\* himself does not come back.  The other's deletion for himself writes FALSE
\* into the first one's flag.
DeletedStaysDeleted ==
    [][\A m \in Stored, u \in Users : IsHidden(m, u) => IsHidden(m, u)']_vars

\* "A deleted message cannot be pinned": no pin shows a recalled message.
PinsAreNotRecalled == \A p \in pins : ~rows[p.msg].recalled

\* "A message is seen by U if LastReadAt(U) >= CreatedAt": nobody but its sender
\* has seen a message that is only now stored.
NewIsUnseen ==
    [][\A m \in Messages \ Stored : m \in Stored' =>
          \A u \in Users : u # rows'[m].sender => read[u] < rows'[m].at]_vars

=============================================================================
