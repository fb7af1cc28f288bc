------------------------------ MODULE ChatKeys ------------------------------
(***************************************************************************)
(* The store of the wrapped keys of end-to-end encrypted chats.  A client  *)
(* that finds a chat without a key makes one and stores a copy wrapped for *)
(* each participant; several may do so at once, and for several chats.     *)
(*                                                                         *)
(* A worker is the goroutine of one request.  A batch is one transaction:  *)
(* it locks the rows of its chats, one after the other, and then inserts   *)
(* the copies.  What it has inserted nobody sees before it commits, and    *)
(* who would write the same row waits for it.                              *)
(*                                                                         *)
(* A key is named after the batch that brought it.  The clients are not in *)
(* this repository: a batch has a copy for every participant, and a client *)
(* re-wraps only a key it was given (docs/function-user.md:1983, 2012).    *)
(***************************************************************************)
EXTENDS Naturals, FiniteSets

CONSTANTS
    Chats,        \* their ids, in the order of the strings
    Participants, \* of every chat
    Keys,         \* the batches that clients send
    Workers,
    NoKey, Nobody

ASSUME ChatKeysAssumption ==
    /\ Chats \subseteq Nat
    /\ IsFiniteSet(Chats)
    /\ NoKey \notin Keys
    /\ Nobody \notin Workers

VARIABLES
    row,          \* chat_e2e_keys: whose key each copy wraps
    lock,         \* who holds FOR UPDATE the row of each chat
    known,        \* the key each client was given
    sent,         \* the batches that were sent
    hand          \* the request each worker is at

storeVars == <<row, lock, known, sent, hand>>

Rows == Chats \X Participants
IdleHand == [at |-> "idle", key |-> NoKey, chats |-> {}, left |-> {}, put |-> {}]

StoreInit ==
    /\ row = [c \in Chats |-> [u \in Participants |-> NoKey]]
    /\ lock = [c \in Chats |-> Nobody]
    /\ known = [c \in Chats |-> [u \in Participants |-> NoKey]]
    /\ sent = {}
    /\ hand = [w \in Workers |-> IdleHand]

Held(w) == {c \in Chats : lock[c] = w}
Release(w) == lock' = [c \in Chats |-> IF lock[c] = w THEN Nobody ELSE lock[c]]
Finish(w)  == hand' = [hand EXCEPT ![w] = IdleHand]

-----------------------------------------------------------------------------
(* Storing a batch. *)

StoreChatKeys(w, C, k) ==
    /\ hand[w] = IdleHand
    /\ C # {}
    /\ k \notin sent
    /\ sent' = sent \cup {k}
    /\ hand' = [hand EXCEPT ![w] = [at |-> "locking", key |-> k, chats |-> C,
                                    left |-> C \X Participants, put |-> {}]]
    /\ UNCHANGED <<row, lock, known>>

Wanted(w) == hand[w].chats \ Held(w)

\* Mutant: the locks are taken in the order of the batch.
NextAsSent(w, c) == c \in Wanted(w)

\* The ids are sorted, so that two batches cannot wait for each other.
NextToLock(w, c) == c \in Wanted(w) /\ \A d \in Wanted(w) : c <= d

LockChatRow(w, c) ==
    /\ hand[w].at = "locking"
    /\ NextToLock(w, c)
    /\ lock[c] = Nobody
    /\ lock' = [lock EXCEPT ![c] = w]
    /\ hand' = [hand EXCEPT ![w].at = IF Wanted(w) = {c} THEN "inserting" ELSE "locking"]
    /\ UNCHANGED <<row, known, sent>>

\* A copy that another transaction is inserting is waited for; one that is there
\* is left as it is.
Touched(w) == (hand[w].chats \X Participants) \ hand[w].left
Free(w, c, u) == \A x \in Workers \ {w} : <<c, u>> \notin Touched(x)

\* Mutant: a copy that is there is overwritten.
InsertOver(w, c, u) ==
    /\ hand[w].at = "inserting"
    /\ <<c, u>> \in hand[w].left
    /\ Free(w, c, u)
    /\ hand' = [hand EXCEPT ![w].left = @ \ {<<c, u>>}, ![w].put = @ \cup {<<c, u>>}]
    /\ UNCHANGED <<row, lock, known, sent>>

InsertKey(w, c, u) ==
    /\ hand[w].at = "inserting"
    /\ <<c, u>> \in hand[w].left
    /\ Free(w, c, u)
    /\ hand' = [hand EXCEPT ![w].left = @ \ {<<c, u>>},
                            ![w].put = IF row[c][u] = NoKey THEN @ \cup {<<c, u>>} ELSE @]
    /\ UNCHANGED <<row, lock, known, sent>>

Commit(w) ==
    /\ hand[w].at = "inserting"
    /\ hand[w].left = {}
    /\ row' = [c \in Chats |-> [u \in Participants |->
                 IF <<c, u>> \in hand[w].put THEN hand[w].key ELSE row[c][u]]]
    /\ Release(w)
    /\ Finish(w)
    /\ UNCHANGED <<known, sent>>

\* Mutant: there is no transaction, and what was inserted stays.
RollbackKeeps(w) ==
    /\ hand[w].at \in {"locking", "inserting"}
    /\ row' = [c \in Chats |-> [u \in Participants |->
                 IF <<c, u>> \in hand[w].put THEN hand[w].key ELSE row[c][u]]]
    /\ Release(w)
    /\ Finish(w)
    /\ UNCHANGED <<known, sent>>

\* The transaction is rolled back: an error, or the end of the process.
Rollback(w) ==
    /\ hand[w].at \in {"locking", "inserting"}
    /\ Release(w)
    /\ Finish(w)
    /\ UNCHANGED <<row, known, sent>>

-----------------------------------------------------------------------------
(* Reading a copy, under the same lock, and writing one's own again. *)

GetChatKey(u, c) ==
    /\ lock[c] = Nobody
    /\ row[c][u] # NoKey
    /\ known' = [known EXCEPT ![c][u] = row[c][u]]
    /\ UNCHANGED <<row, lock, sent, hand>>

\* A single statement: it waits for a batch that has touched the copy.
RekeyChat(u, c) ==
    /\ known[c][u] # NoKey
    /\ \A w \in Workers : <<c, u>> \notin Touched(w)
    /\ row' = [row EXCEPT ![c][u] = known[c][u]]
    /\ UNCHANGED <<lock, known, sent, hand>>

-----------------------------------------------------------------------------
StoreNext ==
    \/ \E w \in Workers :
         \/ \E C \in SUBSET Chats, k \in Keys : StoreChatKeys(w, C, k)
         \/ \E c \in Chats : LockChatRow(w, c)
         \/ \E c \in Chats, u \in Participants : InsertKey(w, c, u)
         \/ Commit(w) \/ Rollback(w)
    \/ \E c \in Chats, u \in Participants : GetChatKey(u, c) \/ RekeyChat(u, c)

StoreSpec == StoreInit /\ [][StoreNext]_storeVars

\* The database grants each lock in turn, and a transaction goes on.
Fairness ==
    \A w \in Workers :
        /\ \A c \in Chats : SF_storeVars(LockChatRow(w, c))
        /\ \A c \in Chats, u \in Participants : WF_storeVars(InsertKey(w, c, u))
        /\ WF_storeVars(Commit(w))

FairSpec == StoreSpec /\ Fairness

-----------------------------------------------------------------------------
(* Properties *)

\* The type invariant: who inserts holds the lock of every chat of its batch.
StoreTypeOK ==
    /\ row \in [Chats -> [Participants -> Keys \cup {NoKey}]]
    /\ lock \in [Chats -> Workers \cup {Nobody}]
    /\ known \in [Chats -> [Participants -> Keys \cup {NoKey}]]
    /\ sent \subseteq Keys
    /\ hand \in [Workers -> [at : {"idle", "locking", "inserting"}, key : Keys \cup {NoKey},
                             chats : SUBSET Chats, left : SUBSET Rows, put : SUBSET Rows]]
    /\ \A w \in Workers :
         /\ Held(w) \subseteq hand[w].chats
         /\ hand[w].at = "inserting" => Wanted(w) = {}

\* A chat has a copy for everybody or for nobody, and all wrap one key, also after
\* a batch that was rolled back halfway and whatever a slower client has stored.
OneKey ==
    \A c \in Chats : \E k \in Keys \cup {NoKey} : \A u \in Participants : row[c][u] = k

Chosen == [c \in Chats |-> IF \E u \in Participants : row[c][u] # NoKey
                           THEN row[c][CHOOSE u \in Participants : row[c][u] # NoKey] ELSE NoKey]

Agreement == INSTANCE KeyAgreement WITH Users <- Participants, chosen <- Chosen

\* The store implements the agreement: the key of a chat is chosen once, and no
\* client is given another one, before or after it has written its copy again.
KeySpec == Agreement!KeySpec

\* A batch is answered: no two of them wait for each other.
BatchesEnd ==
    \A w \in Workers : hand[w].at # "idle" ~> hand[w].at = "idle"
=============================================================================
