----------------------------- MODULE ChatProofs -----------------------------
(***************************************************************************)
(* Proofs about the two models of direct chats.                            *)
(*                                                                         *)
(* ChatKeys, for every set of chats, participants, batches and workers:    *)
(* the locks keep two batches out of one chat; what a batch has inserted   *)
(* is then exactly the copies that were missing, so that its commit fills  *)
(* whole chats.                                                            *)
(*                                                                         *)
(* ChatHistory, for every set of sockets and messages: types and     *)
(* what each handler has read (ChatInv), and on top of them one small      *)
(* invariant for each promise: JoinOK, PinInv, RecallInv, MarksOK.         *)
(***************************************************************************)
EXTENDS ChatKeys, ChatHistory, FiniteSetTheorems, TLAPS

-----------------------------------------------------------------------------
(* The keys of chats (ChatKeys) *)

Hands == [at : {"idle", "locking", "inserting"}, key : Keys \cup {NoKey},
          chats : SUBSET Chats, left : SUBSET Rows, put : SUBSET Rows]
Copies == [Chats -> [Participants -> Keys \cup {NoKey}]]

\* The copies of a batch are those of its chats; while it inserts, it has put the
\* missing ones among those it has tried.
HandOK(w) ==
    /\ hand[w].at = "idle" => hand[w].chats = {}
    /\ hand[w].at # "idle" => hand[w].key \in Keys
    /\ hand[w].at = "locking" => hand[w].put = {} /\ hand[w].left = hand[w].chats \X Participants
    /\ hand[w].at = "inserting" =>
         /\ hand[w].left \subseteq hand[w].chats \X Participants
         /\ \A c \in Chats, u \in Participants :
              <<c, u>> \in hand[w].put <=> /\ c \in hand[w].chats
                                           /\ <<c, u>> \notin hand[w].left
                                           /\ row[c][u] = NoKey
HandsOK == \A w \in Workers : HandOK(w)

\* A client knows what its copy wraps.
KnownIsStored ==
    \A c \in Chats, u \in Participants : known[c][u] \in {NoKey, row[c][u]}

IInv == StoreTypeOK /\ HandsOK /\ OneKey /\ KnownIsStored

-----------------------------------------------------------------------------

LEMMA IdleIsHand == IdleHand \in Hands
  BY DEF IdleHand, Hands

LEMMA InitIInv ==
    ASSUME StoreInit
    PROVE  IInv
  <1>1. StoreTypeOK
    <2>1. hand \in [Workers -> Hands]
      BY IdleIsHand DEF StoreInit
    <2>2. \A w \in Workers : Held(w) = {}
      BY ChatKeysAssumption DEF StoreInit, Held
    <2>3. \A w \in Workers : hand[w].at = "idle"
      BY DEF StoreInit, IdleHand
    <2>4. /\ row \in Copies /\ known \in Copies
          /\ lock \in [Chats -> Workers \cup {Nobody}] /\ sent \subseteq Keys
      BY DEF StoreInit, Copies
    <2> QED BY <2>1, <2>2, <2>3, <2>4 DEF StoreTypeOK, Hands, Copies
  <1>2. HandsOK
    BY DEF StoreInit, HandsOK, HandOK, IdleHand
  <1>3. OneKey
    BY DEF StoreInit, OneKey
  <1>4. KnownIsStored
    BY DEF StoreInit, KnownIsStored
  <1> QED BY <1>1, <1>2, <1>3, <1>4 DEF IInv

\* Two batches never hold the same chat.
LEMMA HeldApart ==
    ASSUME StoreTypeOK, NEW w \in Workers, NEW x \in Workers, w # x, hand[w].at = "inserting"
    PROVE  hand[w].chats \cap Held(x) = {}
  BY DEF StoreTypeOK, Wanted, Held

\* A commit fills the chats of its batch that had no copy, and touches no other.
LEMMA CommitFills ==
    ASSUME IInv, NEW w \in Workers, Commit(w), NEW c \in Chats, NEW u \in Participants
    PROVE  row'[c][u] = IF c \in hand[w].chats /\ row[c][u] = NoKey THEN hand[w].key ELSE row[c][u]
  <1>1. HandOK(w) /\ hand[w].at = "inserting" /\ hand[w].left = {}
    BY DEF IInv, HandsOK, Commit
  <1>2. <<c, u>> \in hand[w].put <=> c \in hand[w].chats /\ row[c][u] = NoKey
    BY <1>1 DEF HandOK
  <1>3. row'[c][u] = IF <<c, u>> \in hand[w].put THEN hand[w].key ELSE row[c][u]
    BY DEF Commit
  <1> QED BY <1>2, <1>3

\* Writing again a key one was given changes nothing.
LEMMA RekeyIsIdle ==
    ASSUME IInv, NEW c \in Chats, NEW u \in Participants, RekeyChat(u, c)
    PROVE  row' = row
  <1>1. known[c][u] = row[c][u] /\ row \in Copies
    BY DEF IInv, KnownIsStored, RekeyChat, StoreTypeOK, Copies
  <1>2. row' = [row EXCEPT ![c][u] = row[c][u]]
    BY <1>1 DEF RekeyChat
  <1> QED BY <1>1, <1>2 DEF Copies

LEMMA CommitTyped ==
    ASSUME IInv, NEW w \in Workers, Commit(w)
    PROVE  row' \in Copies
  <1>1. hand[w].key \in Keys /\ row \in Copies
    BY DEF IInv, HandsOK, HandOK, Commit, StoreTypeOK, Copies
  <1> QED BY <1>1 DEF Commit, Copies

\* A worker begins, goes on or ends: the type.
LEMMA TypeStep ==
    ASSUME IInv, StoreNext
    PROVE  StoreTypeOK'
  <1>0. /\ row \in Copies /\ known \in Copies
        /\ lock \in [Chats -> Workers \cup {Nobody}]
        /\ sent \subseteq Keys
        /\ hand \in [Workers -> Hands]
        /\ \A w \in Workers : /\ Held(w) \subseteq hand[w].chats
                              /\ hand[w].at = "inserting" => Wanted(w) = {}
    BY DEF IInv, StoreTypeOK, Copies, Hands
  <1> DEFINE Kept(w) == /\ Held(w) \subseteq hand[w].chats
                        /\ hand[w].at = "inserting" => Wanted(w) = {}
  <1>1. ASSUME NEW w \in Workers, Release(w), Finish(w)
        PROVE  /\ lock' \in [Chats -> Workers \cup {Nobody}]
               /\ hand' \in [Workers -> Hands]
               /\ \A x \in Workers : Kept(x)'
    <2>1. lock' \in [Chats -> Workers \cup {Nobody}]
      BY <1>0, <1>1 DEF Release
    <2>2. hand' \in [Workers -> Hands] /\ hand'[w] = IdleHand
      BY <1>0, <1>1, IdleIsHand DEF Finish
    <2>3. Held(w)' = {}
      BY <1>1, ChatKeysAssumption DEF Release, Held
    <2>4. \A x \in Workers \ {w} : Held(x)' = Held(x) /\ hand'[x] = hand[x]
      BY <1>0, <1>1, ChatKeysAssumption DEF Release, Finish, Held
    <2>5. Kept(w)'
      BY <2>2, <2>3 DEF IdleHand
    <2>6. \A x \in Workers \ {w} : Kept(x)'
      BY <1>0, <2>4 DEF Wanted
    <2> QED BY <2>1, <2>2, <2>5, <2>6
  <1>2. ASSUME NEW w \in Workers, NEW C \in SUBSET Chats, NEW k \in Keys, StoreChatKeys(w, C, k)
        PROVE  StoreTypeOK'
    <2>1. [at |-> "locking", key |-> k, chats |-> C,
           left |-> C \X Participants, put |-> {}] \in Hands
      BY DEF Hands, Rows
    <2>2. hand' \in [Workers -> Hands] /\ hand'[w].at = "locking"
      BY <1>0, <1>2, <2>1 DEF StoreChatKeys
    <2>3. \A x \in Workers : Kept(x)'
      <3>1. Held(w) = {}
        BY <1>0, <1>2 DEF StoreChatKeys, IdleHand
      <3>2. \A x \in Workers : Held(x)' = Held(x) /\ (x # w => hand'[x] = hand[x])
        BY <1>0, <1>2 DEF StoreChatKeys, Held
      <3> QED BY <1>0, <2>2, <3>1, <3>2 DEF Wanted
    <2> QED BY <1>0, <1>2, <2>2, <2>3 DEF StoreChatKeys, StoreTypeOK, Copies, Hands
  <1>3. ASSUME NEW w \in Workers, NEW c \in Chats, LockChatRow(w, c)
        PROVE  StoreTypeOK'
    <2> DEFINE s == IF Wanted(w) = {c} THEN "inserting" ELSE "locking"
    <2>1. hand' = [hand EXCEPT ![w] = [hand[w] EXCEPT !.at = s]]
      BY <1>0, <1>3 DEF LockChatRow
    <2>2. [hand[w] EXCEPT !.at = s] \in Hands
      BY <1>0 DEF Hands
    <2>3. /\ hand' \in [Workers -> Hands] /\ hand'[w].at = s /\ hand'[w].chats = hand[w].chats
          /\ \A x \in Workers \ {w} : hand'[x] = hand[x]
      BY <1>0, <2>1, <2>2 DEF Hands
    <2>4. /\ lock' \in [Chats -> Workers \cup {Nobody}]
          /\ Held(w)' = Held(w) \cup {c}
          /\ \A x \in Workers \ {w} : Held(x)' = Held(x)
      BY <1>0, <1>3, ChatKeysAssumption DEF LockChatRow, Held
    <2>5. c \in Wanted(w)
      BY <1>3 DEF LockChatRow, NextToLock
    <2>6. \A x \in Workers : Kept(x)'
      <3>1. \A x \in Workers \ {w} : Kept(x)'
        BY <1>0, <2>3, <2>4 DEF Wanted
      <3>2. Held(w)' \subseteq hand'[w].chats
        BY <1>0, <2>3, <2>4, <2>5 DEF Wanted
      <3>3. ASSUME hand'[w].at = "inserting" PROVE Wanted(w)' = {}
        <4>1. Wanted(w) = {c}
          BY <2>3, <3>3
        <4> QED BY <2>3, <2>4, <4>1 DEF Wanted
      <3> QED BY <3>1, <3>2, <3>3
    <2> HIDE DEF Kept
    <2>7. UNCHANGED <<row, known, sent>>
      BY <1>3 DEF LockChatRow
    <2> QED BY <1>0, <2>3, <2>4, <2>6, <2>7 DEF StoreTypeOK, Copies, Hands, Kept
  <1>4. ASSUME NEW w \in Workers, NEW c \in Chats, NEW u \in Participants, InsertKey(w, c, u)
        PROVE  StoreTypeOK'
    <2> DEFINE p == IF row[c][u] = NoKey THEN hand[w].put \cup {<<c, u>>} ELSE hand[w].put
    <2>1. hand' = [hand EXCEPT ![w] = [hand[w] EXCEPT !.left = hand[w].left \ {<<c, u>>}, !.put = p]]
      BY <1>0, <1>4 DEF InsertKey
    <2>0. p \in SUBSET Rows /\ (hand[w].left \ {<<c, u>>}) \in SUBSET Rows
      <3>1. <<c, u>> \in Rows /\ hand[w].put \in SUBSET Rows /\ hand[w].left \in SUBSET Rows
        BY <1>0 DEF Hands, Rows
      <3> QED BY <3>1
    <2> HIDE DEF p
    <2>2. [hand[w] EXCEPT !.left = hand[w].left \ {<<c, u>>}, !.put = p] \in Hands
      BY <1>0, <2>0 DEF Hands
    <2>3. /\ hand' \in [Workers -> Hands]
          /\ \A x \in Workers : hand'[x].at = hand[x].at /\ hand'[x].chats = hand[x].chats
      BY <1>0, <2>1, <2>2 DEF Hands
    <2>4. UNCHANGED <<row, lock, known, sent>>
      BY <1>4 DEF InsertKey
    <2>5. \A x \in Workers : Kept(x)'
      BY <1>0, <2>3, <2>4 DEF Wanted, Held
    <2> QED BY <1>0, <2>3, <2>4, <2>5 DEF StoreTypeOK, Copies, Hands
  <1>5. ASSUME NEW w \in Workers, Commit(w)
        PROVE  StoreTypeOK'
    <2>1. row' \in Copies
      BY <1>5, CommitTyped
    <2>2. Release(w) /\ Finish(w) /\ UNCHANGED <<known, sent>>
      BY <1>5 DEF Commit
    <2> QED BY <1>0, <1>1, <2>1, <2>2 DEF StoreTypeOK, Copies, Hands
  <1>6. ASSUME NEW w \in Workers, Rollback(w)
        PROVE  StoreTypeOK'
    <2>1. Release(w) /\ Finish(w) /\ UNCHANGED <<row, known, sent>>
      BY <1>6 DEF Rollback
    <2> QED BY <1>0, <1>1, <2>1 DEF StoreTypeOK, Copies, Hands
  <1>7. ASSUME NEW c \in Chats, NEW u \in Participants, GetChatKey(u, c) \/ RekeyChat(u, c)
        PROVE  StoreTypeOK'
    <2>1. row' = row /\ UNCHANGED <<lock, sent, hand>>
      BY <1>7, RekeyIsIdle DEF GetChatKey, RekeyChat
    <2>2. known' \in Copies
      <3>1. CASE known' = known
        BY <1>0, <3>1
      <3>2. CASE known' = [known EXCEPT ![c][u] = row[c][u]]
        <4>1. row[c][u] \in Keys \cup {NoKey} /\ known[c] \in [Participants -> Keys \cup {NoKey}]
          BY <1>0 DEF Copies
        <4>2. [known[c] EXCEPT ![u] = row[c][u]] \in [Participants -> Keys \cup {NoKey}]
          BY <4>1
        <4>3. known' = [known EXCEPT ![c] = [known[c] EXCEPT ![u] = row[c][u]]]
          BY <1>0, <3>2 DEF Copies
        <4> QED BY <1>0, <4>2, <4>3 DEF Copies
      <3> QED BY <1>7, <3>1, <3>2 DEF GetChatKey, RekeyChat
    <2> QED BY <1>0, <2>1, <2>2 DEF StoreTypeOK, Copies, Hands, Wanted, Held
  <1> QED BY <1>2, <1>3, <1>4, <1>5, <1>6, <1>7 DEF StoreNext

\* The copies of the chats that a batch holds do not change under it.
LEMMA HeldIsQuiet ==
    ASSUME IInv, StoreNext, NEW w \in Workers, hand[w].at = "inserting", hand'[w] = hand[w],
           NEW c \in hand[w].chats, NEW u \in Participants
    PROVE  row'[c][u] = row[c][u]
  <1>0. c \in Chats /\ c \in Held(w)
    BY DEF IInv, StoreTypeOK, Wanted
  <1>1. ASSUME NEW x \in Workers, Commit(x) PROVE row'[c][u] = row[c][u]
    <2>1. x # w
      BY <1>1 DEF Commit, Finish, IdleHand, IInv, StoreTypeOK
    <2>2. c \notin hand[x].chats
      BY <1>0, <1>1, <2>1, HeldApart DEF Commit, IInv
    <2> QED BY <1>0, <1>1, <2>2, CommitFills
  <1>2. CASE row' = row
    BY <1>2
  <1>3. ASSUME NEW x \in Workers,
               \/ \E C \in SUBSET Chats, k \in Keys : StoreChatKeys(x, C, k)
               \/ \E d \in Chats : LockChatRow(x, d)
               \/ \E d \in Chats, v \in Participants : InsertKey(x, d, v)
               \/ Rollback(x)
        PROVE  row' = row
    BY <1>3 DEF StoreChatKeys, LockChatRow, InsertKey, Rollback
  <1>4. ASSUME NEW d \in Chats, NEW v \in Participants, GetChatKey(v, d) \/ RekeyChat(v, d)
        PROVE  row' = row
    BY <1>4, RekeyIsIdle DEF GetChatKey
  <1> QED BY <1>1, <1>2, <1>3, <1>4 DEF StoreNext

LEMMA HandsStep ==
    ASSUME IInv, StoreNext
    PROVE  HandsOK'
  <1>0. hand \in [Workers -> Hands] /\ HandsOK
    BY DEF IInv, StoreTypeOK, Hands
  <1>1. ASSUME NEW x \in Workers, hand'[x] = hand[x] PROVE HandOK(x)'
    <2>1. HandOK(x)
      BY <1>0 DEF HandsOK
    <2>2. ASSUME hand[x].at = "inserting", NEW c \in Chats, NEW u \in Participants
          PROVE  <<c, u>> \in hand[x].put <=> /\ c \in hand[x].chats
                                              /\ <<c, u>> \notin hand[x].left
                                              /\ row'[c][u] = NoKey
      BY <1>1, <2>1, <2>2, HeldIsQuiet DEF HandOK
    <2> QED BY <1>1, <2>1, <2>2 DEF HandOK
  <1>2. ASSUME NEW w \in Workers, Finish(w) PROVE HandsOK'
    <2>1. HandOK(w)'
      BY <1>0, <1>2 DEF Finish, HandOK, IdleHand
    <2>2. \A x \in Workers \ {w} : hand'[x] = hand[x]
      BY <1>0, <1>2 DEF Finish
    <2> QED BY <1>1, <2>1, <2>2 DEF HandsOK
  <1>3. ASSUME NEW w \in Workers, NEW C \in SUBSET Chats, NEW k \in Keys, StoreChatKeys(w, C, k)
        PROVE  HandsOK'
    <2>1. /\ hand'[w] = [at |-> "locking", key |-> k, chats |-> C,
                         left |-> C \X Participants, put |-> {}]
          /\ \A x \in Workers \ {w} : hand'[x] = hand[x]
      BY <1>0, <1>3 DEF StoreChatKeys
    <2>2. HandOK(w)'
      BY <2>1 DEF HandOK
    <2> QED BY <1>1, <2>1, <2>2 DEF HandsOK
  <1>4. ASSUME NEW w \in Workers, NEW c \in Chats, LockChatRow(w, c)
        PROVE  HandsOK'
    <2>1. /\ hand'[w].at \in {"locking", "inserting"}
          /\ hand'[w].key = hand[w].key /\ hand'[w].chats = hand[w].chats
          /\ hand'[w].left = hand[w].left /\ hand'[w].put = hand[w].put
          /\ hand[w].at = "locking"
          /\ \A x \in Workers \ {w} : hand'[x] = hand[x]
      BY <1>0, <1>4 DEF LockChatRow, Hands
    <2>2. /\ hand[w].put = {} /\ hand[w].left = hand[w].chats \X Participants
          /\ hand[w].key \in Keys
      BY <1>0, <2>1 DEF HandsOK, HandOK
    <2>3. HandOK(w)'
      BY <2>1, <2>2 DEF HandOK
    <2> QED BY <1>1, <2>1, <2>3 DEF HandsOK
  <1>5. ASSUME NEW w \in Workers, NEW c \in Chats, NEW u \in Participants, InsertKey(w, c, u)
        PROVE  HandsOK'
    <2>1. /\ hand'[w].at = "inserting" /\ hand[w].at = "inserting"
          /\ hand'[w].key = hand[w].key /\ hand'[w].chats = hand[w].chats
          /\ hand'[w].left = hand[w].left \ {<<c, u>>}
          /\ hand'[w].put = IF row[c][u] = NoKey THEN hand[w].put \cup {<<c, u>>} ELSE hand[w].put
          /\ \A x \in Workers \ {w} : hand'[x] = hand[x]
          /\ row' = row /\ <<c, u>> \in hand[w].left
      BY <1>0, <1>5 DEF InsertKey, Hands
    <2>2. HandOK(w)
      BY <1>0 DEF HandsOK
    <2>3. c \in hand[w].chats
      BY <2>1, <2>2 DEF HandOK
    <2>4. ASSUME NEW d \in Chats, NEW v \in Participants
          PROVE  <<d, v>> \in hand'[w].put <=> /\ d \in hand'[w].chats
                                               /\ <<d, v>> \notin hand'[w].left
                                               /\ row'[d][v] = NoKey
      <3>1. <<d, v>> \in hand[w].put <=> /\ d \in hand[w].chats
                                         /\ <<d, v>> \notin hand[w].left
                                         /\ row[d][v] = NoKey
        BY <2>1, <2>2 DEF HandOK
      <3>2. CASE <<d, v>> = <<c, u>>
        BY <2>1, <2>3, <3>1, <3>2
      <3>3. CASE <<d, v>> # <<c, u>>
        BY <2>1, <3>1, <3>3
      <3> QED BY <3>2, <3>3
    <2>5. HandOK(w)'
      BY <2>1, <2>2, <2>4 DEF HandOK
    <2> QED BY <1>1, <2>1, <2>5 DEF HandsOK
  <1>6. ASSUME NEW w \in Workers, Commit(w) \/ Rollback(w) PROVE HandsOK'
    BY <1>2, <1>6 DEF Commit, Rollback
  <1>7. ASSUME NEW c \in Chats, NEW u \in Participants, GetChatKey(u, c) \/ RekeyChat(u, c)
        PROVE  HandsOK'
    BY <1>1, <1>7 DEF GetChatKey, RekeyChat, HandsOK
  <1> QED BY <1>3, <1>4, <1>5, <1>6, <1>7 DEF StoreNext

\* No step changes a copy that is there, or gives one chat two keys.
LEMMA RowStep ==
    ASSUME IInv, StoreNext
    PROVE  \/ row' = row
           \/ \E w \in Workers : Commit(w)
  <1>1. ASSUME NEW x \in Workers,
               \/ \E C \in SUBSET Chats, k \in Keys : StoreChatKeys(x, C, k)
               \/ \E d \in Chats : LockChatRow(x, d)
               \/ \E d \in Chats, v \in Participants : InsertKey(x, d, v)
               \/ Rollback(x)
        PROVE  row' = row
    BY <1>1 DEF StoreChatKeys, LockChatRow, InsertKey, Rollback
  <1>2. ASSUME NEW d \in Chats, NEW v \in Participants, GetChatKey(v, d) \/ RekeyChat(v, d)
        PROVE  row' = row
    BY <1>2, RekeyIsIdle DEF GetChatKey
  <1> QED BY <1>1, <1>2 DEF StoreNext

LEMMA OneKeyStep ==
    ASSUME IInv, StoreNext
    PROVE  OneKey'
  <1>1. CASE row' = row
    BY <1>1 DEF IInv, OneKey
  <1>2. ASSUME NEW w \in Workers, Commit(w), NEW c \in Chats
        PROVE  \E k \in Keys \cup {NoKey} : \A u \in Participants : row'[c][u] = k
    <2>1. PICK k \in Keys \cup {NoKey} : \A u \in Participants : row[c][u] = k
      BY DEF IInv, OneKey
    <2>2. hand[w].key \in Keys
      BY <1>2 DEF IInv, HandsOK, HandOK, Commit
    <2>3. CASE c \in hand[w].chats /\ k = NoKey
      BY <1>2, <2>1, <2>2, <2>3, CommitFills
    <2>4. CASE ~(c \in hand[w].chats /\ k = NoKey)
      BY <1>2, <2>1, <2>4, CommitFills
    <2> QED BY <2>3, <2>4
  <1> QED BY <1>1, <1>2, RowStep DEF OneKey

LEMMA KnownStep ==
    ASSUME IInv, StoreNext
    PROVE  KnownIsStored'
  <1>0. row \in Copies /\ known \in Copies /\ KnownIsStored
    BY DEF IInv, StoreTypeOK, Copies
  <1>1. ASSUME NEW w \in Workers, Commit(w), NEW c \in Chats, NEW u \in Participants
        PROVE  known'[c][u] \in {NoKey, row'[c][u]}
    BY <1>0, <1>1, CommitFills DEF Commit, KnownIsStored
  <1>2. ASSUME NEW x \in Workers,
               \/ \E C \in SUBSET Chats, k \in Keys : StoreChatKeys(x, C, k)
               \/ \E d \in Chats : LockChatRow(x, d)
               \/ \E d \in Chats, v \in Participants : InsertKey(x, d, v)
               \/ Rollback(x)
        PROVE  row' = row /\ known' = known
    BY <1>2 DEF StoreChatKeys, LockChatRow, InsertKey, Rollback
  <1>3. ASSUME NEW d \in Chats, NEW v \in Participants, GetChatKey(v, d) \/ RekeyChat(v, d),
               NEW c \in Chats, NEW u \in Participants
        PROVE  known'[c][u] \in {NoKey, row'[c][u]}
    <2>1. row' = row /\ (known' = known \/ known' = [known EXCEPT ![d][v] = row[d][v]])
      BY <1>3, RekeyIsIdle DEF GetChatKey, RekeyChat
    <2>2. known'[c][u] \in {known[c][u], row[c][u]}
      BY <1>0, <2>1 DEF Copies
    <2> QED BY <1>0, <2>1, <2>2 DEF KnownIsStored
  <1> QED BY <1>0, <1>1, <1>2, <1>3 DEF StoreNext, KnownIsStored

\* The invariant holds in every reachable state.
THEOREM Invariant == StoreSpec => []IInv
  <1>1. StoreInit => IInv
    BY InitIInv
  <1>2. ASSUME IInv, StoreNext PROVE IInv'
    BY <1>2, TypeStep, HandsStep, OneKeyStep, KnownStep DEF IInv
  <1>3. ASSUME IInv, UNCHANGED storeVars PROVE IInv'
    BY <1>3 DEF storeVars, IInv, StoreTypeOK, Held, Wanted, HandsOK, HandOK, OneKey, KnownIsStored
  <1>4. IInv /\ [StoreNext]_storeVars => IInv'
    BY <1>2, <1>3
  <1> QED BY <1>1, <1>4, PTL DEF StoreSpec

-----------------------------------------------------------------------------
(* The properties *)

\* Type correctness for every set of chats, participants and batches: a batch that
\* inserts holds the locks of all its chats.
THEOREM TypeCorrect == StoreSpec => []StoreTypeOK
  <1>1. IInv => StoreTypeOK
    BY DEF IInv
  <1> QED BY <1>1, Invariant, PTL

\* A chat has one key, for everybody or for nobody, however the batches interleave
\* and wherever they are rolled back.
THEOREM OneKeyForAll == StoreSpec => []OneKey
  <1>1. IInv => OneKey
    BY DEF IInv
  <1> QED BY <1>1, Invariant, PTL

\* The key of a chat can be read off any copy.
LEMMA ChosenIsCopy ==
    OneKey => \A c \in Chats, u \in Participants : Chosen[c] = row[c][u]
  <1> SUFFICES ASSUME OneKey, NEW c \in Chats
               PROVE  \A u \in Participants : Chosen[c] = row[c][u]
    OBVIOUS
  <1>1. PICK k \in Keys \cup {NoKey} : \A u \in Participants : row[c][u] = k
    BY DEF OneKey
  <1>2. CASE Participants = {}
    BY <1>2 DEF Chosen
  <1>3. CASE Participants # {} /\ k = NoKey
    BY <1>1, <1>3 DEF Chosen
  <1>4. CASE Participants # {} /\ k # NoKey
    <2>1. \E u \in Participants : row[c][u] # NoKey
      BY <1>1, <1>4
    <2>2. (CHOOSE u \in Participants : row[c][u] # NoKey) \in Participants
      BY <2>1
    <2>3. Chosen[c] = row[c][CHOOSE u \in Participants : row[c][u] # NoKey]
      BY <2>1 DEF Chosen
    <2> QED BY <1>1, <1>4, <2>2, <2>3
  <1> QED BY <1>2, <1>3, <1>4

LEMMA ChosenIsCopyNext ==
    OneKey' => (\A c \in Chats, u \in Participants : Chosen[c] = row[c][u])'
  BY ChosenIsCopy, PTL

LEMMA CommitChooses ==
    ASSUME IInv, IInv', NEW w \in Workers, Commit(w)
    PROVE  Agreement!Next \/ UNCHANGED <<Chosen, known>>
  <1> DEFINE C == {c \in Chats : c \in hand[w].chats /\ Chosen[c] = NoKey}
             k == hand[w].key
  <1>1. k \in Keys /\ known' = known /\ OneKey /\ OneKey'
    BY DEF Commit, IInv, HandsOK, HandOK
  <1>2. CASE Participants = {}
    <2>1. \A c \in Chats : Chosen[c] = NoKey /\ Chosen'[c] = NoKey
      BY <1>2 DEF Chosen
    <2>2. Chosen' = Chosen
      BY <2>1 DEF Chosen
    <2> QED BY <1>1, <2>2
  <1>3. CASE Participants # {}
    <2> PICK u \in Participants : TRUE
      BY <1>3
    <2>1. \A c \in Chats : Chosen[c] = row[c][u]
      BY <1>1, ChosenIsCopy
    <2>2. \A c \in Chats : Chosen'[c] = row'[c][u]
      BY <1>1, ChosenIsCopyNext
    <2>3. \A c \in Chats : Chosen'[c] = IF c \in C THEN k ELSE Chosen[c]
      BY <2>1, <2>2, CommitFills
    <2>4. Chosen' = [c \in Chats |-> IF c \in C THEN k ELSE Chosen[c]]
      BY <2>3 DEF Chosen
    <2>5. Agreement!Choose(C, k)
      BY <1>1, <2>4 DEF Agreement!Choose
    <2>6. C \in SUBSET Chats
      OBVIOUS
    <2> QED BY <1>1, <2>5, <2>6 DEF Agreement!Next
  <1> QED BY <1>2, <1>3

\* The store implements the agreement for every set of chats, participants and
\* batches: a commit chooses the keys of the chats it fills, a read makes one known.
THEOREM ImplementsAgreement == StoreSpec => KeySpec
  <1>1. StoreInit => Agreement!Init
    BY DEF StoreInit, Agreement!Init, Chosen
  <1>2. ASSUME IInv, IInv', [StoreNext]_storeVars
        PROVE  [Agreement!Next]_<<Chosen, known>>
    <2>1. ASSUME NEW w \in Workers, Commit(w) PROVE [Agreement!Next]_<<Chosen, known>>
      BY <1>2, <2>1, CommitChooses
    <2>2. CASE row' = row /\ known' = known
      BY <2>2 DEF Chosen
    <2>3. ASSUME NEW x \in Workers,
                 \/ \E C \in SUBSET Chats, k \in Keys : StoreChatKeys(x, C, k)
                 \/ \E d \in Chats : LockChatRow(x, d)
                 \/ \E d \in Chats, v \in Participants : InsertKey(x, d, v)
                 \/ Rollback(x)
          PROVE  row' = row /\ known' = known
      BY <2>3 DEF StoreChatKeys, LockChatRow, InsertKey, Rollback
    <2>4. ASSUME NEW c \in Chats, NEW u \in Participants, RekeyChat(u, c)
          PROVE  row' = row /\ known' = known
      BY <1>2, <2>4, RekeyIsIdle DEF RekeyChat
    <2>5. ASSUME NEW c \in Chats, NEW u \in Participants, GetChatKey(u, c)
          PROVE  [Agreement!Next]_<<Chosen, known>>
      <3>1. Chosen[c] = row[c][u] /\ Chosen' = Chosen
        BY <1>2, <2>5, ChosenIsCopy DEF IInv, GetChatKey, Chosen
      <3>2. Agreement!Learn(c, u)
        BY <2>5, <3>1 DEF GetChatKey, Agreement!Learn
      <3> QED BY <3>2 DEF Agreement!Next
    <2> HIDE DEF StoreNext
    <2>6. CASE StoreNext
      BY <2>1, <2>2, <2>3, <2>4, <2>5, <2>6 DEF StoreNext
    <2>7. CASE UNCHANGED storeVars
      BY <2>2, <2>7 DEF storeVars
    <2> QED BY <1>2, <2>6, <2>7
  <1> QED BY <1>1, <1>2, Invariant, PTL DEF StoreSpec, KeySpec, Agreement!KeySpec

-----------------------------------------------------------------------------
(* The history of a chat (ChatHistory) *)

\* The statements about a stored message.
OnMessage == {"announce", "delete", "findOldest", "unpinOldest", "recount", "insertPin",
              "createRead", "updateRead"}

FlagsType == [forSender : BOOLEAN, forReceiver : BOOLEAN,
              recalled : BOOLEAN, wasRecalled : BOOLEAN]

\* What a handler has read, by the statement it is at.
ReqOK(s) ==
    LET r == req[s] IN
    /\ r.msg \in Messages \cup {NoMessage}
    /\ r.op = "insert" => /\ r.msg \in Messages \ Stored
                          /\ r.data \in RowType /\ ~r.data.recalled
    /\ r.op \in OnMessage => r.msg \in Stored
    /\ r.op \in {"readHistory", "pushHistory"} => s \in room
    /\ r.op = "pushHistory" => r.data \subseteq Stored
    /\ r.op = "delete" => r.data \in FlagsType
    /\ r.op \in {"createRead", "updateRead"} => r.data \in 0..MaxTime

ReqsOK ==
    /\ req = [s \in Sockets |-> Step(req[s].op, req[s].msg, req[s].data)]
    /\ \A s \in Sockets : ReqOK(s)
    /\ \A s, t \in Sockets :
          At(s, "insert") /\ At(t, "insert") /\ req[s].msg = req[t].msg => s = t

ChatInv == TypeOK /\ ReqsOK

\* What a handler that moves on leaves in its socket and in the others.
LEMMA OneMoves ==
    ASSUME ReqsOK, NEW s \in Sockets, NEW step, Does(s, step)
    PROVE  req'[s] = step /\ \A t \in Sockets \ {s} : req'[t] = req[t]
  BY DEF ReqsOK, Does

\* A handler moves to a statement that it may be at; the rows under the other handlers
\* stay, and nobody stores the message that another handler is about to insert.
LEMMA ReqsMove ==
    ASSUME ReqsOK, NEW s \in Sockets, NEW op, NEW m \in Messages \cup {NoMessage}, NEW d,
           Does(s, Step(op, m, d)), Stored \subseteq Stored', room \subseteq room',
           op \in {"readHistory", "pushHistory"} => s \in room',
           \A t \in Sockets \ {s} : At(t, "insert") =>
              req[t].msg \notin Stored' /\ (op = "insert" => req[t].msg # m),
           op = "insert" => m \in Messages \ Stored' /\ d \in RowType /\ ~d.recalled,
           op \in OnMessage => m \in Stored',
           op = "pushHistory" => d \subseteq Stored',
           op = "delete" => d \in FlagsType,
           op \in {"createRead", "updateRead"} => d \in 0..MaxTime
    PROVE  ReqsOK'
  <1>1. req'[s] = Step(op, m, d) /\ \A t \in Sockets \ {s} : req'[t] = req[t]
    BY OneMoves
  <1>2. req' = [t \in Sockets |-> Step(req'[t].op, req'[t].msg, req'[t].data)]
    <2>1. req' = [t \in Sockets |-> IF t = s THEN Step(op, m, d) ELSE req[t]]
      BY DEF ReqsOK, Does
    <2>2. \A t \in Sockets : req[t] = Step(req[t].op, req[t].msg, req[t].data)
      BY DEF ReqsOK
    <2>3. Step(op, m, d).op = op /\ Step(op, m, d).msg = m /\ Step(op, m, d).data = d
      BY DEF Step
    <2>4. \A t \in Sockets : req'[t] = Step(req'[t].op, req'[t].msg, req'[t].data)
      BY <1>1, <2>2, <2>3
    <2> QED BY <2>1, <2>4
  <1>3. ReqOK(s)'
    BY <1>1 DEF ReqOK, Step
  <1>4. ASSUME NEW t \in Sockets \ {s}
        PROVE  ReqOK(t)'
    <2>1. ReqOK(t) /\ req'[t] = req[t]
      BY <1>1 DEF ReqsOK
    <2> QED BY <2>1 DEF ReqOK, At, OnMessage, RowType, FlagsType
  <1>5. ASSUME NEW t \in Sockets, NEW x \in Sockets,
               At(t, "insert")', At(x, "insert")', req'[t].msg = req'[x].msg
        PROVE  t = x
    <2>1. CASE t = s /\ x = s
      BY <2>1
    <2>2. CASE t # s /\ x = s
      BY <1>1, <1>5, <2>2 DEF At, Step
    <2>3. CASE t = s /\ x # s
      BY <1>1, <1>5, <2>3 DEF At, Step
    <2>4. CASE t # s /\ x # s
      BY <1>1, <1>5, <2>4 DEF ReqsOK, At
    <2> QED BY <2>1, <2>2, <2>3, <2>4
  <1> QED BY <1>2, <1>3, <1>4, <1>5 DEF ReqsOK

\* A handler that returns leaves nothing behind.
LEMMA ReqsDone ==
    ASSUME ReqsOK, NEW s \in Sockets, Done(s), Stored \subseteq Stored', room \subseteq room',
           \A t \in Sockets \ {s} : At(t, "insert") => req[t].msg \notin Stored'
    PROVE  ReqsOK'
  BY ReqsMove DEF Done, Idle, OnMessage

\* The rest of the state of a step that leaves the tables of messages and pins alone.
LEMMA QuietTables ==
    ASSUME ChatInv, UNCHANGED <<now, rows, pins, read, told, silent, crossed>>, room' \subseteq Sockets,
           loaded' \subseteq room', events' \in 0..MaxEvents, ReqsOK'
    PROVE  ChatInv'
  <1>1. \A s \in Sockets : req'[s].msg \in Messages \cup {NoMessage}
    BY DEF ReqsOK, ReqOK
  <1> QED BY <1>1 DEF ChatInv, TypeOK, Stored, RowType

\* Who is kept without a message is kept without a stored one.
LEMMA KeepTyped ==
    ASSUME TypeOK, NEW m \in Stored', Stored \subseteq Stored', Keep(m)
    PROVE  silent' \in [Sockets -> SUBSET Stored']
  <1>1. silent \in [Sockets -> SUBSET Stored]
    BY DEF TypeOK
  <1>2. silent' = [s \in Sockets |-> IF HasRead(s) /\ m \notin told[s]
                                     THEN silent[s] \cup {m} ELSE silent[s]]
    BY DEF Keep
  <1> HIDE DEF HasRead
  <1> QED BY <1>1, <1>2

\* The tables that the process finds are typed and no handler runs.
LEMMA HInit == ASSUME Init PROVE ChatInv
  <1>1. \A u, t : Row(u, t).at = t /\ Row(u, t).sender = u
    BY DEF Row
  <1>2. Stored = Old /\ \A m \in Old : rows[m] \in RowType
    BY ChatAssumption DEF Init, Stored, Row, RowType
  <1>3. \A s \in Sockets : req[s] = Step("idle", NoMessage, NoMessage)
    BY DEF Init, Idle
  <1>4. ReqsOK
    BY <1>3 DEF Init, Idle, ReqsOK, ReqOK, Step, OnMessage, At
  <1>5. TypeOK
    BY <1>2, <1>3, ChatAssumption DEF Init, TypeOK, Step, Unread
  <1> QED BY <1>4, <1>5 DEF ChatInv

\* The events that only start a handler.
LEMMA StartOK ==
    ASSUME ChatInv, NEW s \in Sockets, events' \in 0..MaxEvents,
           \/ JoinChat(s)
           \/ \E m \in Messages :
                 \/ SendMessage(s, m) \/ Recall(s, m) \/ DeleteForMe(s, m)
                 \/ PinMessage(s, m) \/ MarkMessageRead(s, m)
    PROVE  ChatInv'
  <1>0. TypeOK /\ ReqsOK /\ MaxTime \in Nat
    BY ChatAssumption DEF ChatInv
  <1>f. UNCHANGED <<now, rows, pins, read, told, silent, crossed>> /\ Stored' = Stored
        /\ loaded' = loaded
    BY DEF JoinChat, SendMessage, Recall, DeleteForMe, PinMessage, MarkMessageRead, Stored
  <1>o. \A t \in Sockets : At(t, "insert") => req[t].msg \notin Stored
    BY <1>0 DEF ReqsOK, ReqOK, At
  <1>1. CASE JoinChat(s)
    <2>1. Does(s, Step("readHistory", NoMessage, {})) /\ room' = room \cup {s}
      BY <1>1 DEF JoinChat
    <2>2. ReqsOK'
      BY <1>0, <1>f, <1>o, <2>1, ReqsMove DEF OnMessage
    <2> QED BY <1>0, <1>f, <2>1, <2>2, QuietTables DEF TypeOK
  <1>2. ASSUME NEW m \in Messages, SendMessage(s, m)
        PROVE  ChatInv'
    <2>1. /\ Does(s, Step("insert", m, Row(Owner[s], now))) /\ room' = room
          /\ m \notin Stored /\ m \notin InFlight
      BY <1>2 DEF SendMessage
    <2>2. Row(Owner[s], now) \in RowType /\ ~Row(Owner[s], now).recalled
      BY <1>0, ChatAssumption DEF Row, RowType, TypeOK
    <2>3. \A t \in Sockets : At(t, "insert") => req[t].msg # m
      BY <2>1 DEF InFlight
    <2>4. ReqsOK'
      BY <1>0, <1>f, <1>o, <2>1, <2>2, <2>3, ReqsMove DEF OnMessage
    <2> QED BY <1>0, <1>f, <2>1, <2>4, QuietTables DEF TypeOK
  <1>3. ASSUME NEW m \in Messages, Recall(s, m) \/ DeleteForMe(s, m)
        PROVE  ChatInv'
    <2>1. /\ m \in Stored /\ room' = room
          /\ \E b, c, d \in BOOLEAN : Does(s, Step("delete", m, Flags(m, b, c, d)))
      BY <1>3 DEF Recall, DeleteForMe, IsSender
    <2> PICK b \in BOOLEAN, c \in BOOLEAN, d \in BOOLEAN :
               Does(s, Step("delete", m, Flags(m, b, c, d)))
      BY <2>1
    <2>2. Flags(m, b, c, d) \in FlagsType
      BY <1>0, <2>1 DEF Flags, FlagsType, TypeOK, RowType
    <2>3. ReqsOK'
      BY <1>0, <1>f, <1>o, <2>1, <2>2, ReqsMove DEF OnMessage
    <2> QED BY <1>0, <1>f, <2>1, <2>3, QuietTables DEF TypeOK
  <1>4. ASSUME NEW m \in Messages, PinMessage(s, m)
        PROVE  ChatInv'
    <2>1. /\ m \in Stored /\ room' = room
          /\ \E op \in {"findOldest", "recount"} : Does(s, Step(op, m, NoMessage))
      BY <1>4 DEF PinMessage
    <2>2. ReqsOK'
      BY <1>0, <1>f, <1>o, <2>1, ReqsMove DEF OnMessage
    <2> QED BY <1>0, <1>f, <2>1, <2>2, QuietTables DEF TypeOK
  <1>5. ASSUME NEW m \in Messages, MarkMessageRead(s, m)
        PROVE  ChatInv'
    <2>1. /\ m \in Stored /\ room' = room /\ rows[m].at \in 0..MaxTime
          /\ \E op \in {"createRead", "updateRead"} : Does(s, Step(op, m, rows[m].at))
      BY <1>0, <1>5 DEF MarkMessageRead, TypeOK, RowType
    <2>2. ReqsOK'
      BY <1>0, <1>f, <1>o, <2>1, ReqsMove DEF OnMessage
    <2> QED BY <1>0, <1>f, <2>1, <2>2, QuietTables DEF TypeOK
  <1> QED BY <1>1, <1>2, <1>3, <1>4, <1>5

\* The statements that follow.
LEMMA ContinueOK ==
    ASSUME ChatInv, NEW s \in Sockets, Continue(s)
    PROVE  ChatInv'
  <1>0. TypeOK /\ ReqsOK /\ ReqOK(s) /\ MaxTime \in Nat /\ events' \in 0..MaxEvents
        /\ req[s].msg \in Messages \cup {NoMessage}
    BY ChatAssumption DEF ChatInv, Continue, TypeOK, ReqsOK
  <1>o. \A t \in Sockets : At(t, "insert") => req[t].msg \notin Stored
    BY <1>0 DEF ReqsOK, ReqOK, At
  <1>1. CASE GetMessagesHistory(s)
    <2>1. /\ Does(s, Step("pushHistory", NoMessage, Stored)) /\ Stored' = Stored
          /\ UNCHANGED <<now, rows, pins, read, room, loaded, told, silent, crossed>>
          /\ s \in room
      BY <1>0, <1>1 DEF GetMessagesHistory, Stored, ReqOK, At
    <2>2. ReqsOK'
      BY <1>0, <1>o, <2>1, ReqsMove DEF OnMessage
    <2> QED BY <1>0, <2>1, <2>2, QuietTables DEF TypeOK
  <1>2. CASE PushHistory(s)
    <2>1. /\ Done(s) /\ Stored' = Stored /\ loaded' = loaded \cup {s}
          /\ told' = [told EXCEPT ![s] = @ \cup req[s].data]
          /\ UNCHANGED <<now, rows, pins, read, room, silent, crossed>>
          /\ req[s].data \subseteq Stored
      BY <1>0, <1>2 DEF PushHistory, Stored, ReqOK, At
    <2>2. ReqsOK'
      BY <1>0, <1>o, <2>1, ReqsDone
    <2>3. told' \in [Sockets -> SUBSET Stored]
      BY <1>0, <2>1 DEF TypeOK
    <2>4. s \in room
      BY <1>0, <1>2 DEF PushHistory, ReqOK, At
    <2> QED BY <1>0, <2>1, <2>2, <2>3, <2>4 DEF ChatInv, TypeOK, ReqsOK, ReqOK, RowType
  <1>3. CASE CreateMessage(s)
    <2>1. /\ At(s, "insert") /\ Does(s, Step("announce", req[s].msg, NoMessage))
          /\ rows' = [m \in Stored \cup {req[s].msg} |->
                         IF m = req[s].msg THEN req[s].data ELSE rows[m]]
          /\ UNCHANGED <<now, pins, read, room, loaded, told, silent, crossed>>
      BY <1>3 DEF CreateMessage
    <2>2. /\ Stored' = Stored \cup {req[s].msg} /\ req[s].msg \in Messages
          /\ req[s].data \in RowType
      BY <1>0, <2>1 DEF Stored, ReqOK, At
    <2>3. \A t \in Sockets \ {s} : At(t, "insert") => req[t].msg \notin Stored'
      BY <1>0, <1>o, <2>1, <2>2 DEF ReqsOK
    <2>4. ReqsOK'
      BY <1>0, <2>1, <2>2, <2>3, ReqsMove DEF OnMessage
    <2>5. \A m \in Stored' : rows'[m] \in RowType
      BY <1>0, <2>1, <2>2 DEF TypeOK
    <2>6. \A t \in Sockets : req'[t].msg \in Messages \cup {NoMessage}
      BY <2>4 DEF ReqsOK, ReqOK
    <2>7. /\ told' \in [Sockets -> SUBSET Stored'] /\ silent' \in [Sockets -> SUBSET Stored']
          /\ crossed' \subseteq Stored'
          /\ \A p \in pins' : p.msg \in Stored' /\ p.at \in 0..MaxTime
      BY <1>0, <2>1, <2>2 DEF TypeOK
    <2> QED BY <1>0, <2>1, <2>2, <2>4, <2>5, <2>6, <2>7 DEF ChatInv, TypeOK, RowType
  <1>4. CASE Announce(s)
    <2>1. /\ Done(s) /\ Stored' = Stored /\ req[s].msg \in Stored
          /\ told' = [t \in Sockets |-> IF t \in room THEN told[t] \cup {req[s].msg} ELSE told[t]]
          /\ UNCHANGED <<now, rows, pins, read, room, loaded, silent, crossed>>
      BY <1>0, <1>4 DEF Announce, AnnounceFails, Stored, ReqOK, At, OnMessage
    <2>2. ReqsOK'
      BY <1>0, <1>o, <2>1, ReqsDone
    <2>3. told' \in [Sockets -> SUBSET Stored]
      BY <1>0, <2>1 DEF TypeOK
    <2> QED BY <1>0, <2>1, <2>2, <2>3 DEF ChatInv, TypeOK, ReqsOK, ReqOK, RowType
  <1>5. CASE UpdateMessageDeleteStatus(s)
    <2> DEFINE m == req[s].msg
               d == req[s].data
    <2>1. /\ Done(s)
          /\ rows' = [rows EXCEPT ![m] = [rows[m] EXCEPT !.forSender = d.forSender,
                                                         !.forReceiver = d.forReceiver,
                                                         !.recalled = @ \/ d.recalled]]
          /\ m \in Stored /\ d \in FlagsType /\ crossed' \subseteq crossed \cup {m}
          /\ UNCHANGED <<now, pins, read, room, loaded, told, silent>>
      BY <1>0, <1>5 DEF UpdateMessageDeleteStatus, ReqOK, At, OnMessage, Stored
    <2>2. Stored' = Stored
      BY <2>1 DEF Stored
    <2>3. [rows[m] EXCEPT !.forSender = d.forSender, !.forReceiver = d.forReceiver,
                          !.recalled = @ \/ d.recalled] \in RowType
      BY <1>0, <2>1 DEF TypeOK, RowType, FlagsType
    <2>4. \A k \in Stored : rows'[k] \in RowType
      BY <1>0, <2>1, <2>3 DEF TypeOK, Stored
    <2>5. ReqsOK'
      BY <1>0, <1>o, <2>1, <2>2, ReqsDone
    <2>6. crossed' \subseteq Stored'
      BY <1>0, <2>1, <2>2 DEF TypeOK
    <2> HIDE DEF m, d
    <2> QED BY <1>0, <2>1, <2>2, <2>4, <2>5, <2>6 DEF ChatInv, TypeOK, ReqsOK, ReqOK, RowType
  <1>6. CASE FindOldestPin(s) \/ CountPins(s)
    <2>1. /\ \/ Done(s)
             \/ \E op \in {"recount", "unpinOldest", "insertPin"} : \E d :
                   Does(s, Step(op, req[s].msg, d))
          /\ req[s].msg \in Stored /\ Stored' = Stored
          /\ UNCHANGED <<now, rows, pins, read, room, loaded, told, silent, crossed>>
      <3>1. req[s].msg \in Stored /\ Stored' = Stored
        BY <1>0, <1>6 DEF FindOldestPin, CountPins, ReqOK, At, OnMessage, Stored
      <3>2. CASE FindOldestPin(s)
        BY <3>1, <3>2 DEF FindOldestPin
      <3>3. CASE CountPins(s)
        BY <3>1, <3>3 DEF CountPins
      <3> QED BY <1>6, <3>1, <3>2, <3>3
    <2>2. ReqsOK'
      BY <1>0, <1>o, <2>1, ReqsMove, ReqsDone DEF OnMessage
    <2> QED BY <1>0, <2>1, <2>2, QuietTables DEF TypeOK
  <1>7. CASE AutoUnpinOldest(s)
    <2>1. /\ Does(s, Step("recount", req[s].msg, NoMessage))
          /\ req[s].msg \in Stored /\ Stored' = Stored
          /\ pins' \subseteq pins
          /\ UNCHANGED <<now, rows, read, room, loaded, told, silent, crossed>>
      BY <1>0, <1>7 DEF AutoUnpinOldest, ReqOK, At, OnMessage, Stored
    <2>2. ReqsOK'
      BY <1>0, <1>o, <2>1, ReqsMove DEF OnMessage
    <2> QED BY <1>0, <2>1, <2>2 DEF ChatInv, TypeOK, ReqsOK, ReqOK, RowType
  <1>8. CASE CreatePin(s)
    <2>1. /\ Done(s) /\ req[s].msg \in Stored /\ Stored' = Stored
          /\ pins' = pins \/ pins' = pins \cup {[id |-> FreshPin, msg |-> req[s].msg, at |-> now]}
          /\ UNCHANGED <<now, rows, read, room, loaded, told, silent, crossed>>
      BY <1>0, <1>8 DEF CreatePin, ReqOK, At, OnMessage, Stored
    <2>2. ReqsOK'
      BY <1>0, <1>o, <2>1, ReqsDone
    <2>3. \A p \in pins' : p.msg \in Stored /\ p.at \in 0..MaxTime
      BY <1>0, <2>1 DEF TypeOK
    <2> QED BY <1>0, <2>1, <2>2, <2>3 DEF ChatInv, TypeOK, ReqsOK, ReqOK, RowType
  <1>9. CASE UpsertChatRead(s)
    <2>1. /\ Done(s) /\ Stored' = Stored /\ req[s].data \in 0..MaxTime
          /\ read' = read \/ read' = [read EXCEPT ![Owner[s]] = req[s].data]
          /\ UNCHANGED <<now, rows, pins, room, loaded, told, silent, crossed>>
      BY <1>0, <1>9 DEF UpsertChatRead, ReqOK, Stored
    <2>2. ReqsOK'
      BY <1>0, <1>o, <2>1, ReqsDone
    <2>3. read' \in [Users -> {Unread} \cup 0..MaxTime]
      BY <1>0, <2>1 DEF TypeOK
    <2> QED BY <1>0, <2>1, <2>2, <2>3 DEF ChatInv, TypeOK, ReqsOK, ReqOK, RowType, Unread
  <1>10. CASE AnnounceFails(s)
    <2>1. /\ Done(s) /\ Stored' = Stored /\ req[s].msg \in Stored /\ Keep(req[s].msg)
          /\ UNCHANGED <<now, rows, pins, read, room, loaded, told, crossed>>
      BY <1>0, <1>10 DEF AnnounceFails, Stored, ReqOK, At, OnMessage
    <2>2. ReqsOK'
      BY <1>0, <1>o, <2>1, ReqsDone
    <2>3. silent' \in [Sockets -> SUBSET Stored]
      BY <1>0, <2>1, KeepTyped
    <2> QED BY <1>0, <2>1, <2>2, <2>3 DEF ChatInv, TypeOK, ReqsOK, ReqOK, RowType
  <1> QED BY <1>1, <1>2, <1>3, <1>4, <1>5, <1>6, <1>7, <1>8, <1>9, <1>10 DEF Continue

\* A row stored by a request over HTTP, of which no handler of a socket knows.
LEMMA QuietOK ==
    ASSUME ChatInv, NEW u \in Users, NEW m \in Messages, StoreQuietly(u, m)
    PROVE  ChatInv'
  <1>0. TypeOK /\ ReqsOK /\ MaxTime \in Nat /\ MaxEvents \in Nat
    BY ChatAssumption DEF ChatInv
  <1>1. PICK at \in 0..now :
            rows' = [k \in Stored \cup {m} |-> IF k = m THEN Row(u, at) ELSE rows[k]]
    BY DEF StoreQuietly
  <1>2. /\ Stored' = Stored \cup {m} /\ m \notin Stored /\ m \notin InFlight /\ Keep(m)
        /\ events' \in 0..MaxEvents
        /\ UNCHANGED <<now, pins, read, room, loaded, told, req, crossed>>
    BY <1>0, <1>1 DEF StoreQuietly, Stored, TypeOK
  <1>3. Row(u, at) \in RowType
    BY <1>0 DEF Row, RowType, TypeOK
  <1>4. \A k \in Stored' : rows'[k] \in RowType
    BY <1>0, <1>1, <1>2, <1>3 DEF TypeOK
  <1>5. silent' \in [Sockets -> SUBSET Stored']
    BY <1>0, <1>2, KeepTyped
  <1>6. \A t \in Sockets : At(t, "insert") => req[t].msg # m
    BY <1>2 DEF InFlight
  <1>7. ReqsOK'
    <2>1. ASSUME NEW t \in Sockets
          PROVE  ReqOK(t)'
      BY <1>0, <1>2, <1>6 DEF ReqsOK, ReqOK, At, OnMessage, RowType, FlagsType
    <2> QED BY <1>0, <1>2, <2>1 DEF ReqsOK, At
  <1>8. TypeOK'
    BY <1>0, <1>2, <1>4, <1>5 DEF TypeOK, RowType
  <1> QED BY <1>7, <1>8 DEF ChatInv

\* Every step keeps the types and what the handlers have read.
LEMMA HStep == ASSUME ChatInv, [Next]_vars PROVE ChatInv'
  <1>1. CASE UNCHANGED vars
    BY <1>1 DEF vars, ChatInv, TypeOK, ReqsOK, ReqOK, At, Stored, RowType, FlagsType
  <1>2. CASE Tick
    BY <1>2, ChatAssumption DEF Tick, ChatInv, TypeOK, ReqsOK, ReqOK, At, Stored, RowType, FlagsType
  <1>3. ASSUME NEW s \in Sockets, Event(s)
        PROVE  ChatInv'
    <2>1. events' \in 0..MaxEvents
      BY <1>3, ChatAssumption DEF Event, ChatInv, TypeOK
    <2>2. ASSUME NEW m \in Messages, UnpinMessage(s, m)
          PROVE  ChatInv'
      <3>1. /\ pins' \subseteq pins /\ Stored' = Stored
            /\ UNCHANGED <<now, rows, read, room, loaded, told, silent, req, crossed>>
        BY <2>2 DEF UnpinMessage, Stored
      <3>2. ReqsOK'
        BY <3>1 DEF ChatInv, ReqsOK, ReqOK, At, RowType, FlagsType
      <3> QED BY <2>1, <3>1, <3>2 DEF ChatInv, TypeOK, RowType
    <2> QED BY <1>3, <2>1, <2>2, StartOK DEF Event
  <1>4. ASSUME NEW s \in Sockets, Continue(s)
        PROVE  ChatInv'
    BY <1>4, ContinueOK
  <1> QED BY <1>1, <1>2, <1>3, <1>4, QuietOK DEF Next

-----------------------------------------------------------------------------
(* Joining: the history and the messages of the room *)

\* Socket s has been sent message m, is about to be, or nobody will send it.
Heard(s, m) == \/ m \in told[s] \cup silent[s]
               \/ \E t \in Sockets : At(t, "announce") /\ req[t].msg = m

\* What a joining socket will be sent, and what a joined one was sent, is all there is.
JoinOK ==
    \A s \in Sockets :
        /\ \A m \in Stored : At(s, "pushHistory") => m \in req[s].data \/ Heard(s, m)
        /\ \A m \in Stored : s \in loaded => Heard(s, m)

\* One handler moves in a step, or none.
LEMMA WhoMoves ==
    ASSUME [Next]_vars
    PROVE  \/ req' = req
           \/ \E s \in Sockets : (Event(s) \/ Continue(s)) /\ \E step : Does(s, step)
  <1>1. ASSUME NEW s \in Sockets, Event(s)
        PROVE  req' = req \/ \E step : Does(s, step)
    BY <1>1 DEF Event, JoinChat, SendMessage, Recall, DeleteForMe, PinMessage,
         UnpinMessage, MarkMessageRead
  <1>2. ASSUME NEW s \in Sockets, Continue(s)
        PROVE  req' = req \/ \E step : Does(s, step)
    BY <1>2 DEF Continue, GetMessagesHistory, PushHistory, CreateMessage, Announce, AnnounceFails,
         UpdateMessageDeleteStatus, FindOldestPin, AutoUnpinOldest, CountPins,
         CreatePin, UpsertChatRead, Done
  <1>3. ASSUME Tick \/ UNCHANGED vars \/ \E u \in Users, m \in Messages : StoreQuietly(u, m)
        PROVE  req' = req
    BY <1>3 DEF Tick, vars, StoreQuietly
  <1> QED BY <1>1, <1>2, <1>3 DEF Next

\* What is stored, joined or sent remains so.
LEMMA ChatGrows ==
    ASSUME ChatInv, [Next]_vars
    PROVE  /\ Stored \subseteq Stored' /\ room \subseteq room'
           /\ \A s \in Sockets : told[s] \subseteq told'[s] /\ silent[s] \subseteq silent'[s]
  <1>0. told \in [Sockets -> SUBSET Stored]
    BY DEF ChatInv, TypeOK
  <1>k. \A m : Keep(m) => \A s \in Sockets : silent[s] \subseteq silent'[s]
    BY DEF Keep
  <1>1. ASSUME NEW s \in Sockets, Event(s)
        PROVE  rows' = rows /\ room \subseteq room' /\ told' = told /\ silent' = silent
    BY <1>1 DEF Event, JoinChat, SendMessage, Recall, DeleteForMe, PinMessage,
         UnpinMessage, MarkMessageRead
  <1>2. ASSUME NEW s \in Sockets, Continue(s)
        PROVE  /\ Stored \subseteq Stored' /\ room' = room
               /\ \A t \in Sockets : told[t] \subseteq told'[t] /\ silent[t] \subseteq silent'[t]
    <2>1. CASE CreateMessage(s)
      BY <2>1 DEF CreateMessage, Stored
    <2>2. CASE PushHistory(s)
      BY <1>0, <2>2 DEF PushHistory, Stored
    <2>3. CASE Announce(s)
      BY <1>0, <2>3 DEF Announce, AnnounceFails, Stored
    <2>4. CASE UpdateMessageDeleteStatus(s)
      BY <2>4 DEF UpdateMessageDeleteStatus, Stored
    <2>5. CASE \/ GetMessagesHistory(s) \/ FindOldestPin(s) \/ AutoUnpinOldest(s)
               \/ CountPins(s) \/ CreatePin(s) \/ UpsertChatRead(s)
      BY <2>5 DEF GetMessagesHistory, FindOldestPin, AutoUnpinOldest, CountPins,
           CreatePin, UpsertChatRead, Stored
    <2>6. CASE AnnounceFails(s)
      BY <1>k, <2>6 DEF AnnounceFails, Stored
    <2> QED BY <1>2, <2>1, <2>2, <2>3, <2>4, <2>5, <2>6 DEF Continue
  <1>3. ASSUME Tick \/ UNCHANGED vars
        PROVE  rows' = rows /\ room' = room /\ told' = told /\ silent' = silent
    BY <1>3 DEF Tick, vars
  <1>4. ASSUME NEW u \in Users, NEW m \in Messages, StoreQuietly(u, m)
        PROVE  /\ Stored \subseteq Stored' /\ room' = room /\ told' = told
               /\ \A t \in Sockets : silent[t] \subseteq silent'[t]
    BY <1>4, <1>k DEF StoreQuietly, Stored
  <1> QED BY <1>1, <1>2, <1>3, <1>4 DEF Next, Stored

\* A message is stored by a handler that announces it next, or every socket that has
\* read the history is kept without it.
LEMMA NewIsAnnounced ==
    ASSUME ChatInv, [Next]_vars, NEW m \in Stored' \ Stored
    PROVE  \/ \E t \in Sockets : At(t, "announce")' /\ req'[t].msg = m
           \/ UNCHANGED <<req, loaded>> /\ \A s \in Sockets : HasRead(s) => m \in silent'[s]
  <1>a. ASSUME NEW u \in Users, NEW k \in Messages, StoreQuietly(u, k)
        PROVE  UNCHANGED <<req, loaded>> /\ \A s \in Sockets : HasRead(s) => m \in silent'[s]
    <2>1. Stored' = Stored \cup {k} /\ Keep(k) /\ UNCHANGED <<req, loaded>>
      BY <1>a DEF StoreQuietly, Stored
    <2>2. k = m /\ \A s \in Sockets : m \notin told[s]
      BY <2>1 DEF ChatInv, TypeOK
    <2> QED BY <2>1, <2>2 DEF Keep
  <1> SUFFICES ASSUME ~\E u \in Users, k \in Messages : StoreQuietly(u, k)
               PROVE  \E t \in Sockets : At(t, "announce")' /\ req'[t].msg = m
    BY <1>a
  <1>1. \E t \in Sockets : CreateMessage(t)
    <2>1. ASSUME NEW s \in Sockets, Event(s)
          PROVE  rows' = rows
      BY <2>1 DEF Event, JoinChat, SendMessage, Recall, DeleteForMe, PinMessage,
           UnpinMessage, MarkMessageRead
    <2>2. ASSUME NEW s \in Sockets, Continue(s), ~CreateMessage(s)
          PROVE  Stored' = Stored
      BY <2>2 DEF Continue, GetMessagesHistory, PushHistory, Announce, AnnounceFails,
           UpdateMessageDeleteStatus, FindOldestPin, AutoUnpinOldest, CountPins,
           CreatePin, UpsertChatRead, Stored
    <2>3. ASSUME Tick \/ UNCHANGED vars
          PROVE  rows' = rows
      BY <2>3 DEF Tick, vars
    <2> QED BY <2>1, <2>2, <2>3 DEF Next, Stored
  <1> PICK t \in Sockets : CreateMessage(t)
    BY <1>1
  <1>2. /\ Stored' = Stored \cup {req[t].msg}
        /\ Does(t, Step("announce", req[t].msg, NoMessage))
    BY DEF CreateMessage, Stored
  <1>3. req'[t] = Step("announce", req[t].msg, NoMessage)
    BY <1>2, OneMoves DEF ChatInv
  <1> QED BY <1>2, <1>3 DEF At, Step

\* What a socket that has read the history has heard, or is about to hear, stays so.
LEMMA HeardStays ==
    ASSUME ChatInv, [Next]_vars, NEW s \in room, HasRead(s), NEW m \in Stored, Heard(s, m)
    PROVE  Heard(s, m)'
  <1>0. s \in Sockets /\ ReqsOK /\ told \in [Sockets -> SUBSET Stored]
    BY DEF ChatInv, TypeOK
  <1>1. CASE m \in told[s] \cup silent[s]
    BY <1>0, <1>1, ChatGrows DEF Heard
  <1>2. ASSUME NEW t \in Sockets, At(t, "announce"), req[t].msg = m
        PROVE  Heard(s, m)'
    <2>1. CASE req'[t] = req[t]
      BY <1>2, <2>1 DEF Heard, At
    <2>2. CASE req'[t] # req[t]
      <3>1. Event(t) \/ Continue(t)
        BY <1>0, <2>2, WhoMoves, OneMoves
      <3>2. Announce(t) \/ AnnounceFails(t)
        BY <1>2, <2>2, <3>1 DEF At, Event, JoinChat, SendMessage, Recall,
             DeleteForMe, PinMessage, UnpinMessage, MarkMessageRead, Continue,
             GetMessagesHistory, PushHistory, CreateMessage, UpdateMessageDeleteStatus,
             FindOldestPin, AutoUnpinOldest, CountPins, CreatePin, UpsertChatRead
      <3>3. CASE Announce(t)
        BY <1>0, <1>2, <3>3 DEF Announce, Heard
      <3>4. CASE AnnounceFails(t)
        <4>1. Keep(m) /\ told' = told
          BY <1>2, <3>4 DEF AnnounceFails
        <4>2. m \in told'[s] \/ m \in silent'[s]
          BY <1>0, <4>1 DEF Keep
        <4> QED BY <4>2 DEF Heard
      <3> QED BY <3>2, <3>3, <3>4
    <2> QED BY <2>1, <2>2
  <1> QED BY <1>1, <1>2 DEF Heard

\* A message stored while a socket joins is in the history it reads or is announced to it,
\* unless nobody announces it.
LEMMA JoinStep ==
    ASSUME ChatInv, JoinOK, [Next]_vars
    PROVE  JoinOK'
  <1> SUFFICES ASSUME NEW s \in Sockets, NEW m \in Stored'
               PROVE  /\ At(s, "pushHistory")' => m \in req'[s].data \/ Heard(s, m)'
                      /\ s \in loaded' => Heard(s, m)'
    BY DEF JoinOK
  <1>0. ReqsOK /\ ReqOK(s) /\ loaded \subseteq room /\ told \in [Sockets -> SUBSET Stored]
    BY DEF ChatInv, TypeOK, ReqsOK
  <1>1. CASE m \notin Stored
    BY <1>1, NewIsAnnounced DEF Heard, HasRead, At
  <1>2. ASSUME m \in Stored, s \in loaded'
        PROVE  Heard(s, m)'
    <2>1. CASE s \in loaded
      BY <1>0, <1>2, <2>1, HeardStays DEF JoinOK, HasRead
    <2>2. CASE s \notin loaded
      <3>1. PushHistory(s)
        <4>1. ASSUME NEW t \in Sockets, Event(t)
              PROVE  loaded' = loaded
          BY <4>1 DEF Event, JoinChat, SendMessage, Recall, DeleteForMe, PinMessage,
               UnpinMessage, MarkMessageRead
        <4>2. ASSUME NEW t \in Sockets, Continue(t)
              PROVE  PushHistory(t) \/ loaded' = loaded
          BY <4>2 DEF Continue, GetMessagesHistory, CreateMessage, Announce, AnnounceFails,
               UpdateMessageDeleteStatus, FindOldestPin, AutoUnpinOldest, CountPins,
               CreatePin, UpsertChatRead
        <4>3. ASSUME Tick \/ UNCHANGED vars \/ \E u \in Users, k \in Messages : StoreQuietly(u, k)
              PROVE  loaded' = loaded
          BY <4>3 DEF Tick, vars, StoreQuietly
        <4>4. \A t \in Sockets : PushHistory(t) => loaded' = loaded \cup {t}
          BY DEF PushHistory
        <4> QED BY <1>2, <2>2, <4>1, <4>2, <4>3, <4>4 DEF Next
      <3>2. At(s, "pushHistory") /\ s \in room /\ told'[s] = told[s] \cup req[s].data
        BY <1>0, <3>1 DEF PushHistory, ReqOK, At
      <3>3. m \in req[s].data \/ Heard(s, m)
        BY <1>2, <3>2 DEF JoinOK
      <3> QED BY <1>2, <3>2, <3>3, HeardStays DEF Heard, HasRead
    <2> QED BY <2>1, <2>2
  <1>3. ASSUME m \in Stored, At(s, "pushHistory")'
        PROVE  m \in req'[s].data \/ Heard(s, m)'
    <2>1. CASE req'[s] = req[s]
      <3>1. At(s, "pushHistory") /\ s \in room
        BY <1>0, <1>3, <2>1 DEF At, ReqOK
      <3> QED BY <1>3, <2>1, <3>1, HeardStays DEF JoinOK, HasRead
    <2>2. CASE req'[s] # req[s]
      <3>1. Event(s) \/ Continue(s)
        BY <1>0, <2>2, WhoMoves, OneMoves
      <3>2. \A step : Does(s, step) => step.op = "pushHistory"
        BY <1>0, <1>3, OneMoves DEF At
      <3>3. \A op, k, d : Does(s, Step(op, k, d)) => op = "pushHistory"
        BY <3>2 DEF Step
      <3>4. ~Done(s)
        BY <3>3 DEF Done, Idle
      <3>5. GetMessagesHistory(s)
        <4>1. ~Event(s)
          BY <2>2, <3>3 DEF Event, JoinChat, SendMessage, Recall, DeleteForMe,
               PinMessage, UnpinMessage, MarkMessageRead
        <4>2. Continue(s) => GetMessagesHistory(s)
          BY <3>3, <3>4 DEF Continue, PushHistory, CreateMessage, Announce, AnnounceFails,
               UpdateMessageDeleteStatus, FindOldestPin, AutoUnpinOldest, CountPins,
               CreatePin, UpsertChatRead
        <4> QED BY <3>1, <4>1, <4>2
      <3>6. req'[s] = Step("pushHistory", NoMessage, Stored)
        BY <1>0, <3>5, OneMoves DEF GetMessagesHistory
      <3> QED BY <1>3, <3>6 DEF Step
    <2> QED BY <2>1, <2>2
  <1> QED BY <1>1, <1>2, <1>3

-----------------------------------------------------------------------------
(* The limit of pins *)

\* The handlers that were counted below the limit and have not inserted yet.
Inserting == {s \in Sockets : At(s, "insertPin")}

\* Every such handler has its place in the count.
PinInv ==
    /\ IsFiniteSet(pins)
    /\ Cardinality(pins) + Cardinality(Inserting) <= MaxPinned + Cardinality(Sockets) - 1

\* The two facts that the pin count needs of a step.
LEMMA PinsShrink ==
    ASSUME PinInv, pins' \subseteq pins, Inserting' \subseteq Inserting
    PROVE  PinInv'
  <1>0. /\ IsFiniteSet(Sockets) /\ MaxPinned \in Nat /\ Inserting \subseteq Sockets
        /\ IsFiniteSet(pins)
        /\ Cardinality(pins) + Cardinality(Inserting) <= MaxPinned + Cardinality(Sockets) - 1
    BY ChatAssumption DEF PinInv, Inserting
  <1>1. IsFiniteSet(Inserting)
    BY <1>0, FS_Subset
  <1>2. IsFiniteSet(pins') /\ Cardinality(pins') <= Cardinality(pins)
    BY <1>0, FS_Subset
  <1>3. IsFiniteSet(Inserting') /\ Cardinality(Inserting') <= Cardinality(Inserting)
    BY <1>1, FS_Subset
  <1>4. /\ Cardinality(pins) \in Nat /\ Cardinality(Inserting) \in Nat /\ Cardinality(Sockets) \in Nat
        /\ Cardinality(pins') \in Nat /\ Cardinality(Inserting') \in Nat
    BY <1>0, <1>1, <1>2, <1>3, FS_CardinalityType
  <1> QED BY <1>0, <1>2, <1>3, <1>4 DEF PinInv

\* A handler that moves elsewhere does not come to insert a pin.
LEMMA NotInserting ==
    ASSUME ReqsOK, NEW s \in Sockets, NEW op, NEW m, NEW d, Does(s, Step(op, m, d)),
           op # "insertPin"
    PROVE  Inserting' = Inserting \ {s}
  BY OneMoves DEF Inserting, At, Step

\* A pin is inserted by a handler that was counted, and counted below the limit.
LEMMA PinStep ==
    ASSUME ChatInv, PinInv, [Next]_vars
    PROVE  PinInv'
  <1>0. /\ ReqsOK /\ IsFiniteSet(Sockets) /\ MaxPinned \in Nat \ {0}
        /\ IsFiniteSet(pins) /\ Inserting \subseteq Sockets
        /\ Cardinality(pins) + Cardinality(Inserting) <= MaxPinned + Cardinality(Sockets) - 1
    BY ChatAssumption DEF ChatInv, PinInv, Inserting
  <1>c. /\ IsFiniteSet(Inserting) /\ Cardinality(pins) \in Nat /\ Cardinality(Inserting) \in Nat
        /\ Cardinality(Sockets) \in Nat
    BY <1>0, FS_Subset, FS_CardinalityType
  <1>d. ASSUME NEW s \in Sockets, Done(s)
        PROVE  Inserting' = Inserting \ {s}
    BY <1>0, <1>d, NotInserting DEF Done, Idle
  <1>1. ASSUME NEW s \in Sockets, Event(s)
        PROVE  PinInv'
    <2>1. CASE \E m \in Messages : UnpinMessage(s, m)
      <3>1. pins' \subseteq pins /\ req' = req
        BY <2>1 DEF UnpinMessage
      <3> QED BY <3>1, PinsShrink DEF Inserting, At
    <2>2. CASE ~\E m \in Messages : UnpinMessage(s, m)
      <3>1. /\ pins' = pins
            /\ \E op \in {"readHistory", "insert", "delete", "findOldest", "recount", "createRead",
                          "updateRead"} : \E m, d : Does(s, Step(op, m, d))
        BY <1>1, <2>2 DEF Event, JoinChat, SendMessage, Recall, DeleteForMe,
             PinMessage, MarkMessageRead
      <3>2. Inserting' = Inserting \ {s}
        BY <1>0, <3>1, NotInserting
      <3> QED BY <3>1, <3>2, PinsShrink
    <2> QED BY <2>1, <2>2
  <1>2. ASSUME NEW s \in Sockets, CountPins(s)
        PROVE  PinInv'
    <2>1. pins' = pins
      BY <1>2 DEF CountPins
    <2>2. CASE Done(s)
      BY <1>d, <2>1, <2>2, PinsShrink
    <2>3. CASE ~Done(s)
      <3>1. Cardinality(pins) < MaxPinned
        BY <1>0, <1>2, <1>c, <2>3 DEF CountPins
      <3>2. Inserting' \subseteq Sockets
        BY DEF Inserting
      <3>3. Cardinality(Inserting') \in Nat /\ Cardinality(Inserting') <= Cardinality(Sockets)
        BY <1>0, <3>2, FS_Subset, FS_CardinalityType
      <3> QED BY <1>0, <1>c, <2>1, <3>1, <3>3 DEF PinInv
    <2> QED BY <2>2, <2>3
  <1>3. ASSUME NEW s \in Sockets, CreatePin(s)
        PROVE  PinInv'
    <2>1. /\ Inserting' = Inserting \ {s} /\ s \in Inserting
          /\ pins' = pins \/ \E p : pins' = pins \cup {p}
      BY <1>3, <1>d DEF CreatePin, Inserting
    <2>2. Cardinality(Inserting') = Cardinality(Inserting) - 1
      BY <1>c, <2>1, FS_RemoveElement
    <2>3. /\ IsFiniteSet(pins')
          /\ Cardinality(pins') \in Nat /\ Cardinality(pins') <= Cardinality(pins) + 1
      <3>1. CASE pins' = pins
        BY <1>0, <1>c, <3>1
      <3>2. ASSUME NEW p, pins' = pins \cup {p}
            PROVE  IsFiniteSet(pins') /\ Cardinality(pins') \in Nat
                   /\ Cardinality(pins') <= Cardinality(pins) + 1
        <4>1. CASE p \in pins
          <5>1. pins' = pins
            BY <3>2, <4>1
          <5> QED BY <1>0, <1>c, <5>1
        <4>2. CASE p \notin pins
          <5>1. IsFiniteSet(pins') /\ Cardinality(pins') = Cardinality(pins) + 1
            BY <1>0, <3>2, <4>2, FS_AddElement
          <5> QED BY <1>c, <5>1
        <4> QED BY <4>1, <4>2
      <3> QED BY <2>1, <3>1, <3>2
    <2> QED BY <1>0, <1>c, <2>2, <2>3 DEF PinInv
  <1>4. ASSUME NEW s \in Sockets, Continue(s), ~CountPins(s), ~CreatePin(s)
        PROVE  PinInv'
    <2>1. /\ pins' \subseteq pins
          /\ \/ Done(s)
             \/ \E op \in {"pushHistory", "announce", "recount", "unpinOldest"} : \E m, d :
                   Does(s, Step(op, m, d))
      BY <1>4 DEF Continue, GetMessagesHistory, PushHistory, CreateMessage, Announce, AnnounceFails,
             UpdateMessageDeleteStatus, FindOldestPin, AutoUnpinOldest, UpsertChatRead
    <2>2. Inserting' = Inserting \ {s}
      BY <1>0, <1>d, <2>1, NotInserting
    <2> QED BY <2>1, <2>2, PinsShrink
  <1>5. ASSUME Tick \/ UNCHANGED vars \/ \E u \in Users, m \in Messages : StoreQuietly(u, m)
        PROVE  PinInv'
    BY <1>5, PinsShrink DEF Tick, vars, StoreQuietly, Inserting, At
  <1> QED BY <1>1, <1>2, <1>3, <1>4, <1>5 DEF Next

-----------------------------------------------------------------------------
(* Recalls *)

\* A recall writes both flags; whoever deletes for himself on a row that is recalled
\* already found a flag that a crossing deletion had taken back.
DeletesOK ==
    \A s \in Sockets : At(s, "delete") =>
        /\ req[s].data.recalled => req[s].data.forSender /\ req[s].data.forReceiver
        /\ req[s].data.wasRecalled => req[s].msg \in crossed

RecallInv == RecallStands /\ DeletesOK

\* Both flags of a recalled message stay, or the deletion that takes one back is known.
LEMMA RecallStep ==
    ASSUME ChatInv, RecallInv, [Next]_vars
    PROVE  RecallInv'
  <1>0. ReqsOK /\ RecallStands /\ DeletesOK /\ \A k \in Stored : rows[k] \in RowType
    BY DEF ChatInv, TypeOK, RecallInv
  <1>c. \/ rows' = rows /\ crossed' = crossed
        \/ \E s \in Sockets : CreateMessage(s) \/ UpdateMessageDeleteStatus(s)
        \/ \E u \in Users, m \in Messages : StoreQuietly(u, m)
    <2>1. ASSUME NEW s \in Sockets, Event(s)
          PROVE  rows' = rows /\ crossed' = crossed
      BY <2>1 DEF Event, JoinChat, SendMessage, Recall, DeleteForMe, PinMessage,
           UnpinMessage, MarkMessageRead
    <2>2. ASSUME NEW s \in Sockets, Continue(s), ~CreateMessage(s), ~UpdateMessageDeleteStatus(s)
          PROVE  rows' = rows /\ crossed' = crossed
      BY <2>2 DEF Continue, GetMessagesHistory, PushHistory, Announce, AnnounceFails, FindOldestPin,
                  AutoUnpinOldest, CountPins, CreatePin, UpsertChatRead
    <2>3. ASSUME Tick \/ UNCHANGED vars
          PROVE  rows' = rows /\ crossed' = crossed
      BY <2>3 DEF Tick, vars
    <2> QED BY <2>1, <2>2, <2>3 DEF Next
  <1>g. crossed \subseteq crossed'
    BY <1>c DEF CreateMessage, UpdateMessageDeleteStatus, StoreQuietly
  <1>1. DeletesOK'
    <2> SUFFICES ASSUME NEW s \in Sockets, req'[s].op = "delete"
                 PROVE  /\ req'[s].data.recalled => req'[s].data.forSender /\ req'[s].data.forReceiver
                        /\ req'[s].data.wasRecalled => req'[s].msg \in crossed'
      BY DEF DeletesOK, At
    <2>1. CASE req'[s] = req[s]
      BY <1>0, <1>g, <2>1 DEF DeletesOK, At
    <2>2. CASE req'[s] # req[s]
      <3>1. Event(s) \/ Continue(s)
        BY <1>0, <2>2, WhoMoves, OneMoves
      <3>2. \A op, k, d : Does(s, Step(op, k, d)) => op = "delete"
        BY <1>0, OneMoves DEF Step
      <3>3. ~Done(s)
        BY <3>2 DEF Done, Idle
      <3>4. ~Continue(s)
        BY <3>2, <3>3 DEF Continue, GetMessagesHistory, PushHistory, CreateMessage,
             Announce, AnnounceFails, UpdateMessageDeleteStatus, FindOldestPin, AutoUnpinOldest,
             CountPins, CreatePin, UpsertChatRead
      <3>5. \E m \in Messages : Recall(s, m) \/ DeleteForMe(s, m)
        BY <2>2, <3>1, <3>2, <3>4 DEF Event, JoinChat, SendMessage, PinMessage,
             UnpinMessage, MarkMessageRead
      <3> PICK m \in Messages : Recall(s, m) \/ DeleteForMe(s, m)
        BY <3>5
      <3>6. CASE Recall(s, m)
        <4>1. req'[s] = Step("delete", m, Flags(m, TRUE, TRUE, TRUE)) /\ ~rows[m].recalled
          BY <1>0, <3>6, OneMoves DEF Recall
        <4> QED BY <4>1 DEF Step, Flags
      <3>7. CASE DeleteForMe(s, m)
        <4>1. /\ req'[s] = Step("delete", m, Flags(m, IsSender(s, m), ~IsSender(s, m), FALSE))
              /\ m \in Stored /\ ~(rows[m].forSender /\ rows[m].forReceiver)
          BY <1>0, <3>7, OneMoves DEF DeleteForMe
        <4>2. rows[m].recalled => m \in crossed
          BY <1>0, <4>1 DEF RecallStands
        <4> QED BY <1>g, <4>1, <4>2 DEF Step, Flags
      <3> QED BY <3>6, <3>7
    <2> QED BY <2>1, <2>2
  <1>2. RecallStands'
    <2> SUFFICES ASSUME NEW k \in Stored', rows'[k].recalled, k \notin crossed'
                 PROVE  rows'[k].forSender /\ rows'[k].forReceiver
      BY DEF RecallStands
    <2>1. CASE rows' = rows
      BY <1>0, <1>g, <2>1 DEF RecallStands, Stored
    <2>2. ASSUME NEW s \in Sockets, CreateMessage(s)
          PROVE  rows'[k].forSender /\ rows'[k].forReceiver
      <3>1. /\ rows' = [m \in Stored \cup {req[s].msg} |->
                           IF m = req[s].msg THEN req[s].data ELSE rows[m]]
            /\ ~req[s].data.recalled
        BY <1>0, <2>2 DEF CreateMessage, ReqsOK, ReqOK, At
      <3>2. k \in Stored /\ rows'[k] = rows[k]
        BY <3>1 DEF Stored
      <3> QED BY <1>0, <1>g, <3>2 DEF RecallStands
    <2>3. ASSUME NEW s \in Sockets, UpdateMessageDeleteStatus(s)
          PROVE  rows'[k].forSender /\ rows'[k].forReceiver
      <3> DEFINE m == req[s].msg
                 d == req[s].data
      <3>1. /\ At(s, "delete") /\ m \in Stored /\ d \in FlagsType
            /\ d.recalled => d.forSender /\ d.forReceiver
            /\ d.wasRecalled => m \in crossed
            /\ k \in Stored
        BY <1>0, <2>3 DEF UpdateMessageDeleteStatus, ReqsOK, ReqOK, At, OnMessage,
             DeletesOK, Stored
      <3>2. CASE k # m
        <4>1. rows'[k] = rows[k]
          BY <2>3, <3>1, <3>2 DEF UpdateMessageDeleteStatus, Stored
        <4> QED BY <1>0, <1>g, <3>1, <4>1 DEF RecallStands
      <3>3. CASE k = m
        <4>1. /\ rows'[m] = [rows[m] EXCEPT !.forSender = d.forSender, !.forReceiver = d.forReceiver,
                                            !.recalled = @ \/ d.recalled]
              /\ crossed' = IF rows[m].recalled /\ ~d.recalled /\ ~d.wasRecalled
                            THEN crossed \cup {m} ELSE crossed
          BY <2>3, <3>1 DEF UpdateMessageDeleteStatus, Stored
        <4>2. rows[m] \in RowType
          BY <1>0, <3>1
        <4>3. /\ rows'[m].forSender = d.forSender /\ rows'[m].forReceiver = d.forReceiver
              /\ rows'[m].recalled = (rows[m].recalled \/ d.recalled)
          BY <4>1, <4>2 DEF RowType
        <4> HIDE DEF m, d
        <4>4. d.recalled
          BY <1>g, <3>1, <3>3, <4>1, <4>3
        <4> QED BY <3>1, <3>3, <4>3, <4>4
      <3> QED BY <3>2, <3>3
    <2>4. ASSUME NEW u \in Users, NEW m \in Messages, StoreQuietly(u, m)
          PROVE  rows'[k].forSender /\ rows'[k].forReceiver
      <3>1. PICK at \in 0..now :
                rows' = [i \in Stored \cup {m} |-> IF i = m THEN Row(u, at) ELSE rows[i]]
        BY <2>4 DEF StoreQuietly
      <3>2. k \in Stored /\ rows'[k] = rows[k]
        BY <3>1 DEF Stored, Row
      <3> QED BY <1>0, <1>g, <3>2 DEF RecallStands
    <2> QED BY <1>c, <2>1, <2>2, <2>3, <2>4
  <1> QED BY <1>1, <1>2 DEF RecallInv

-----------------------------------------------------------------------------
(* Read marks *)

\* The connection is its user's only one.
Sole(s) == \A t \in Sockets : Owner[t] = Owner[s] => t = s

\* What such a connection is about to write is still ahead of the mark.
MarksOK ==
    \A s \in Sockets : Sole(s) /\ req[s].op \in {"createRead", "updateRead"} =>
        req[s].data > read[Owner[s]]

\* The marks are written by UpsertChatRead only.
LEMMA MarksMove ==
    ASSUME [Next]_vars
    PROVE  read' = read \/ \E s \in Sockets : UpsertChatRead(s)
  <1>1. ASSUME NEW s \in Sockets, Event(s)
        PROVE  read' = read
    BY <1>1 DEF Event, JoinChat, SendMessage, Recall, DeleteForMe, PinMessage,
         UnpinMessage, MarkMessageRead
  <1>2. ASSUME NEW s \in Sockets, Continue(s), ~UpsertChatRead(s)
        PROVE  read' = read
    BY <1>2 DEF Continue, GetMessagesHistory, PushHistory, CreateMessage, Announce, AnnounceFails,
         UpdateMessageDeleteStatus, FindOldestPin, AutoUnpinOldest, CountPins,
         CreatePin
  <1>3. ASSUME Tick \/ UNCHANGED vars \/ \E u \in Users, m \in Messages : StoreQuietly(u, m)
        PROVE  read' = read
    BY <1>3 DEF Tick, vars, StoreQuietly
  <1> QED BY <1>1, <1>2, <1>3 DEF Next

\* Nobody else moves the mark of a user with one connection, so what was newer stays newer.
LEMMA MarksStep ==
    ASSUME ChatInv, MarksOK, [Next]_vars
    PROVE  MarksOK'
  <1> SUFFICES ASSUME NEW s \in Sockets, Sole(s), req'[s].op \in {"createRead", "updateRead"}
               PROVE  req'[s].data > read'[Owner[s]]
    BY DEF MarksOK, Sole
  <1>0. /\ ReqsOK /\ read \in [Users -> {Unread} \cup 0..MaxTime]
        /\ Owner[s] \in Users /\ \A k \in Stored : rows[k] \in RowType
    BY ChatAssumption DEF ChatInv, TypeOK
  <1>1. CASE req'[s] = req[s]
    <2>1. req[s].data > read[Owner[s]]
      BY <1>1 DEF MarksOK
    <2>2. ASSUME NEW t \in Sockets, UpsertChatRead(t)
          PROVE  read'[Owner[s]] = read[Owner[s]]
      <3>1. Done(t) /\ (read' = read \/ read' = [read EXCEPT ![Owner[t]] = req[t].data])
        BY <2>2 DEF UpsertChatRead
      <3>2. req'[t] = Idle
        BY <1>0, <3>1, OneMoves DEF Done
      <3>3. t # s
        BY <3>2 DEF Idle, Step
      <3>4. Owner[t] # Owner[s]
        BY <3>3 DEF Sole
      <3> QED BY <1>0, <3>1, <3>4
    <2> QED BY <1>1, <2>1, <2>2, MarksMove
  <1>2. CASE req'[s] # req[s]
    <2>1. Event(s) \/ Continue(s)
      BY <1>0, <1>2, WhoMoves, OneMoves
    <2>2. \A op, k, d : Does(s, Step(op, k, d)) => op \in {"createRead", "updateRead"}
      BY <1>0, OneMoves DEF Step
    <2>3. ~Done(s)
      BY <2>2 DEF Done, Idle
    <2>4. ~Continue(s)
      BY <2>2, <2>3 DEF Continue, GetMessagesHistory, PushHistory, CreateMessage,
           Announce, AnnounceFails, UpdateMessageDeleteStatus, FindOldestPin, AutoUnpinOldest,
           CountPins, CreatePin, UpsertChatRead
    <2>5. \E m \in Messages : MarkMessageRead(s, m)
      <3>1. ASSUME NEW m \in Messages, PinMessage(s, m)
            PROVE  FALSE
        <4>1. \E op \in {"findOldest", "recount"} : Does(s, Step(op, m, NoMessage))
          BY <3>1 DEF PinMessage
        <4> QED BY <2>2, <4>1
      <3>2. ~JoinChat(s)
        BY <2>2 DEF JoinChat
      <3>3. ASSUME NEW m \in Messages, SendMessage(s, m) \/ Recall(s, m) \/ DeleteForMe(s, m)
            PROVE  FALSE
        <4>1. \E op \in {"insert", "delete"} : \E d : Does(s, Step(op, m, d))
          BY <3>3 DEF SendMessage, Recall, DeleteForMe
        <4> QED BY <2>2, <4>1
      <3>4. ASSUME NEW m \in Messages, UnpinMessage(s, m)
            PROVE  FALSE
        BY <1>2, <3>4 DEF UnpinMessage
      <3> QED BY <2>1, <2>4, <3>1, <3>2, <3>3, <3>4 DEF Event
    <2> PICK m \in Messages : MarkMessageRead(s, m)
      BY <2>5
    <2>6. /\ m \in Stored /\ IsNewer(m, Owner[s]) /\ read' = read
          /\ \E op : Does(s, Step(op, m, rows[m].at))
      BY DEF MarkMessageRead
    <2>7. req'[s].data = rows[m].at
      BY <1>0, <2>6, OneMoves DEF Step
    <2>8. rows[m].at > read[Owner[s]]
      BY <1>0, <2>6, ChatAssumption DEF IsNewer, RowType, Unread
    <2> QED BY <2>6, <2>7, <2>8
  <1> QED BY <1>1, <1>2

-----------------------------------------------------------------------------
(* Theorems about the history of a chat *)

\* Types, and what each handler has read, in every reachable state.
LEMMA AlwaysChatInv == Spec => []ChatInv
  <1>1. Init => ChatInv
    BY HInit
  <1>2. ChatInv /\ [Next]_vars => ChatInv'
    BY HStep
  <1> QED BY <1>1, <1>2, PTL DEF Spec

\* Every table and every set of sockets of the chat keeps its type; in particular a pin,
\* a recall or a mark is always about a stored message.
THEOREM ChatTypes == Spec => []TypeOK
  <1>1. ChatInv => TypeOK
    BY DEF ChatInv
  <1> QED BY <1>1, AlwaysChatInv, PTL

\* The room is entered before the history is read (ws/client.go), so that no message that
\* is announced falls between the history and the messages sent to the room, for any number
\* of sockets; one that nobody announces is missed only by who had read the history.
THEOREM JoinersMissNothing == Spec => []NothingMissed
  <1>1. Init => JoinOK
    BY DEF Init, JoinOK, At, Idle, Step
  <1>2. ChatInv /\ JoinOK /\ [Next]_vars => JoinOK'
    BY JoinStep
  <1>3. ChatInv /\ JoinOK => NothingMissed
    BY DEF ChatInv, TypeOK, JoinOK, NothingMissed, Heard
  <1> QED BY <1>1, <1>2, <1>3, AlwaysChatInv, PTL DEF Spec

\* The repository counts the pins again before it inserts: overlapping requests exceed the
\* limit by at most one pin for each other socket, and the excess never adds up.
THEOREM PinsStayBounded == Spec => []PinsAreBounded
  <1>1. Init => PinInv
    <2> SUFFICES ASSUME Init PROVE PinInv
      OBVIOUS
    <2>1. pins = {} /\ Inserting = {}
      BY DEF Init, Inserting, At, Idle, Step
    <2>2. Cardinality(Sockets) \in Nat /\ MaxPinned \in Nat \ {0}
      BY FS_CardinalityType, ChatAssumption
    <2>3. IsFiniteSet(pins) /\ Cardinality(pins) = 0 /\ Cardinality(Inserting) = 0
      BY <2>1, FS_EmptySet
    <2> QED BY <2>2, <2>3 DEF PinInv
  <1>2. ChatInv /\ PinInv /\ [Next]_vars => PinInv'
    BY PinStep
  <1>3. PinInv => PinsAreBounded
    <2> SUFFICES ASSUME PinInv PROVE PinsAreBounded
      OBVIOUS
    <2>1. Inserting \subseteq Sockets /\ IsFiniteSet(Sockets) /\ MaxPinned \in Nat
      BY ChatAssumption DEF Inserting
    <2>2. Cardinality(Inserting) \in Nat /\ Cardinality(pins) \in Nat /\ Cardinality(Sockets) \in Nat
      BY <2>1, FS_Subset, FS_CardinalityType DEF PinInv
    <2> QED BY <2>1, <2>2 DEF PinInv, PinsAreBounded
  <1> QED BY <1>1, <1>2, <1>3, AlwaysChatInv, PTL DEF Spec

\* A recalled message stays hidden from both participants, except through a deletion that
\* was decided before the recall and written after it.
THEOREM RecallsStand == Spec => []RecallStands
  <1>1. Init => RecallInv
    BY DEF Init, RecallInv, RecallStands, DeletesOK, Stored, Row, At, Idle, Step
  <1>2. ChatInv /\ RecallInv /\ [Next]_vars => RecallInv'
    BY RecallStep
  <1>3. RecallInv => RecallStands
    BY DEF RecallInv
  <1> QED BY <1>1, <1>2, <1>3, AlwaysChatInv, PTL DEF Spec

\* With one connection a user's read mark never goes back, although message:read compares it
\* in one statement and writes it in another.
THEOREM MarksAdvance == Spec => ReadsAdvance
  <1>1. Init => MarksOK
    BY DEF Init, MarksOK, Idle, Step
  <1>2. ChatInv /\ MarksOK /\ [Next]_vars => MarksOK'
    BY MarksStep
  <1>3. ChatInv /\ MarksOK /\ [Next]_vars =>
          [\A u \in Users :
              Cardinality({s \in Sockets : Owner[s] = u}) = 1 => read'[u] >= read[u]]_vars
    <2> SUFFICES ASSUME ChatInv, MarksOK, [Next]_vars, NEW u \in Users,
                        Cardinality({s \in Sockets : Owner[s] = u}) = 1
                 PROVE  read'[u] >= read[u]
      OBVIOUS
    <2>1. /\ read \in [Users -> {Unread} \cup 0..MaxTime] /\ IsFiniteSet(Sockets)
          /\ MaxTime \in Nat
      BY ChatAssumption DEF ChatInv, TypeOK
    <2>2. read[u] \in Int
      BY <2>1 DEF Unread
    <2>3. PICK o : {s \in Sockets : Owner[s] = u} = {o}
      <3>1. IsFiniteSet({s \in Sockets : Owner[s] = u})
        BY <2>1, FS_Subset
      <3>2. Cardinality({s \in Sockets : Owner[s] = u}) = 1
        OBVIOUS
      <3> QED BY <3>1, <3>2, FS_Singleton
    <2>4. ASSUME NEW s \in Sockets, UpsertChatRead(s)
          PROVE  read'[u] >= read[u]
      <3>1. CASE Owner[s] # u
        BY <2>1, <2>2, <2>4, <3>1 DEF UpsertChatRead
      <3>2. CASE Owner[s] = u
        <4>1. Sole(s)
          BY <2>3, <3>2 DEF Sole
        <4>2. req[s].data > read[u]
          BY <2>4, <3>2, <4>1 DEF MarksOK, UpsertChatRead
        <4>3. req[s].data \in Int
          BY <2>1, <2>4 DEF UpsertChatRead, ChatInv, ReqsOK, ReqOK
        <4>4. read' = read \/ read' = [read EXCEPT ![u] = req[s].data]
          BY <2>4, <3>2 DEF UpsertChatRead
        <4> QED BY <2>1, <2>2, <4>2, <4>3, <4>4
      <3> QED BY <3>1, <3>2
    <2> QED BY <2>2, <2>4, MarksMove
  <1> QED BY <1>1, <1>2, <1>3, AlwaysChatInv, PTL DEF Spec, ReadsAdvance
=============================================================================
