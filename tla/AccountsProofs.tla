--------------------------- MODULE AccountsProofs ---------------------------
(***************************************************************************)
(* Proofs about Accounts for every number of sessions and workers and for  *)
(* every TTL and delay.  The invariant bounds the age of what a request    *)
(* and the cache hold: it is what the account says now, or the account has *)
(* changed no longer ago than the time it was held for.                    *)
(***************************************************************************)
EXTENDS Accounts, TLAPS

Hands(n) == [at : Steps, token : Tokens, version : 0..n, status : Statuses, next : Steps,
             late : 0..MaxDelay, overtaken : BOOLEAN]

\* Where a handler may be sent on to.
Nexts == {"idle", "create", "issue", "rotate", "bump", "row", "status"}

Valid(t) == status = "active" /\ t.version = version

\* What was read of the account is true, or became untrue within the delay of the
\* request; a running ban was there before what is let in.
HandOK(w) ==
    /\ hand[w].token = NoToken \/ hand[w].token \in tokens
    /\ hand[w].next \in Nexts
    /\ hand[w].at = "store" =>
         \/ hand[w].status = status /\ hand[w].version = version
         \/ since <= hand[w].late
    /\ hand[w].at = "session" => Valid(hand[w].token) \/ since <= TTL + MaxDelay + hand[w].late
    /\ status = "banned" /\ ban = "running" /\ hand[w].at \in Trusting => hand[w].overtaken

CacheOK ==
    Serves(cache) => \/ cache.status = status /\ cache.version = version
                     \/ since <= cache.age + MaxDelay

IInv == TypeOK /\ CacheOK /\ \A w \in Workers : HandOK(w)

\* A step of worker w.
Acts(w) ==
    \/ \E t \in tokens : Check(w, t) \/ RefreshToken(w, t)
    \/ Store(w) \/ CheckSession(w) \/ Respond(w)
    \/ Login(w) \/ GoogleLogin(w) \/ Reissue(w) \/ Lift(w) \/ Reactivate(w) \/ Rotate(w)
    \/ \E s \in Sessions : CreateSession(w, s)
    \/ GenerateTokens(w)
    \/ Logout(w) \/ RevokeAll(w) \/ IncrementTokenVersion(w) \/ InvalidateAuthCache(w)
    \/ RevokeSessions(w) \/ Deactivate(w)
    \/ \E s \in Statuses : UpdateUserStatus(w, s)
    \/ BanUser(w) \/ BanReported(w) \/ CreateBan(w) \/ SetStatus(w)
    \/ Stumble(w)

\* The actions that leave the account and the ban alone, and move one hand.
Quietly(w) ==
    /\ UNCHANGED <<status, version, since, ban>>
    /\ \E h : hand' = [hand EXCEPT ![w] = h]

\* What a step of w leaves to the other requests.
Frame(w) ==
    /\ \A x \in Workers \ {w} :
         /\ hand'[x].at = hand[x].at /\ hand'[x].token = hand[x].token
         /\ hand'[x].version = hand[x].version /\ hand'[x].status = hand[x].status
         /\ hand'[x].next = hand[x].next /\ hand'[x].late = hand[x].late
         /\ hand[x].overtaken => hand'[x].overtaken
         /\ hand'[x] = hand[x] \/ hand'[x] = [hand[x] EXCEPT !.overtaken = @ \/ hand[x].at \in Trusting]
    /\ hand' = [x \in Workers |-> hand'[x]]
    /\ version' \in Nat /\ version <= version' /\ version' <= MaxVersion
    /\ status' \in Statuses
    /\ \/ status' = status /\ version' = version /\ since' = since
       \/ since' = 0
    /\ status = "banned" /\ status' # "banned" => \A x \in Workers \ {w} : hand'[x] = hand[x]
    /\ status' = "banned" /\ ban' = "running" =>
         \/ status = "banned" /\ ban = "running"
         \/ \A x \in Workers \ {w} : hand[x].at \in Trusting => hand'[x].overtaken

-----------------------------------------------------------------------------

LEMMA Bounds == /\ Grace \in Nat /\ Old \in Nat /\ Grace < Old
                /\ TTL + MaxDelay \in Nat /\ MaxDelay <= Grace /\ Grace - MaxDelay = TTL + MaxDelay
                /\ TTL \in Nat /\ MaxDelay \in Nat /\ MaxVersion \in Nat /\ MaxActs \in Nat
  BY AccountsAssumption DEF Grace, Old

LEMMA TypeFacts ==
    ASSUME TypeOK
    PROVE  /\ status \in Statuses /\ version \in Nat /\ version <= MaxVersion
           /\ since \in Nat /\ since <= Old
           /\ hand \in [Workers -> Hands(version)]
           /\ \A t \in tokens : t \in Tokens /\ t.version <= version
           /\ NoToken \in Tokens /\ cache.age \in Nat
  <1>1. status \in Statuses /\ version \in Nat /\ version <= MaxVersion
    BY Bounds DEF TypeOK
  <1>2. since \in Nat /\ since <= Old
    BY Bounds DEF TypeOK
  <1>3. hand \in [Workers -> Hands(version)]
    BY DEF TypeOK, Hands
  <1>4. \A t \in tokens : t \in Tokens /\ t.version <= version
    BY DEF TypeOK
  <1>5. NoToken \in Tokens
    BY Bounds DEF NoToken, Tokens
  <1>6. cache.age \in Nat
    BY Bounds DEF TypeOK
  <1> QED BY <1>1, <1>2, <1>3, <1>4, <1>5, <1>6

\* The fields of a new hand.
LEMMA AtFields ==
    ASSUME NEW a, NEW t
    PROVE  /\ At(a, t).at = a /\ At(a, t).token = t /\ At(a, t).version = 0
           /\ At(a, t).status = "active" /\ At(a, t).next = "idle" /\ At(a, t).late = 0
           /\ At(a, t).overtaken = FALSE
  BY DEF At

LEMMA AtHand ==
    ASSUME NEW a \in Steps, NEW t \in Tokens, NEW n \in Nat
    PROVE  At(a, t) \in Hands(n)
  BY Bounds DEF At, Hands, Steps, Statuses

LEMMA QuietFrame ==
    ASSUME IInv, NEW w \in Workers, Quietly(w)
    PROVE  Frame(w)
  <1>0. status \in Statuses /\ version \in Nat /\ version <= MaxVersion /\ version <= version
    BY TypeFacts DEF IInv
  <1>1. \A x \in Workers \ {w} : hand'[x] = hand[x]
    BY TypeFacts DEF Quietly, IInv
  <1>2. hand' = [x \in Workers |-> hand'[x]]
    BY TypeFacts DEF Quietly, IInv
  <1> QED BY <1>0, <1>1, <1>2 DEF Quietly, Frame

\* The actions that Overtake.
LEMMA OvertakeFrame ==
    ASSUME IInv, NEW w \in Workers, NEW h, hand' = Overtake(w, h),
           UNCHANGED version, status' \in Statuses,
           status' = status \/ status' = "banned",
           (status' = status /\ since' = since) \/ since' = 0
    PROVE  Frame(w)
  <1>0. hand \in [Workers -> Hands(version)]
    BY TypeFacts DEF IInv
  <1>1. ASSUME NEW x \in Workers \ {w}
        PROVE  /\ hand'[x].at = hand[x].at /\ hand'[x].token = hand[x].token
               /\ hand'[x].version = hand[x].version /\ hand'[x].status = hand[x].status
               /\ hand'[x].next = hand[x].next /\ hand'[x].late = hand[x].late
               /\ hand[x].overtaken => hand'[x].overtaken
               /\ hand'[x] = hand[x] \/ hand'[x] = [hand[x] EXCEPT !.overtaken = @ \/ hand[x].at \in Trusting]
               /\ hand[x].at \in Trusting => hand'[x].overtaken
    <2>1. hand'[x] = [hand[x] EXCEPT !.overtaken = @ \/ hand[x].at \in Trusting]
      BY DEF Overtake
    <2> QED BY <1>0, <2>1 DEF Hands
  <1>2. version' \in Nat /\ version <= version' /\ version' <= MaxVersion /\ version' = version
    BY TypeFacts DEF IInv
  <1>3. hand' = [x \in Workers |-> hand'[x]]
    BY DEF Overtake
  <1> QED BY <1>1, <1>2, <1>3 DEF Frame

\* The actions that move one hand, change the account and begin no ban.
Alone(w) ==
    /\ hand' = [x \in Workers |-> hand'[x]]
    /\ \A x \in Workers \ {w} : hand'[x] = hand[x]
    /\ status' \in Statuses /\ version' \in Nat /\ version <= version' /\ version' <= MaxVersion
    /\ \/ status' = status /\ version' = version /\ since' = since
       \/ since' = 0
    /\ status' # "banned" \/ status' = status
    /\ ban' = ban

LEMMA AloneFrame ==
    ASSUME NEW w \in Workers, Alone(w)
    PROVE  Frame(w)
  BY DEF Alone, Frame

LEMMA OneMoves ==
    ASSUME IInv, NEW w \in Workers, NEW h, hand' = [hand EXCEPT ![w] = h]
    PROVE  /\ \A x \in Workers \ {w} : hand'[x] = hand[x]
           /\ hand' = [x \in Workers |-> hand'[x]]
  BY TypeFacts DEF IInv

LEMMA ActsFrame ==
    ASSUME IInv, NEW w \in Workers, Acts(w)
    PROVE  Frame(w)
  <1>0. hand \in [Workers -> Hands(version)] /\ version \in Nat /\ version <= MaxVersion
        /\ status \in Statuses /\ MaxVersion \in Nat
    BY TypeFacts, Bounds DEF IInv
  <1>1. CASE Quietly(w)
    BY <1>1, QuietFrame
  <1>2. ASSUME NEW t \in tokens, Check(w, t) \/ RefreshToken(w, t) PROVE Quietly(w)
    BY <1>2 DEF Check, RefreshToken, Enter, Start, account, Quietly
  <1>3. ASSUME Store(w) \/ CheckSession(w) \/ Respond(w) \/ Stumble(w) PROVE Quietly(w)
    BY <1>3 DEF Store, CheckSession, Respond, Stumble, Finish, account, Quietly
  <1>4. ASSUME Login(w) \/ GoogleLogin(w) \/ Reissue(w) PROVE Quietly(w)
    BY <1>4 DEF Login, GoogleLogin, Reissue, Enter, Start, account, Quietly
  <1>5. ASSUME Rotate(w) \/ GenerateTokens(w) \/ \E s \in Sessions : CreateSession(w, s) PROVE Quietly(w)
    <2>1. CASE Rotate(w)
      <3>1. hand' = [hand EXCEPT ![w] = [hand[w] EXCEPT !.at = "create", !.token = NoToken]]
        BY <1>0, <2>1 DEF Rotate
      <3> QED BY <2>1, <3>1 DEF Rotate, account, Quietly
    <2> QED BY <1>5, <2>1 DEF GenerateTokens, CreateSession, Issue, Finish, account, Quietly
  <1>6. ASSUME Logout(w) \/ RevokeAll(w) \/ InvalidateAuthCache(w) \/ RevokeSessions(w) PROVE Quietly(w)
    BY <1>6 DEF Logout, RevokeAll, InvalidateAuthCache, RevokeSessions, Finish, account, Quietly
  <1>7. ASSUME (\E s \in Statuses : UpdateUserStatus(w, s)) \/ BanUser(w) \/ BanReported(w)
        PROVE  Quietly(w)
    BY <1>7 DEF UpdateUserStatus, BanUser, BanReported, Act, account, Quietly
  <1>8. CASE CreateBan(w)
    BY <1>0, <1>8, OvertakeFrame DEF CreateBan, account
  <1>10. CASE SetStatus(w)
    <2> DEFINE h == [At("invalidate", NoToken) EXCEPT !.next = hand[w].next]
    <2>1. hand[w].status \in Statuses /\ status' = hand[w].status
      BY <1>0, <1>10 DEF SetStatus, Hands
    <2>2. version' = version /\ ban' = ban /\ ((status' = status /\ since' = since) \/ since' = 0)
      BY <1>10 DEF SetStatus, Recent
    <2>3. hand' = IF hand[w].status = "banned" THEN Overtake(w, h) ELSE [hand EXCEPT ![w] = h]
      BY <1>10 DEF SetStatus
    <2> HIDE DEF h
    <2>4. CASE hand[w].status = "banned"
      BY <2>1, <2>2, <2>3, <2>4, OvertakeFrame
    <2>5. CASE hand[w].status # "banned"
      <3>1. (\A x \in Workers \ {w} : hand'[x] = hand[x]) /\ hand' = [x \in Workers |-> hand'[x]]
        BY <2>3, <2>5, OneMoves
      <3> QED BY <1>0, <2>1, <2>2, <2>5, <3>1, AloneFrame DEF Alone
    <2> QED BY <2>4, <2>5
  <1>11. CASE Lift(w)
    <2>1. PICK h : hand' = [hand EXCEPT ![w] = h]
      BY <1>11 DEF Lift
    <2>2. (\A x \in Workers \ {w} : hand'[x] = hand[x]) /\ hand' = [x \in Workers |-> hand'[x]]
      BY <2>1, OneMoves
    <2>3. /\ status' = "active" /\ version' = version /\ ban' = ban
          /\ (status' = status /\ since' = since) \/ since' = 0
      BY <1>11 DEF Lift, Recent
    <2> QED BY <1>0, <2>2, <2>3, AloneFrame DEF Statuses, Alone
  <1>12. CASE Reactivate(w)
    <2>1. hand' = [hand EXCEPT ![w] = [hand[w] EXCEPT !.at = "create", !.overtaken = FALSE]]
      BY <1>0, <1>12 DEF Reactivate
    <2>2. (\A x \in Workers \ {w} : hand'[x] = hand[x]) /\ hand' = [x \in Workers |-> hand'[x]]
      BY <2>1, OneMoves
    <2>3. /\ status' \in {"active", status} /\ version' = version /\ ban' = ban
          /\ (status' = status /\ since' = since) \/ since' = 0
      BY <1>12 DEF Reactivate, Recent
    <2> QED BY <1>0, <2>2, <2>3, AloneFrame DEF Statuses, Alone
  <1>13. CASE IncrementTokenVersion(w)
    <2>1. hand' = [hand EXCEPT ![w] = [hand[w] EXCEPT !.at = "invalidate"]]
      BY <1>0, <1>13 DEF IncrementTokenVersion, GoOn
    <2>2. (\A x \in Workers \ {w} : hand'[x] = hand[x]) /\ hand' = [x \in Workers |-> hand'[x]]
      BY <2>1, OneMoves
    <2>3. /\ status' = status /\ version' = version + 1 /\ version < MaxVersion /\ ban' = ban
          /\ since' = 0
      BY <1>13 DEF IncrementTokenVersion
    <2>4. Alone(w)
      BY <1>0, <2>2, <2>3 DEF Alone
    <2> QED BY <2>4, AloneFrame
  <1>14. CASE Deactivate(w)
    <2>1. /\ status' = "suspended" /\ version' = version + 1 /\ version < MaxVersion /\ ban' = ban
          /\ since' = 0 /\ hand' = [hand EXCEPT ![w] = At("revoke", NoToken)]
      BY <1>14 DEF Deactivate
    <2>2. (\A x \in Workers \ {w} : hand'[x] = hand[x]) /\ hand' = [x \in Workers |-> hand'[x]]
      BY <2>1, OneMoves
    <2>3. Alone(w)
      BY <1>0, <2>1, <2>2 DEF Statuses, Alone
    <2> QED BY <2>3, AloneFrame
  <1> QED BY <1>1, <1>2, <1>3, <1>4, <1>5, <1>6, <1>7, <1>8, <1>10, <1>11, <1>12, <1>13, <1>14 DEF Acts

-----------------------------------------------------------------------------
(* What one step owes: its own hand, the others', the cache and the rest. *)

\* The three promises of the specification, for one request.
Promises(w) ==
    /\ Admits(w) => since <= Grace \/ Deserves(hand'[w].token)
    /\ TurnsAway(w) => since <= Grace - MaxDelay \/ ~Deserves(hand'[w].token) \/ OwnReadFailed(w)
    /\ status = "banned" /\ ban = "running" /\ status' # "banned" /\ hand'[w] # hand[w]
         => hand[w].at = "status" \/ hand[w].overtaken

Owns(w) == hand'[w] \in Hands(version') /\ HandOK(w)' /\ Promises(w)

Rest ==
    /\ left' \in BOOLEAN
    /\ ban' \in {"none", "running", "lapsed"}
    /\ session' \in [Sessions -> {"new", "live", "revoked"}]
    /\ acts' \in 0..MaxActs
    /\ tokens \subseteq tokens'
    /\ tokens' \subseteq Tokens
    /\ \A t \in tokens' : /\ t.version <= version'
                          /\ t.session # NoSession => session'[t.session] # "new"

Entry == /\ cache' \in [set : BOOLEAN, status : Statuses, version : 0..version', age : 0..TTL + 1]
         /\ CacheOK'

LEMMA OthersKept ==
    ASSUME IInv, NEW w \in Workers, Frame(w), tokens \subseteq tokens', NEW x \in Workers \ {w}
    PROVE  Owns(x)
  <1>0. hand \in [Workers -> Hands(version)] /\ version \in Nat
    BY TypeFacts DEF IInv
  <1>1. hand[x] \in Hands(version')
    BY <1>0 DEF Hands, Frame
  <1>2. hand'[x] \in Hands(version')
    <2>1. CASE hand'[x] = hand[x]
      BY <1>1, <2>1
    <2>2. CASE hand'[x] # hand[x]
      <3> DEFINE o == hand[x].overtaken \/ hand[x].at \in Trusting
      <3>1. hand'[x] = [hand[x] EXCEPT !.overtaken = o]
        BY <2>2, Zenon DEF Frame
      <3>2. o \in BOOLEAN
        OBVIOUS
      <3> HIDE DEF o
      <3> QED BY <1>1, <3>1, <3>2 DEF Hands
    <2> QED BY <2>1, <2>2
  <1>3. HandOK(x)
    BY DEF IInv
  <1>4. /\ hand'[x].at = hand[x].at /\ hand'[x].token = hand[x].token
        /\ hand'[x].version = hand[x].version /\ hand'[x].status = hand[x].status
        /\ hand'[x].next = hand[x].next /\ hand'[x].late = hand[x].late
    BY DEF Frame
  <1>5. hand[x].late \in Nat
    BY <1>0, Bounds DEF Hands
  <1>6. \/ status' = status /\ version' = version /\ since' = since
        \/ since' = 0
    BY DEF Frame
  <1>7. /\ hand[x].overtaken => hand'[x].overtaken
        /\ status' = "banned" /\ ban' = "running" =>
             (status = "banned" /\ ban = "running") \/ (hand[x].at \in Trusting => hand'[x].overtaken)
    BY DEF Frame
  <1>8. HandOK(x)'
    <2>1. (hand[x].token = NoToken \/ hand[x].token \in tokens) /\ hand[x].next \in Nexts
      BY <1>3 DEF HandOK
    <2>2. hand[x].at = "store" => \/ hand[x].status = status' /\ hand[x].version = version'
                                  \/ since' <= hand[x].late
      BY <1>3, <1>5, <1>6 DEF HandOK
    <2>3. hand[x].at = "session" =>
            \/ status' = "active" /\ hand[x].token.version = version'
            \/ since' <= TTL + MaxDelay + hand[x].late
      BY <1>3, <1>5, <1>6, Bounds DEF HandOK, Valid
    <2>4. status' = "banned" /\ ban' = "running" /\ hand[x].at \in Trusting => hand'[x].overtaken
      BY <1>3, <1>7 DEF HandOK
    <2> QED BY <1>4, <2>1, <2>2, <2>3, <2>4 DEF HandOK, Valid
  <1>9. Promises(x)
    BY <1>4 DEF Promises, Admits, TurnsAway, Frame
  <1> QED BY <1>2, <1>8, <1>9 DEF Owns

LEMMA CacheKept ==
    ASSUME IInv, NEW w \in Workers, Frame(w), UNCHANGED cache
    PROVE  Entry
  <1>1. /\ cache \in [set : BOOLEAN, status : Statuses, version : 0..version, age : 0..TTL + 1]
        /\ version \in Nat /\ cache.age \in Nat /\ CacheOK
    BY TypeFacts DEF IInv, TypeOK
  <1>2. \/ status' = status /\ version' = version /\ since' = since
        \/ since' = 0
    BY DEF Frame
  <1>3. cache' \in [set : BOOLEAN, status : Statuses, version : 0..version', age : 0..TTL + 1]
    BY <1>1 DEF Frame
  <1>4. CacheOK'
    BY <1>1, <1>2, Bounds DEF CacheOK, Serves
  <1> QED BY <1>3, <1>4 DEF Entry

LEMMA AllHold ==
    ASSUME IInv, NEW w \in Workers, Frame(w), Owns(w), Rest, Entry
    PROVE  IInv' /\ \A x \in Workers : Promises(x)
  <1>1. \A x \in Workers : Owns(x)
    BY OthersKept DEF Rest
  <1>2. hand' \in [Workers -> Hands(version')]
    BY <1>1 DEF Owns, Frame
  <1>3. version' \in 0..MaxVersion /\ since' \in 0..Old
    BY TypeFacts, Bounds DEF IInv, Frame
  <1>4. TypeOK'
    BY <1>2, <1>3 DEF TypeOK, Rest, Entry, Frame, Hands
  <1> QED BY <1>1, <1>4 DEF IInv, Entry, Owns

Alert == {"store", "session", "admitted", "refused", "failed", "lift", "reactivate"}

LEMMA CalmOwns ==
    ASSUME IInv, NEW w \in Workers, hand'[w] \in Hands(version'), hand'[w].at \notin Alert,
           hand'[w].token = NoToken \/ hand'[w].token \in tokens', hand'[w].next \in Nexts,
           status' = status \/ hand[w].at \in Trusting \cup {"status"}
    PROVE  Owns(w)
  <1>1. HandOK(w)'
    BY DEF HandOK, Alert, Trusting
  <1>2. Promises(w)
    BY DEF Promises, Admits, TurnsAway, Alert, Trusting, IInv, HandOK
  <1> QED BY <1>1, <1>2 DEF Owns

\* A new hand that is calm, of an action that leaves the status.
LEMMA CalmAt ==
    ASSUME IInv, NEW w \in Workers, NEW a \in Steps \ Alert, NEW t,
           t = NoToken \/ t \in tokens', tokens' \subseteq Tokens, version' \in Nat,
           hand' = [hand EXCEPT ![w] = At(a, t)],
           status' = status \/ hand[w].at \in Trusting \cup {"status"}
    PROVE  Owns(w)
  <1>1. hand'[w] = At(a, t)
    BY TypeFacts DEF IInv
  <1>2. t \in Tokens
    BY TypeFacts DEF IInv
  <1>3. hand'[w] \in Hands(version')
    BY <1>1, <1>2, AtHand
  <1>4. hand'[w].at = a /\ hand'[w].token = t /\ hand'[w].next = "idle"
    BY <1>1 DEF At
  <1> QED BY <1>3, <1>4, CalmOwns DEF Nexts

LEMMA CalmIdle ==
    ASSUME IInv, NEW w \in Workers, tokens' \subseteq Tokens, version' \in Nat,
           hand' = [hand EXCEPT ![w] = Idle],
           status' = status \/ hand[w].at \in Trusting \cup {"status"}
    PROVE  Owns(w)
  <1>1. Idle = At("idle", NoToken)
    BY DEF Idle
  <1>2. "idle" \in Steps \ Alert
    BY DEF Steps, Alert
  <1> QED BY <1>1, <1>2, CalmAt

LEMMA RestKept ==
    ASSUME IInv, NEW w \in Workers, Frame(w), UNCHANGED <<session, tokens>>, left' \in BOOLEAN,
           ban' \in {ban, "running", "lapsed"}, acts' = acts \/ (acts < MaxActs /\ acts' = acts + 1)
    PROVE  Rest
  <1>1. acts' \in 0..MaxActs
    BY Bounds DEF IInv, TypeOK
  <1>2. \A t \in tokens : t.version <= version'
    BY TypeFacts DEF IInv, Frame, Tokens
  <1> QED BY <1>1, <1>2 DEF IInv, TypeOK, Rest

LEMMA StillRest ==
    ASSUME IInv, NEW w \in Workers, Frame(w), left' = left, ban' = ban, session' = session,
           tokens' = tokens, acts' = acts
    PROVE  Rest
  <1>1. left \in BOOLEAN
    BY DEF IInv, TypeOK
  <1>2. left' \in BOOLEAN /\ ban' \in {ban, "running", "lapsed"} /\ UNCHANGED <<session, tokens>>
    BY <1>1
  <1> QED BY <1>2, RestKept

-----------------------------------------------------------------------------
(* The actions, one by one. *)

LEMMA CheckStep ==
    ASSUME IInv, NEW w \in Workers, NEW t \in tokens, Check(w, t)
    PROVE  Owns(w) /\ Rest /\ Entry
  <1>0. Frame(w)
    BY ActsFrame DEF Acts
  <1>1. Rest /\ Entry
    <2>1. /\ left' = left /\ ban' = ban /\ session' = session /\ tokens' = tokens /\ acts' = acts
          /\ cache' = cache
      BY DEF Check, account
    <2> QED BY <1>0, <2>1, StillRest, CacheKept
  <1>2. /\ hand \in [Workers -> Hands(version)] /\ version \in Nat /\ status \in Statuses
        /\ t \in Tokens /\ version' = version /\ status' = status /\ since' = since
        /\ tokens' = tokens /\ since \in Nat
    BY TypeFacts DEF IInv, Check, account
  <1>3. CASE Serves(cache)
    <2> DEFINE a == IF Matches(t, cache.status, cache.version) THEN "session" ELSE "refused"
    <2>1. hand' = [hand EXCEPT ![w] = At(a, t)] /\ hand[w] = Idle
      BY <1>3 DEF Check, Start
    <2>2. a \in Steps
      BY DEF Steps
    <2> HIDE DEF a
    <2>3. hand'[w] = At(a, t)
      BY <1>2, <2>1
    <2>4. hand'[w] \in Hands(version')
      BY <1>2, <2>2, <2>3, AtHand
    <2>5. /\ hand'[w].at = a /\ hand'[w].token = t /\ hand'[w].next = "idle" /\ hand'[w].late = 0
          /\ hand'[w].overtaken = FALSE
      BY <2>3 DEF At
    <2>6. \/ cache.status = status /\ cache.version = version
          \/ since <= TTL + MaxDelay
      BY <1>2, <1>3, TypeFacts, Bounds DEF IInv, CacheOK, Serves
    <2>7. CASE Matches(t, cache.status, cache.version)
      <3>1. a = "session"
        BY <2>7 DEF a
      <3>2. Valid(t) \/ since <= TTL + MaxDelay
        BY <2>6, <2>7 DEF Matches, Valid
      <3>3. HandOK(w)'
        BY <1>2, <2>5, <3>1, <3>2, Bounds DEF HandOK, Valid, Nexts, Trusting
      <3> QED BY <1>1, <1>2, <2>4, <2>5, <3>1, <3>3 DEF Owns, Promises, Admits, TurnsAway
    <2>8. CASE ~Matches(t, cache.status, cache.version)
      <3>1. a = "refused"
        BY <2>8 DEF a
      <3>2. ~Deserves(t) \/ since <= TTL + MaxDelay
        BY <2>6, <2>8 DEF Matches, Deserves
      <3>3. HandOK(w)'
        BY <1>2, <2>5, <3>1 DEF HandOK, Nexts, Trusting
      <3>4. Promises(w)
        BY <1>2, <2>5, <3>1, <3>2, Bounds DEF Promises, Admits, TurnsAway
      <3> QED BY <1>1, <2>4, <3>3, <3>4 DEF Owns
    <2> QED BY <2>7, <2>8
  <1>b. hand[w].at = "idle"
    BY DEF Check, Start, Idle, At
  <1>a. CASE hand' = [hand EXCEPT ![w] = At("failed", NoToken)] /\ ~Serves(cache)
    <2>1. hand'[w] = At("failed", NoToken)
      BY <1>2, <1>a
    <2>2. hand'[w] \in Hands(version')
      BY <1>2, <2>1, AtHand, TypeFacts DEF Steps, IInv
    <2>3. hand'[w].at = "failed" /\ hand'[w].token = NoToken /\ hand'[w].next = "idle"
      BY <2>1 DEF At
    <2>4. HandOK(w)'
      BY <1>2, <2>3 DEF HandOK, Nexts, Trusting
    <2>5. Promises(w)
      BY <1>2, <1>a, <1>b, <2>3 DEF Promises, Admits, OwnReadFailed
    <2> QED BY <1>1, <2>2, <2>4, <2>5 DEF Owns
  <1>4. CASE ~Serves(cache) /\ hand' # [hand EXCEPT ![w] = At("failed", NoToken)]
    <2> DEFINE g == [At("store", t) EXCEPT !.status = status]
               h == [g EXCEPT !.version = version]
    <2>1. hand' = [hand EXCEPT ![w] = h] /\ hand[w] = Idle
      BY <1>4 DEF Check, Start
    <2>2. At("store", t) \in Hands(version)
      BY <1>2, AtHand DEF Steps
    <2>b. g.at = "store" /\ g.token = t /\ g.next = "idle" /\ g.status = status
      BY DEF At
    <2>3. g \in Hands(version) /\ g.at = "store" /\ g.token = t /\ g.next = "idle" /\ g.status = status
      BY <1>2, <2>2, <2>b DEF Hands
    <2> HIDE DEF g
    <2>4. h \in Hands(version)
      BY <1>2, <2>3 DEF Hands
    <2>a. h.at = "store" /\ h.token = t /\ h.next = "idle" /\ h.status = status /\ h.version = version
      BY <2>3 DEF Hands
    <2> HIDE DEF h
    <2>5. hand'[w] = h
      BY <1>2, <2>1
    <2>6. HandOK(w)'
      BY <1>2, <2>a, <2>5 DEF HandOK, Nexts, Trusting
    <2>7. Promises(w)
      BY <1>2, <2>a, <2>5 DEF Promises, Admits, TurnsAway
    <2> QED BY <1>1, <1>2, <2>4, <2>5, <2>6, <2>7 DEF Owns
  <1> QED BY <1>3, <1>a, <1>4

LEMMA StoreStep ==
    ASSUME IInv, NEW w \in Workers, Store(w)
    PROVE  Owns(w) /\ Rest /\ Entry
  <1>0. Frame(w)
    BY ActsFrame DEF Acts
  <1>1. Rest
    <2>1. left' = left /\ ban' = ban /\ session' = session /\ tokens' = tokens /\ acts' = acts
      BY DEF Store, account
    <2> QED BY <1>0, <2>1, StillRest
  <1>2. /\ hand \in [Workers -> Hands(version)] /\ version \in Nat /\ status \in Statuses
        /\ version' = version /\ status' = status /\ since' = since
        /\ tokens' = tokens /\ since \in Nat
    BY TypeFacts DEF IInv, Store, account
  <1> DEFINE t == hand[w].token
             a == IF Matches(t, hand[w].status, hand[w].version) THEN "session" ELSE "refused"
  <1>3. hand' = [hand EXCEPT ![w] = At(a, t)] /\ hand[w].at = "store"
    BY DEF Store
  <1>4. a \in Steps /\ t \in Tokens /\ (t = NoToken \/ t \in tokens)
    BY <1>2 DEF Steps, Hands, IInv, HandOK
  <1>5. /\ hand[w].version \in 0..version /\ hand[w].status \in Statuses
        /\ hand[w].late \in 0..MaxDelay
    BY <1>2 DEF Hands
  <1>6. \/ hand[w].status = status /\ hand[w].version = version
        \/ since <= MaxDelay
    BY <1>2, <1>3, <1>5, Bounds DEF IInv, HandOK
  <1>7. Entry
    <2>1. cache' = [set |-> TRUE, status |-> hand[w].status, version |-> hand[w].version, age |-> 0]
      BY DEF Store
    <2>2. cache' \in [set : BOOLEAN, status : Statuses, version : 0..version', age : 0..TTL + 1]
      BY <1>2, <1>5, <2>1, Bounds
    <2>3. cache'.status = hand[w].status /\ cache'.version = hand[w].version /\ cache'.age = 0
      BY <2>1
    <2>4. CacheOK'
      BY <1>2, <1>6, <2>3, Bounds DEF CacheOK
    <2> QED BY <2>2, <2>4 DEF Entry
  <1>8. hand'[w] = At(a, t)
    BY <1>2, <1>3
  <1> HIDE DEF a, t
  <1>9. hand'[w] \in Hands(version')
    BY <1>2, <1>4, <1>8, AtHand
  <1>10. /\ hand'[w].at = a /\ hand'[w].token = t /\ hand'[w].next = "idle" /\ hand'[w].late = 0
         /\ hand'[w].overtaken = FALSE
    BY <1>8 DEF At
  <1>11. CASE Matches(t, hand[w].status, hand[w].version)
    <2>1. a = "session"
      BY <1>11 DEF a
    <2>2. Valid(t) \/ since <= TTL + MaxDelay
      BY <1>2, <1>6, <1>11, Bounds DEF Matches, Valid
    <2>3. HandOK(w)'
      BY <1>2, <1>4, <1>10, <2>1, <2>2, Bounds DEF HandOK, Valid, Nexts, Trusting
    <2>4. Promises(w)
      BY <1>2, <1>10, <2>1 DEF Promises, Admits, TurnsAway
    <2> QED BY <1>1, <1>7, <1>9, <2>3, <2>4 DEF Owns
  <1>12. CASE ~Matches(t, hand[w].status, hand[w].version)
    <2>1. a = "refused"
      BY <1>12 DEF a
    <2>2. ~Deserves(t) \/ since <= TTL + MaxDelay
      BY <1>2, <1>6, <1>12, Bounds DEF Matches, Deserves
    <2>3. HandOK(w)'
      BY <1>2, <1>4, <1>10, <2>1 DEF HandOK, Nexts, Trusting
    <2>4. Promises(w)
      BY <1>2, <1>10, <2>1, <2>2, Bounds DEF Promises, Admits, TurnsAway
    <2> QED BY <1>1, <1>7, <1>9, <2>3, <2>4 DEF Owns
  <1> QED BY <1>11, <1>12

LEMMA CheckSessionStep ==
    ASSUME IInv, NEW w \in Workers, CheckSession(w)
    PROVE  Owns(w) /\ Rest /\ Entry
  <1>0. Frame(w)
    BY ActsFrame DEF Acts
  <1>1. Rest /\ Entry
    <2>1. /\ left' = left /\ ban' = ban /\ session' = session /\ tokens' = tokens /\ acts' = acts
          /\ cache' = cache
      BY DEF CheckSession, account
    <2> QED BY <1>0, <2>1, StillRest, CacheKept
  <1>2. /\ hand \in [Workers -> Hands(version)] /\ version \in Nat /\ status \in Statuses
        /\ version' = version /\ status' = status /\ since' = since /\ ban' = ban
        /\ tokens' = tokens /\ since \in Nat
    BY TypeFacts DEF IInv, CheckSession, account
  <1> DEFINE t == hand[w].token
  <1> DEFINE Answer == hand' = [hand EXCEPT ![w] =
                            IF t.session = NoSession \/ session[t.session] = "live"
                            THEN [At("admitted", t) EXCEPT !.overtaken = status = "banned"]
                            ELSE At("refused", t)]
  <1>3. /\ hand[w].at = "session"
        /\ \/ Answer
           \/ t.session # NoSession /\ hand' = [hand EXCEPT ![w] = At("failed", NoToken)]
    BY DEF CheckSession
  <1>4. t \in Tokens /\ (t = NoToken \/ t \in tokens) /\ hand[w].late \in 0..MaxDelay
    BY <1>2 DEF Hands, IInv, HandOK
  <1>5. Valid(t) \/ since <= TTL + MaxDelay + hand[w].late
    BY <1>3 DEF IInv, HandOK
  <1>6. Valid(t) \/ since <= Grace
    BY <1>2, <1>4, <1>5, Bounds DEF Grace
  <1> HIDE DEF t
  <1>7. CASE Answer /\ (t.session = NoSession \/ session[t.session] = "live")
    <2> DEFINE b == status = "banned"
               h == [At("admitted", t) EXCEPT !.overtaken = b]
    <2>1. hand'[w] = h
      BY <1>2, <1>3, <1>7
    <2>2. At("admitted", t) \in Hands(version)
      BY <1>2, <1>4, AtHand DEF Steps
    <2>3. b \in BOOLEAN
      OBVIOUS
    <2> HIDE DEF b
    <2>a. h = [at |-> "admitted", token |-> t, version |-> 0, status |-> "active",
               next |-> "idle", late |-> 0, overtaken |-> b]
      BY DEF At
    <2>4. h \in Hands(version)
      BY <2>2, <2>3 DEF Hands
    <2>5. h.at = "admitted" /\ h.token = t /\ h.next = "idle" /\ h.overtaken = b
      BY <2>a
    <2> HIDE DEF h
    <2>6. HandOK(w)'
      BY <1>2, <1>4, <2>1, <2>5 DEF HandOK, Nexts, b
    <2>7. Deserves(t) \/ since <= Grace
      BY <1>6, <1>7 DEF Valid, Deserves
    <2>8. Promises(w)
      BY <1>2, <2>1, <2>5, <2>7 DEF Promises, Admits, TurnsAway
    <2> QED BY <1>1, <1>2, <2>1, <2>4, <2>6, <2>8 DEF Owns
  <1>8. CASE Answer /\ ~(t.session = NoSession \/ session[t.session] = "live")
    <2>1. hand'[w] = At("refused", t)
      BY <1>2, <1>3, <1>8
    <2>2. hand'[w] \in Hands(version')
      BY <1>2, <1>4, <2>1, AtHand DEF Steps
    <2>3. hand'[w].at = "refused" /\ hand'[w].token = t /\ hand'[w].next = "idle"
      BY <2>1 DEF At
    <2>4. HandOK(w)'
      BY <1>2, <1>4, <2>3 DEF HandOK, Nexts, Trusting
    <2>5. ~Deserves(t)
      BY <1>8 DEF Deserves
    <2>6. Promises(w)
      BY <1>2, <2>3, <2>5 DEF Promises, Admits, TurnsAway
    <2> QED BY <1>1, <2>2, <2>4, <2>6 DEF Owns
  <1>9. CASE t.session # NoSession /\ hand' = [hand EXCEPT ![w] = At("failed", NoToken)]
    <2>1. hand'[w] = At("failed", NoToken)
      BY <1>2, <1>9
    <2>2. hand'[w] \in Hands(version')
      BY <1>2, <2>1, AtHand, TypeFacts DEF Steps, IInv
    <2>3. hand'[w].at = "failed" /\ hand'[w].token = NoToken /\ hand'[w].next = "idle"
      BY <2>1 DEF At
    <2>4. HandOK(w)'
      BY <1>2, <1>4, <2>3 DEF HandOK, Nexts, Trusting
    <2>5. Promises(w)
      BY <1>2, <1>3, <1>9, <2>3 DEF Promises, Admits, OwnReadFailed, t
    <2> QED BY <1>1, <2>2, <2>4, <2>5 DEF Owns
  <1> QED BY <1>3, <1>7, <1>8, <1>9

\* The steps after which the request has done, or waits at a calm point.
LEMMA FinishStep ==
    ASSUME IInv, NEW w \in Workers, Respond(w) \/ Stumble(w)
    PROVE  Owns(w) /\ Rest /\ Entry
  <1>0. Frame(w)
    BY ActsFrame DEF Acts
  <1>1. /\ hand' = [hand EXCEPT ![w] = Idle]
        /\ UNCHANGED <<account, ban, session, tokens, cache, acts>>
    BY DEF Respond, Stumble, Finish
  <1>2. Rest /\ Entry
    <2>1. /\ left' = left /\ ban' = ban /\ session' = session /\ tokens' = tokens /\ acts' = acts
          /\ cache' = cache
      BY <1>1 DEF account
    <2> QED BY <1>0, <2>1, StillRest, CacheKept
  <1>3. Owns(w)
    BY <1>1, <1>2, TypeFacts, CalmIdle DEF account, IInv, Rest
  <1> QED BY <1>2, <1>3

LEMMA EnterStep ==
    ASSUME IInv, NEW w \in Workers, Frame(w), NEW t \in Tokens, t = NoToken \/ t \in tokens,
           NEW step \in {"idle", "create", "issue", "rotate"}, Enter(w, t, step)
    PROVE  Owns(w) /\ Rest /\ Entry
  <1>1. UNCHANGED <<account, ban, session, tokens, cache, acts>>
    BY DEF Enter
  <1>2. /\ left' = left /\ ban' = ban /\ session' = session /\ tokens' = tokens /\ acts' = acts
        /\ cache' = cache /\ status' = status /\ version' = version /\ version \in Nat
    BY <1>1, TypeFacts DEF account, IInv
  <1>3. Rest /\ Entry
    BY <1>2, StillRest, CacheKept
  <1> DEFINE a == EntersBy(step)
             n == IF a = "lift" THEN step ELSE "idle"
             g == [At(a, t) EXCEPT !.version = version]
             h == [g EXCEPT !.next = n]
  <1>4. hand' = [hand EXCEPT ![w] = h]
    BY DEF Enter
  <1>5. /\ a \in {"create", "issue", "rotate", "lift"}
        /\ a = "lift" => ~(status = "banned" /\ ban = "running")
    BY DEF Enter, EntersBy
  <1>6. n \in Nexts /\ n \in Steps
    BY DEF Nexts, Steps
  <1> HIDE DEF a, n
  <1>7. At(a, t) \in Hands(version)
    BY <1>2, <1>5, AtHand DEF Steps
  <1>8. g.at = a /\ g.token = t
    BY DEF At
  <1>9. g \in Hands(version)
    BY <1>2, <1>7 DEF Hands
  <1> HIDE DEF g
  <1>10. h \in Hands(version) /\ h.at = a /\ h.token = t /\ h.next = n
    BY <1>6, <1>8, <1>9 DEF Hands
  <1> HIDE DEF h
  <1>11. hand'[w] = h
    BY <1>4, TypeFacts DEF IInv
  <1>12. HandOK(w)'
    BY <1>2, <1>5, <1>6, <1>10, <1>11 DEF HandOK, Trusting
  <1>13. Promises(w)
    BY <1>2, <1>5, <1>10, <1>11 DEF Promises, Admits, TurnsAway
  <1> QED BY <1>2, <1>3, <1>10, <1>11, <1>12, <1>13 DEF Owns

LEMMA RefreshTokenStep ==
    ASSUME IInv, NEW w \in Workers, NEW t \in tokens, RefreshToken(w, t)
    PROVE  Owns(w) /\ Rest /\ Entry
  <1>1. Frame(w)
    BY ActsFrame DEF Acts
  <1>2. PICK step \in {"idle", "create", "issue", "rotate"} : Enter(w, t, step)
    BY DEF RefreshToken
  <1>3. t \in Tokens
    BY TypeFacts DEF IInv
  <1> QED BY <1>1, <1>2, <1>3, EnterStep

LEMMA LoginStep ==
    ASSUME IInv, NEW w \in Workers, Login(w)
    PROVE  Owns(w) /\ Rest /\ Entry
  <1>1. Frame(w)
    BY ActsFrame DEF Acts
  <1>2. CASE Enter(w, NoToken, "create")
    BY <1>1, <1>2, TypeFacts, EnterStep DEF IInv
  <1>3. CASE /\ status = "suspended" /\ left
             /\ Start(w, [At("reactivate", NoToken) EXCEPT !.version = version])
             /\ UNCHANGED <<account, ban, session, tokens, cache, acts>>
    <2>1. /\ left' = left /\ ban' = ban /\ session' = session /\ tokens' = tokens /\ acts' = acts
          /\ cache' = cache /\ status' = status /\ version' = version /\ version \in Nat
      BY <1>3, TypeFacts DEF account, IInv
    <2>2. Rest /\ Entry
      BY <1>1, <2>1, StillRest, CacheKept
    <2> DEFINE h == [At("reactivate", NoToken) EXCEPT !.version = version]
    <2>3. At("reactivate", NoToken) \in Hands(version)
      BY <2>1, AtHand, TypeFacts DEF Steps, IInv
    <2>4. h \in Hands(version)
      BY <2>1, <2>3 DEF Hands
    <2>5. h.at = "reactivate" /\ h.token = NoToken /\ h.next = "idle"
      BY DEF At
    <2>6. hand' = [hand EXCEPT ![w] = h]
      BY <1>3 DEF Start
    <2> HIDE DEF h
    <2>7. hand'[w] = h
      BY <2>6, TypeFacts DEF IInv
    <2>8. HandOK(w)'
      BY <1>3, <2>1, <2>5, <2>7 DEF HandOK, Nexts
    <2>9. Promises(w)
      BY <2>1, <2>5, <2>7 DEF Promises, Admits, TurnsAway
    <2> QED BY <2>1, <2>2, <2>4, <2>7, <2>8, <2>9 DEF Owns
  <1> QED BY <1>2, <1>3 DEF Login

LEMMA IssueSteps ==
    ASSUME IInv, NEW w \in Workers, GoogleLogin(w) \/ Reissue(w)
    PROVE  Owns(w) /\ Rest /\ Entry
  <1>1. Frame(w)
    BY ActsFrame DEF Acts
  <1>2. PICK t : Enter(w, t, "issue") /\ (t = NoToken \/ t = hand[w].token)
    BY DEF GoogleLogin, Reissue
  <1>3. t \in Tokens /\ (t = NoToken \/ t \in tokens)
    BY <1>2, TypeFacts DEF IInv, HandOK
  <1> QED BY <1>1, <1>2, <1>3, EnterStep

LEMMA LiftStep ==
    ASSUME IInv, NEW w \in Workers, Lift(w)
    PROVE  Owns(w) /\ Rest /\ Entry
  <1>1. Frame(w)
    BY ActsFrame DEF Acts
  <1>2. /\ left' = left /\ ban' = ban /\ session' = session /\ tokens' = tokens /\ acts' = acts
        /\ cache' = cache /\ version' = version /\ version \in Nat /\ hand[w].at = "lift"
    BY TypeFacts DEF Lift, IInv
  <1>3. Rest /\ Entry
    BY <1>1, <1>2, StillRest, CacheKept
  <1>4. hand[w] \in Hands(version) /\ HandOK(w)
    BY TypeFacts DEF IInv
  <1>5. tokens' \subseteq Tokens
    BY <1>2, TypeFacts DEF IInv
  <1>6. CASE hand[w].next = "idle"
    BY <1>2, <1>3, <1>5, <1>6, CalmIdle DEF Lift, Trusting
  <1>7. CASE hand[w].next # "idle"
    <2> DEFINE t == hand[w].token
               a == hand[w].next
               v == hand[w].version
               h == [At(a, t) EXCEPT !.version = v]
    <2>1. hand' = [hand EXCEPT ![w] = h]
      BY <1>7 DEF Lift
    <2>2. a \in Steps /\ a \in Nexts /\ t \in Tokens /\ (t = NoToken \/ t \in tokens) /\ v \in 0..version
      BY <1>4 DEF Hands, HandOK
    <2> HIDE DEF t, a, v
    <2>3. At(a, t) \in Hands(version)
      BY <1>2, <2>2, AtHand
    <2>4. h \in Hands(version)
      BY <2>2, <2>3 DEF Hands
    <2>5. h.at = a /\ h.token = t /\ h.next = "idle"
      BY DEF At
    <2> HIDE DEF h
    <2>6. hand'[w] = h
      BY <2>1, TypeFacts DEF IInv
    <2>7. hand'[w].at \notin Alert
      BY <2>2, <2>5, <2>6 DEF Nexts, Alert
    <2>8. Owns(w)
      BY <1>2, <2>2, <2>4, <2>5, <2>6, <2>7, CalmOwns DEF Nexts, Trusting
    <2> QED BY <1>3, <2>8
  <1> QED BY <1>6, <1>7

LEMMA ReactivateStep ==
    ASSUME IInv, NEW w \in Workers, Reactivate(w)
    PROVE  Owns(w) /\ Rest /\ Entry
  <1>1. Frame(w)
    BY ActsFrame DEF Acts
  <1>2. /\ left' = FALSE /\ ban' = ban /\ session' = session /\ tokens' = tokens /\ acts' = acts
        /\ cache' = cache /\ version' = version /\ version \in Nat /\ hand[w].at = "reactivate"
    BY TypeFacts DEF Reactivate, IInv
  <1>3. Rest /\ Entry
    BY <1>1, <1>2, RestKept, CacheKept
  <1>4. hand[w] \in Hands(version) /\ HandOK(w)
    BY TypeFacts DEF IInv
  <1> DEFINE g == [hand[w] EXCEPT !.at = "create"]
             h == [g EXCEPT !.overtaken = FALSE]
  <1>5. hand' = [hand EXCEPT ![w] = h]
    BY TypeFacts DEF Reactivate, IInv
  <1>6. g \in Hands(version) /\ g.at = "create" /\ g.token = hand[w].token /\ g.next = hand[w].next
    BY <1>4 DEF Hands, Steps
  <1> HIDE DEF g
  <1>7. h \in Hands(version) /\ h.at = "create" /\ h.token = hand[w].token /\ h.next = hand[w].next
    BY <1>6 DEF Hands
  <1> HIDE DEF h
  <1>8. hand'[w] = h
    BY <1>5, TypeFacts DEF IInv
  <1>9. Owns(w)
    BY <1>2, <1>4, <1>7, <1>8, CalmOwns DEF HandOK, Alert, Trusting
  <1> QED BY <1>3, <1>9

LEMMA RotateStep ==
    ASSUME IInv, NEW w \in Workers, Rotate(w)
    PROVE  Owns(w) /\ Rest /\ Entry
  <1>1. Frame(w)
    BY ActsFrame DEF Acts
  <1>2. /\ left' = left /\ ban' = ban /\ tokens' = tokens /\ acts' = acts /\ hand[w].at = "rotate"
        /\ cache' = cache /\ version' = version /\ version \in Nat /\ status' = status
    BY TypeFacts DEF Rotate, account, IInv
  <1>3. /\ session \in [Sessions -> {"new", "live", "revoked"}] /\ acts \in 0..MaxActs
        /\ left \in BOOLEAN /\ ban \in {"none", "running", "lapsed"} /\ tokens \subseteq Tokens
        /\ \A t \in tokens : t.version <= version /\ (t.session # NoSession => session[t.session] # "new")
    BY DEF IInv, TypeOK
  <1>4. /\ session' \in [Sessions -> {"new", "live", "revoked"}]
        /\ \A s \in Sessions : session[s] # "new" => session'[s] # "new"
    BY <1>3 DEF Rotate
  <1>5. \A t \in tokens : t.session # NoSession => t.session \in Sessions
    BY <1>3 DEF Tokens
  <1>6. Rest /\ Entry
    BY <1>1, <1>2, <1>3, <1>4, <1>5, CacheKept DEF Rest
  <1>7. hand[w] \in Hands(version) /\ HandOK(w)
    BY TypeFacts DEF IInv
  <1> DEFINE g == [hand[w] EXCEPT !.at = "create"]
             h == [g EXCEPT !.token = NoToken]
  <1>8. hand' = [hand EXCEPT ![w] = h]
    BY TypeFacts DEF Rotate, IInv
  <1>9. g \in Hands(version) /\ g.at = "create" /\ g.next = hand[w].next
    BY <1>7 DEF Hands, Steps
  <1> HIDE DEF g
  <1>10. h \in Hands(version) /\ h.at = "create" /\ h.token = NoToken /\ h.next = hand[w].next
    BY <1>9, TypeFacts DEF Hands, IInv
  <1> HIDE DEF h
  <1>11. hand'[w] = h
    BY <1>8, TypeFacts DEF IInv
  <1>12. Owns(w)
    BY <1>2, <1>7, <1>10, <1>11, CalmOwns DEF HandOK, Alert
  <1> QED BY <1>6, <1>12

LEMMA IssueStep ==
    ASSUME IInv, NEW w \in Workers, Frame(w), NEW s, Issue(w, s), UNCHANGED <<account, ban, cache, acts>>,
           s \in Sessions \cup {NoSession},
           session' \in [Sessions -> {"new", "live", "revoked"}],
           \A x \in Sessions : session[x] # "new" => session'[x] # "new",
           s # NoSession => session'[s] # "new"
    PROVE  Owns(w) /\ Rest /\ Entry
  <1>1. /\ left' = left /\ ban' = ban /\ acts' = acts /\ cache' = cache
        /\ version' = version /\ status' = status
    BY DEF account
  <1>2. /\ acts \in 0..MaxActs /\ left \in BOOLEAN /\ ban \in {"none", "running", "lapsed"}
        /\ tokens \subseteq Tokens
        /\ \A t \in tokens : t.version <= version /\ (t.session # NoSession => session[t.session] # "new")
    BY DEF IInv, TypeOK
  <1>3. version \in 0..MaxVersion /\ version \in Nat /\ hand[w] \in Hands(version)
    BY TypeFacts DEF IInv, TypeOK
  <1> DEFINE v == hand[w].version
             t == [session |-> s, version |-> v]
  <1>4. v \in 0..version /\ v <= version /\ v \in 0..MaxVersion
    BY <1>3, Bounds DEF Hands
  <1>5. tokens' = tokens \cup {t} /\ hand' = [hand EXCEPT ![w] = Idle]
    BY DEF Issue, Finish
  <1> HIDE DEF v
  <1>6. t \in Tokens /\ t.session = s /\ t.version = v
    BY <1>4 DEF Tokens
  <1> HIDE DEF t
  <1>7. \A x \in tokens : x.session # NoSession => session'[x.session] # "new"
    BY <1>2 DEF Tokens
  <1>8. tokens \subseteq tokens' /\ tokens' \subseteq Tokens
    BY <1>2, <1>5, <1>6
  <1>9. \A x \in tokens' : x.version <= version' /\ (x.session # NoSession => session'[x.session] # "new")
    BY <1>1, <1>2, <1>4, <1>5, <1>6, <1>7
  <1>10. Rest /\ Entry
    BY <1>1, <1>2, <1>8, <1>9, CacheKept DEF Rest
  <1>11. Owns(w)
    BY <1>1, <1>3, <1>5, <1>8, CalmIdle
  <1> QED BY <1>10, <1>11

LEMMA CreateSessionStep ==
    ASSUME IInv, NEW w \in Workers, NEW s \in Sessions, CreateSession(w, s)
    PROVE  Owns(w) /\ Rest /\ Entry
  <1>1. Frame(w)
    BY ActsFrame DEF Acts
  <1>2. session' = [session EXCEPT ![s] = "live"] /\ Issue(w, s) /\ UNCHANGED <<account, ban, cache, acts>>
    BY DEF CreateSession
  <1>3. session \in [Sessions -> {"new", "live", "revoked"}]
    BY DEF IInv, TypeOK
  <1>4. /\ session' \in [Sessions -> {"new", "live", "revoked"}]
        /\ \A x \in Sessions : session[x] # "new" => session'[x] # "new"
        /\ session'[s] # "new"
    BY <1>2, <1>3
  <1> QED BY <1>1, <1>2, <1>4, IssueStep

LEMMA GenerateTokensStep ==
    ASSUME IInv, NEW w \in Workers, GenerateTokens(w)
    PROVE  Owns(w) /\ Rest /\ Entry
  <1>1. Frame(w)
    BY ActsFrame DEF Acts
  <1> DEFINE s == hand[w].token.session
  <1>2. Issue(w, s) /\ UNCHANGED <<account, ban, cache, acts>> /\ session' = session
    BY DEF GenerateTokens, account
  <1>3. session \in [Sessions -> {"new", "live", "revoked"}]
    BY DEF IInv, TypeOK
  <1>4. hand[w].token = NoToken \/ hand[w].token \in tokens
    BY DEF IInv, HandOK
  <1>5. s \in Sessions \cup {NoSession} /\ (s # NoSession => session[s] # "new")
    <2>1. CASE hand[w].token = NoToken
      BY <2>1 DEF NoToken
    <2>2. CASE hand[w].token \in tokens
      BY <2>2 DEF IInv, TypeOK, Tokens
    <2> QED BY <1>4, <2>1, <2>2
  <1> HIDE DEF s
  <1> QED BY <1>1, <1>2, <1>3, <1>5, IssueStep

LEMMA LogoutStep ==
    ASSUME IInv, NEW w \in Workers, Logout(w)
    PROVE  Owns(w) /\ Rest /\ Entry
  <1>1. Frame(w)
    BY ActsFrame DEF Acts
  <1>2. /\ left' = left /\ ban' = ban /\ session' = session /\ tokens' = tokens /\ acts' = acts
        /\ cache' = cache /\ status' = status /\ version' = version /\ version \in Nat
    BY TypeFacts DEF Logout, account, IInv
  <1>3. Rest /\ Entry
    BY <1>1, <1>2, StillRest, CacheKept
  <1> DEFINE h == [At("revoke", NoToken) EXCEPT !.next = "bump"]
  <1>4. At("revoke", NoToken) \in Hands(version)
    BY <1>2, AtHand, TypeFacts DEF Steps, IInv
  <1>5. h \in Hands(version)
    BY <1>4 DEF Hands, Steps
  <1>6. h.at = "revoke" /\ h.token = NoToken /\ h.next = "bump"
    BY DEF At
  <1>7. hand' = [hand EXCEPT ![w] = h]
    BY DEF Logout
  <1> HIDE DEF h
  <1>8. hand'[w] = h
    BY <1>7, TypeFacts DEF IInv
  <1>9. Owns(w)
    BY <1>2, <1>5, <1>6, <1>8, CalmOwns DEF Nexts, Alert
  <1> QED BY <1>3, <1>9

\* What a handler goes on with when its hand names the next step.
LEMMA NextHand ==
    ASSUME IInv, NEW w \in Workers, hand' = [hand EXCEPT ![w] = At(hand[w].next, NoToken)],
           UNCHANGED <<status, version, tokens>>
    PROVE  Owns(w)
  <1>1. hand[w].next \in Nexts /\ hand[w].next \in Steps
    BY TypeFacts DEF IInv, HandOK, Hands
  <1>2. hand[w].next \in Steps \ Alert
    BY <1>1 DEF Nexts, Alert
  <1>3. tokens' \subseteq Tokens /\ version' \in Nat /\ status' = status
    BY TypeFacts DEF IInv
  <1> QED BY <1>2, <1>3, CalmAt

LEMMA RevokeRest ==
    ASSUME IInv, NEW w \in Workers, Frame(w), (\E S : RevokeIn(S)) \/ session' = session,
           left' = left, ban' = ban, tokens' = tokens, acts' = acts
    PROVE  Rest
  <1>1. CASE session' = session
    BY <1>1, StillRest
  <1>2. ASSUME NEW S, RevokeIn(S)
        PROVE  Rest
    <2>1. /\ session \in [Sessions -> {"new", "live", "revoked"}] /\ acts \in 0..MaxActs
          /\ left \in BOOLEAN /\ ban \in {"none", "running", "lapsed"} /\ tokens \subseteq Tokens
          /\ \A t \in tokens : t.version <= version /\ (t.session # NoSession => session[t.session] # "new")
      BY DEF IInv, TypeOK
    <2>2. session' \in [Sessions -> {"new", "live", "revoked"}]
      BY <1>2, <2>1 DEF RevokeIn
    <2>3. \A s \in Sessions : session[s] # "new" => session'[s] # "new"
      BY <1>2, <2>1 DEF RevokeIn
    <2>4. \A t \in tokens : t.session # NoSession => session'[t.session] # "new"
      BY <2>1, <2>3 DEF Tokens
    <2>5. \A t \in tokens : t.version <= version'
      BY <2>1, TypeFacts DEF Tokens, IInv, Frame
    <2> QED BY <2>1, <2>2, <2>4, <2>5 DEF Rest
  <1> QED BY <1>1, <1>2

LEMMA RevokeAllStep ==
    ASSUME IInv, NEW w \in Workers, RevokeAll(w)
    PROVE  Owns(w) /\ Rest /\ Entry
  <1>1. Frame(w)
    BY ActsFrame DEF Acts
  <1>2. /\ left' = left /\ ban' = ban /\ tokens' = tokens /\ acts' = acts
        /\ cache' = cache /\ status' = status /\ version' = version
    BY DEF RevokeAll, account
  <1>3. (RevokeIn(Sessions) \/ session' = session) /\ hand' = [hand EXCEPT ![w] = At(hand[w].next, NoToken)]
    BY DEF RevokeAll
  <1>4. Owns(w)
    BY <1>2, <1>3, NextHand
  <1>5. Rest
    BY <1>1, <1>2, <1>3, RevokeRest
  <1> QED BY <1>1, <1>2, <1>4, <1>5, CacheKept

LEMMA RevokeSessionsStep ==
    ASSUME IInv, NEW w \in Workers, RevokeSessions(w)
    PROVE  Owns(w) /\ Rest /\ Entry
  <1>1. Frame(w)
    BY ActsFrame DEF Acts
  <1>2. /\ left' = left /\ ban' = ban /\ tokens' = tokens /\ acts' = acts
        /\ cache' = cache /\ status' = status /\ version' = version
    BY DEF RevokeSessions, account
  <1>3. (\E S : RevokeIn(S)) /\ hand' = [hand EXCEPT ![w] = Idle]
    BY DEF RevokeSessions, Finish
  <1>4. Owns(w)
    BY <1>2, <1>3, CalmIdle, TypeFacts DEF IInv
  <1>5. Rest
    BY <1>1, <1>2, <1>3, RevokeRest
  <1> QED BY <1>1, <1>2, <1>4, <1>5, CacheKept

LEMMA IncrementStep ==
    ASSUME IInv, NEW w \in Workers, IncrementTokenVersion(w)
    PROVE  Owns(w) /\ Rest /\ Entry
  <1>1. Frame(w)
    BY ActsFrame DEF Acts
  <1>2. /\ left' = left /\ ban' = ban /\ session' = session /\ tokens' = tokens /\ acts' = acts
        /\ cache' = cache /\ status' = status
        /\ version \in Nat /\ version' = version + 1
    BY TypeFacts DEF IncrementTokenVersion, IInv
  <1>3. Rest /\ Entry
    BY <1>1, <1>2, StillRest, CacheKept
  <1>4. hand[w] \in Hands(version) /\ HandOK(w)
    BY TypeFacts DEF IInv
  <1>5. hand[w] \in Hands(version')
    BY <1>2, <1>4 DEF Hands
  <1> DEFINE h == [hand[w] EXCEPT !.at = "invalidate"]
  <1>6. h \in Hands(version') /\ h.at = "invalidate" /\ h.token = hand[w].token /\ h.next = hand[w].next
    BY <1>5 DEF Hands, Steps
  <1>7. hand' = [hand EXCEPT ![w] = h]
    BY TypeFacts DEF IncrementTokenVersion, GoOn, IInv
  <1> HIDE DEF h
  <1>8. hand'[w] = h
    BY <1>7, TypeFacts DEF IInv
  <1>9. Owns(w)
    BY <1>2, <1>4, <1>6, <1>8, CalmOwns DEF HandOK, Alert
  <1> QED BY <1>3, <1>9

LEMMA InvalidateStep ==
    ASSUME IInv, NEW w \in Workers, InvalidateAuthCache(w)
    PROVE  Owns(w) /\ Rest /\ Entry
  <1>1. Frame(w)
    BY ActsFrame DEF Acts
  <1>2. /\ left' = left /\ ban' = ban /\ session' = session /\ tokens' = tokens /\ acts' = acts
        /\ status' = status /\ version' = version /\ cache' = NoEntry /\ version \in Nat
    BY TypeFacts DEF InvalidateAuthCache, account, IInv
  <1>3. hand' = [hand EXCEPT ![w] = At(hand[w].next, NoToken)]
    BY DEF InvalidateAuthCache
  <1>4. Owns(w)
    BY <1>2, <1>3, NextHand
  <1>5. Entry
    BY <1>2, Bounds DEF Entry, NoEntry, Statuses, CacheOK, Serves
  <1> QED BY <1>1, <1>2, <1>4, <1>5, StillRest

LEMMA DeactivateStep ==
    ASSUME IInv, NEW w \in Workers, Deactivate(w)
    PROVE  Owns(w) /\ Rest /\ Entry
  <1>1. Frame(w)
    BY ActsFrame DEF Acts
  <1>2. /\ left' = TRUE /\ ban' = ban /\ session' = session /\ tokens' = tokens /\ acts' = acts
        /\ cache' = cache /\ version \in Nat /\ version' = version + 1 /\ hand[w].at = "admitted"
        /\ hand' = [hand EXCEPT ![w] = At("revoke", NoToken)]
    BY TypeFacts DEF Deactivate, IInv
  <1>3. Rest /\ Entry
    BY <1>1, <1>2, RestKept, CacheKept
  <1>4. "revoke" \in Steps \ Alert
    BY DEF Steps, Alert
  <1>5. tokens' \subseteq Tokens /\ version' \in Nat
    BY <1>2, TypeFacts DEF IInv
  <1>6. Owns(w)
    BY <1>2, <1>4, <1>5, CalmAt DEF Trusting
  <1> QED BY <1>3, <1>6

LEMMA ActStep ==
    ASSUME IInv, NEW w \in Workers, Frame(w), NEW step \in {"status", "row"}, NEW s \in Statuses,
           NEW n \in {"idle", "status", "row"}, Act(w, step, s, n)
    PROVE  Owns(w) /\ Rest /\ Entry
  <1>1. /\ left' = left /\ ban' = ban /\ session' = session /\ tokens' = tokens
        /\ cache' = cache /\ status' = status /\ version' = version /\ version \in Nat
        /\ acts < MaxActs /\ acts' = acts + 1
    BY TypeFacts DEF Act, account, IInv
  <1>2. left' \in BOOLEAN /\ UNCHANGED <<session, tokens>>
    BY <1>1 DEF IInv, TypeOK
  <1>3. Rest /\ Entry
    BY <1>1, <1>2, RestKept, CacheKept
  <1> DEFINE g == [At(step, NoToken) EXCEPT !.status = s]
             h == [g EXCEPT !.next = n]
  <1>4. At(step, NoToken) \in Hands(version)
    BY <1>1, AtHand, TypeFacts DEF Steps, IInv
  <1>5. hand' = [hand EXCEPT ![w] = h]
    BY DEF Act
  <1>6. g.at = step /\ g.token = NoToken
    BY DEF At
  <1>7. g \in Hands(version)
    BY <1>4 DEF Hands
  <1> HIDE DEF g
  <1>8. h \in Hands(version) /\ h.at = step /\ h.token = NoToken /\ h.next = n
    BY <1>6, <1>7 DEF Hands, Steps
  <1> HIDE DEF h
  <1>9. hand'[w] = h
    BY <1>5, TypeFacts DEF IInv
  <1>10. Owns(w)
    BY <1>1, <1>8, <1>9, CalmOwns DEF Nexts, Alert
  <1> QED BY <1>3, <1>10

LEMMA AdminSteps ==
    ASSUME IInv, NEW w \in Workers,
           (\E s \in Statuses : UpdateUserStatus(w, s)) \/ BanUser(w) \/ BanReported(w)
    PROVE  Owns(w) /\ Rest /\ Entry
  <1>1. Frame(w)
    BY ActsFrame DEF Acts
  <1>2. PICK step \in {"status", "row"}, s \in Statuses, n \in {"idle", "status", "row"} :
          Act(w, step, s, n)
    BY DEF UpdateUserStatus, BanUser, BanReported, Statuses
  <1> QED BY <1>1, <1>2, ActStep

LEMMA CreateBanStep ==
    ASSUME IInv, NEW w \in Workers, CreateBan(w)
    PROVE  Owns(w) /\ Rest /\ Entry
  <1>1. Frame(w)
    BY ActsFrame DEF Acts
  <1>2. /\ left' = left /\ ban' = "running" /\ session' = session /\ tokens' = tokens /\ acts' = acts
        /\ cache' = cache /\ status' = status /\ version' = version /\ version \in Nat
    BY TypeFacts DEF CreateBan, account, IInv
  <1>3. left' \in BOOLEAN /\ UNCHANGED <<session, tokens>>
    BY <1>2 DEF IInv, TypeOK
  <1>4. Rest /\ Entry
    BY <1>1, <1>2, <1>3, RestKept, CacheKept
  <1>5. hand[w] \in Hands(version) /\ HandOK(w) /\ NoToken \in Tokens
    BY TypeFacts DEF IInv
  <1> DEFINE g == [hand[w] EXCEPT !.at = "status"]
             f == [g EXCEPT !.next = "idle"]
             h == IF hand[w].next = "idle" THEN Idle ELSE f
  <1>6. hand' = Overtake(w, h)
    BY DEF CreateBan
  <1>7. hand'[w] = h
    BY <1>6 DEF Overtake
  <1>8. g \in Hands(version) /\ g.at = "status" /\ g.token = hand[w].token
    BY <1>5 DEF Hands, Steps
  <1> HIDE DEF g
  <1>9. f \in Hands(version) /\ f.at = "status" /\ f.token = hand[w].token /\ f.next = "idle"
    BY <1>8 DEF Hands, Steps
  <1> HIDE DEF f
  <1>10. Idle \in Hands(version) /\ Idle.at = "idle" /\ Idle.token = NoToken /\ Idle.next = "idle"
    BY <1>2, <1>5, AtHand DEF Idle, Steps, At
  <1>11. /\ h \in Hands(version) /\ h.at \in {"idle", "status"} /\ h.next = "idle"
         /\ h.token = NoToken \/ h.token \in tokens
    BY <1>5, <1>9, <1>10 DEF HandOK
  <1> HIDE DEF h
  <1>12. Owns(w)
    BY <1>2, <1>7, <1>11, CalmOwns DEF Nexts, Alert
  <1> QED BY <1>4, <1>12

LEMMA SetStatusStep ==
    ASSUME IInv, NEW w \in Workers, SetStatus(w)
    PROVE  Owns(w) /\ Rest /\ Entry
  <1>1. Frame(w)
    BY ActsFrame DEF Acts
  <1>2. /\ left' = left /\ ban' = ban /\ session' = session /\ tokens' = tokens /\ acts' = acts
        /\ cache' = cache /\ version' = version /\ version \in Nat /\ hand[w].at = "status"
    BY TypeFacts DEF SetStatus, IInv
  <1>3. Rest /\ Entry
    BY <1>1, <1>2, StillRest, CacheKept
  <1>4. hand[w] \in Hands(version) /\ HandOK(w) /\ NoToken \in Tokens
    BY TypeFacts DEF IInv
  <1> DEFINE n == hand[w].next
             h == [At("invalidate", NoToken) EXCEPT !.next = n]
  <1>5. hand' = IF hand[w].status = "banned" THEN Overtake(w, h) ELSE [hand EXCEPT ![w] = h]
    BY DEF SetStatus
  <1>6. n \in Nexts /\ n \in Steps
    BY <1>4 DEF HandOK, Hands
  <1> HIDE DEF n
  <1>7. At("invalidate", NoToken) \in Hands(version)
    BY <1>2, <1>4, AtHand DEF Steps
  <1>8. h.at = "invalidate" /\ h.token = NoToken /\ h.next = n
    BY DEF At
  <1>9. h \in Hands(version)
    BY <1>6, <1>7 DEF Hands
  <1> HIDE DEF h
  <1>10. hand'[w] = h
    <2>1. CASE hand[w].status = "banned"
      BY <1>5, <2>1 DEF Overtake
    <2>2. CASE hand[w].status # "banned"
      BY <1>5, <2>2, TypeFacts DEF IInv
    <2> QED BY <2>1, <2>2
  <1>11. Owns(w)
    BY <1>2, <1>6, <1>8, <1>9, <1>10, CalmOwns DEF Alert
  <1> QED BY <1>3, <1>11

\* A step of any request keeps the invariant and every promise.
LEMMA ActsStep ==
    ASSUME IInv, NEW w \in Workers, Acts(w)
    PROVE  IInv' /\ \A x \in Workers : Promises(x)
  <1>1. Owns(w) /\ Rest /\ Entry
    BY CheckStep, RefreshTokenStep, StoreStep, CheckSessionStep, FinishStep, LoginStep, IssueSteps,
       LiftStep, ReactivateStep, RotateStep, CreateSessionStep, GenerateTokensStep, LogoutStep,
       RevokeAllStep, IncrementStep, InvalidateStep, RevokeSessionsStep, DeactivateStep, AdminSteps,
       CreateBanStep, SetStatusStep DEF Acts
  <1> QED BY <1>1, ActsFrame, AllHold

LEMMA StillPromises ==
    ASSUME NEW w \in Workers, status' = status, hand'[w].at = hand[w].at \/ hand'[w].at = "idle"
    PROVE  Promises(w)
  BY DEF Promises, Admits, TurnsAway

LEMMA TickStep ==
    ASSUME IInv, Tick
    PROVE  IInv' /\ \A x \in Workers : Promises(x)
  <1>1. /\ UNCHANGED <<status, left, version, ban, session, tokens, acts>>
        /\ version \in Nat /\ since \in Nat /\ since <= Old
        /\ hand \in [Workers -> Hands(version)] /\ cache.age \in Nat
    BY TypeFacts DEF Tick, IInv
  <1>2. since' \in Nat /\ since' <= Old /\ since' <= since + 1
    BY <1>1, Bounds DEF Tick
  <1>3. ASSUME NEW w \in Workers
        PROVE  hand'[w] \in Hands(version) /\ HandOK(w)' /\ Promises(w)
    <2>1. HandOK(w) /\ hand[w] \in Hands(version) /\ hand[w].late \in Nat
      BY <1>1, Bounds DEF IInv, Hands
    <2>2. CASE w \in Reading
      <3>1. hand[w].late + 1 \in 0..MaxDelay /\ hand[w].at \in {"store", "session"}
        BY <2>1, <2>2, Bounds DEF Tick, Reading
      <3> DEFINE l == hand[w].late + 1
                 h == [hand[w] EXCEPT !.late = l]
      <3>2. hand'[w] = h
        BY <2>2 DEF Tick
      <3>3. /\ h \in Hands(version) /\ h.at = hand[w].at /\ h.token = hand[w].token
            /\ h.version = hand[w].version /\ h.status = hand[w].status /\ h.next = hand[w].next
            /\ h.late = l
        BY <2>1, <3>1 DEF Hands
      <3>4. l = hand[w].late + 1
        OBVIOUS
      <3> HIDE DEF h, l
      <3>5. h.at = "store" => \/ h.status = status /\ h.version = version
                              \/ since' <= h.late
        BY <1>1, <1>2, <2>1, <3>3, <3>4 DEF HandOK
      <3>6. h.at = "session" => Valid(h.token) \/ since' <= TTL + MaxDelay + h.late
        BY <1>1, <1>2, <2>1, <3>3, <3>4, Bounds DEF HandOK
      <3>7. HandOK(w)'
        BY <1>1, <2>1, <3>1, <3>2, <3>3, <3>5, <3>6 DEF HandOK, Valid, Trusting
      <3> QED BY <1>1, <3>2, <3>3, <3>7, StillPromises
    <2>3. CASE w \notin Reading
      <3>1. hand'[w] = hand[w] /\ hand[w].at \notin {"store", "session"}
        BY <2>3 DEF Tick, Reading
      <3>2. HandOK(w)'
        BY <1>1, <2>1, <3>1 DEF HandOK
      <3> QED BY <1>1, <2>1, <3>1, <3>2, StillPromises
    <2> QED BY <2>2, <2>3
  <1>4. hand' \in [Workers -> Hands(version)]
    BY <1>3 DEF Tick
  <1>5. /\ cache' \in [set : BOOLEAN, status : Statuses, version : 0..version, age : 0..TTL + 1]
        /\ CacheOK'
    <2>1. cache \in [set : BOOLEAN, status : Statuses, version : 0..version, age : 0..TTL + 1] /\ CacheOK
      BY DEF IInv, TypeOK
    <2>2. CASE Serves(cache)
      <3>1. cache' = [cache EXCEPT !.age = @ + 1] /\ cache.age <= TTL
        BY <2>2 DEF Tick, Serves
      <3>2. cache.age + 1 \in 0..TTL + 1
        BY <1>1, <3>1, Bounds
      <3>3. /\ cache' \in [set : BOOLEAN, status : Statuses, version : 0..version, age : 0..TTL + 1]
            /\ cache'.status = cache.status /\ cache'.version = cache.version
            /\ cache'.age = cache.age + 1
        BY <2>1, <3>1, <3>2
      <3>4. CacheOK'
        BY <1>1, <1>2, <2>1, <2>2, <3>3, Bounds DEF CacheOK
      <3> QED BY <3>3, <3>4
    <2>3. CASE ~Serves(cache)
      <3>1. cache' = cache
        BY <2>3 DEF Tick
      <3> QED BY <1>1, <2>1, <2>3, <3>1 DEF CacheOK, Serves
    <2> QED BY <2>2, <2>3
  <1>6. TypeOK'
    <2>1. since' \in 0..Old
      BY <1>2, Bounds
    <2> QED BY <1>1, <1>4, <1>5, <2>1 DEF IInv, TypeOK, Hands
  <1> QED BY <1>3, <1>5, <1>6 DEF IInv

LEMMA BanLapsesStep ==
    ASSUME IInv, BanLapses
    PROVE  IInv' /\ \A x \in Workers : Promises(x)
  <1>1. /\ status' = status /\ left' = left /\ version' = version /\ since' = since
        /\ session' = session /\ tokens' = tokens /\ cache' = cache /\ acts' = acts /\ hand' = hand
        /\ ban' = "lapsed"
    BY DEF BanLapses, account
  <1>2. TypeOK'
    BY <1>1 DEF IInv, TypeOK
  <1>3. CacheOK' /\ \A w \in Workers : HandOK(w)'
    BY <1>1 DEF IInv, CacheOK, Serves, HandOK, Valid
  <1> QED BY <1>1, <1>2, <1>3, StillPromises DEF IInv

LEMMA RestartStep ==
    ASSUME IInv, Restart
    PROVE  IInv' /\ \A x \in Workers : Promises(x)
  <1>1. /\ status' = status /\ left' = left /\ version' = version /\ since' = since /\ ban' = ban
        /\ session' = session /\ tokens' = tokens /\ acts' = acts
        /\ cache' = NoEntry /\ hand' = [w \in Workers |-> Idle] /\ version \in Nat
    BY TypeFacts DEF Restart, account, IInv
  <1>2. Idle \in Hands(version)
    BY <1>1, AtHand, TypeFacts DEF Idle, Steps, IInv
  <1>3. Idle.at = "idle" /\ Idle.token = NoToken /\ Idle.next = "idle"
    BY DEF Idle, At
  <1>4. hand' \in [Workers -> Hands(version)] /\ \A w \in Workers : hand'[w] = Idle
    BY <1>1, <1>2
  <1>5. NoEntry \in [set : BOOLEAN, status : Statuses, version : 0..version, age : 0..TTL + 1]
    BY <1>1, Bounds DEF NoEntry, Statuses
  <1>6. TypeOK'
    BY <1>1, <1>4, <1>5 DEF IInv, TypeOK, Hands
  <1>7. CacheOK'
    BY <1>1 DEF CacheOK, Serves, NoEntry
  <1>8. \A w \in Workers : HandOK(w)'
    BY <1>3, <1>4 DEF HandOK, Nexts, Trusting
  <1> QED BY <1>1, <1>3, <1>4, <1>6, <1>7, <1>8, StillPromises DEF IInv

LEMMA InitHolds == ASSUME Init PROVE IInv
  <1>1. Idle \in Hands(0)
    BY AtHand, Bounds DEF Idle, Steps, NoToken, Tokens
  <1>2. Idle.at = "idle" /\ Idle.token = NoToken /\ Idle.next = "idle"
    BY DEF Idle, At
  <1>3. /\ version = 0 /\ cache = NoEntry /\ since = Old /\ tokens = {}
        /\ hand = [w \in Workers |-> Idle]
    BY DEF Init
  <1>4. hand \in [Workers -> Hands(version)]
    BY <1>1, <1>3
  <1>5. NoEntry \in [set : BOOLEAN, status : Statuses, version : 0..version, age : 0..TTL + 1]
    BY <1>3, Bounds DEF NoEntry, Statuses
  <1>6. TypeOK
    <2>b. status = "active" /\ left = FALSE /\ ban \in {"none", "lapsed"} /\ acts = 0
      BY DEF Init
    <2>1. status \in Statuses /\ left \in BOOLEAN /\ ban \in {"none", "running", "lapsed"}
      BY <2>b DEF Statuses
    <2>c. 0 \in 0..MaxVersion /\ 0 \in 0..MaxActs /\ Old \in 0..Old
      BY Bounds
    <2>d. version \in 0..MaxVersion /\ acts \in 0..MaxActs /\ since \in 0..Old
      BY <1>3, <2>b, <2>c
    <2>a. session \in [Sessions -> {"new", "live", "revoked"}]
      BY DEF Init
    <2>2. hand \in [Workers -> [at : Steps, token : Tokens, version : 0..version, status : Statuses,
                              next : Steps, late : 0..MaxDelay, overtaken : BOOLEAN]]
      BY <1>4 DEF Hands
    <2>3. cache \in [set : BOOLEAN, status : Statuses, version : 0..version, age : 0..TTL + 1]
      BY <1>3, <1>5
    <2> QED BY <1>3, <2>1, <2>a, <2>d, <2>2, <2>3 DEF TypeOK
  <1>7. CacheOK
    BY <1>3 DEF CacheOK, Serves, NoEntry
  <1>8. \A w \in Workers : HandOK(w)
    BY <1>2, <1>3 DEF HandOK, Nexts, Trusting
  <1> QED BY <1>6, <1>7, <1>8 DEF IInv

LEMMA NextStep ==
    ASSUME IInv, [Next]_vars
    PROVE  IInv' /\ \A x \in Workers : Promises(x)
  <1>1. ASSUME NEW w \in Workers, Acts(w) PROVE IInv' /\ \A x \in Workers : Promises(x)
    BY <1>1, ActsStep
  <1>2. CASE UNCHANGED vars
    <2>1. /\ status' = status /\ left' = left /\ version' = version /\ since' = since /\ ban' = ban
          /\ session' = session /\ tokens' = tokens /\ acts' = acts /\ cache' = cache /\ hand' = hand
      BY <1>2 DEF vars
    <2>2. TypeOK' /\ CacheOK' /\ \A w \in Workers : HandOK(w)'
      BY <2>1 DEF IInv, TypeOK, CacheOK, Serves, HandOK, Valid
    <2> QED BY <2>1, <2>2, StillPromises DEF IInv
  <1> QED BY <1>1, <1>2, TickStep, BanLapsesStep, RestartStep DEF Next, Acts

-----------------------------------------------------------------------------
(* The theorems. *)

\* The inductive invariant holds in every state.
THEOREM Invariant == Spec => []IInv
  <1>1. Init => IInv
    BY InitHolds
  <1>2. IInv /\ [Next]_vars => IInv'
    BY NextStep
  <1> QED BY <1>1, <1>2, PTL DEF Spec

\* No token of a version still to come is given out, nor one of a session that has
\* no row, and every handler keeps to its steps.
THEOREM TypeCorrect == Spec => []TypeOK
  <1>1. IInv => TypeOK
    BY DEF IInv
  <1> QED BY <1>1, Invariant, PTL

\* For every TTL and delay: who is banned, suspended or logged out is let in for
\* the TTL and twice the delay of the middleware, and no longer.
THEOREM CacheForgets == Spec => LetInForGrace
  <1>1. IInv /\ [Next]_vars =>
          [\A w \in Workers : Admits(w) => since <= Grace \/ Deserves(hand'[w].token)]_vars
    BY NextStep DEF Promises
  <1> QED BY <1>1, Invariant, PTL DEF Spec, LetInForGrace

\* A good token is refused for the TTL and one delay at most; after that only a
\* failing read of the request itself turns it away.
THEOREM NobodyIsShutOut == Spec => ShutOutForGrace
  <1>1. IInv /\ [Next]_vars =>
          [\A w \in Workers :
             TurnsAway(w) => \/ since <= Grace - MaxDelay \/ ~Deserves(hand'[w].token)
                             \/ OwnReadFailed(w)]_vars
    BY NextStep DEF Promises
  <1> QED BY <1>1, Invariant, PTL DEF Spec, ShutOutForGrace

\* No login or refresh that begins while a ban runs ends it.
THEOREM BansAreKept == Spec => BanStands
  <1>1. IInv /\ [Next]_vars =>
          [\A w \in Workers :
             status = "banned" /\ ban = "running" /\ status' # "banned" /\ hand'[w] # hand[w]
             => hand[w].at = "status" \/ hand[w].overtaken]_vars
    BY NextStep DEF Promises
  <1> QED BY <1>1, Invariant, PTL DEF Spec, BanStands
=============================================================================
