------------------------------ MODULE Accounts ------------------------------
(***************************************************************************)
(* One account of the server: its status and the version of its tokens,    *)
(* the sessions of its devices, the tokens it was given, the bans, and the *)
(* memory cache from which the middleware answers for thirty seconds.      *)
(*                                                                         *)
(* A worker is the goroutine of one request.  A handler reads the account  *)
(* once and works with what it read; each statement it sends to the        *)
(* database, and each use of the cache, is an action of its own.           *)
(***************************************************************************)
EXTENDS Naturals, FiniteSets

CONSTANTS
    Sessions,     \* the rows of user_sessions
    Workers,
    TTL,          \* how many ticks an entry of the cache serves
    MaxDelay,     \* how many ticks the middleware may take between two reads
    MaxVersion,   \* bound on the version of the tokens
    MaxActs,      \* bound on what the administrators do
    NoSession     \* a token of a Google login names no session

ASSUME AccountsAssumption ==
    /\ NoSession \notin Sessions
    /\ TTL \in Nat
    /\ MaxDelay \in Nat
    /\ MaxVersion \in Nat
    /\ MaxActs \in Nat

VARIABLES
    status,       \* users.status
    left,         \* users.self_deactivated_at is set
    version,      \* users.token_version
    ban,          \* the latest row of bans: none, running, lapsed
    session,      \* user_sessions: new, live, revoked
    tokens,       \* the pairs of tokens given out: a session and a version
    cache,        \* the entry of authCache
    since,        \* ticks since status or version changed, up to Old
    acts,         \* how many operations the administrators have begun
    hand          \* the request each worker is at

account == <<status, left, version, since>>
vars == <<status, left, version, ban, session, tokens, cache, since, acts, hand>>

\* What the cache answers may be older than TTL: its entry is stored up to
\* MaxDelay after the read it holds, and used up to MaxDelay before the answer.
Grace == TTL + 2 * MaxDelay
Old   == Grace + 1

Statuses == {"active", "suspended", "banned"}
Tokens   == [session : Sessions \cup {NoSession}, version : 0..MaxVersion]
NoToken  == [session |-> NoSession, version |-> 0]
NoEntry  == [set |-> FALSE, status |-> "active", version |-> 0, age |-> 0]
At(step, t) == [at |-> step, token |-> t, version |-> 0, status |-> "active",
                next |-> "idle", late |-> 0, overtaken |-> FALSE]
Idle        == At("idle", NoToken)

\* The account may have been banned once, for a time that is over.
Init ==
    /\ status = "active"
    /\ left = FALSE
    /\ version = 0
    /\ ban \in {"none", "lapsed"}
    /\ session = [s \in Sessions |-> "new"]
    /\ tokens = {}
    /\ cache = NoEntry
    /\ since = Old
    /\ acts = 0
    /\ hand = [w \in Workers |-> Idle]

Start(w, h) == hand[w] = Idle /\ hand' = [hand EXCEPT ![w] = h]
GoOn(w, step) == hand' = [hand EXCEPT ![w].at = step]
Finish(w)     == hand' = [hand EXCEPT ![w] = Idle]

\* Other requests were let in, or read the account, before the ban.
Trusting == {"admitted", "lift", "reactivate"}
Overtake(w, h) == [x \in Workers |->
                      IF x = w THEN h
                      ELSE [hand[x] EXCEPT !.overtaken = @ \/ hand[x].at \in Trusting]]
Recent == IF status' = status THEN since ELSE 0

-----------------------------------------------------------------------------
(* The middleware.  Its cache is consulted under a lock, but the database  *)
(* is read and the entry stored without one in between.                    *)

\* Mutant: the time an entry expires is not looked at.
ServesForever(entry) == entry.set

Serves(entry) == entry.set /\ entry.age <= TTL

Matches(t, s, v) == s = "active" /\ v = t.version

\* Mutant: each use of an entry makes it last longer.
CheckRenews(w, t) ==
    /\ t \in tokens
    /\ IF Serves(cache)
       THEN Start(w, At(IF Matches(t, cache.status, cache.version) THEN "session" ELSE "refused", t))
       ELSE \/ Start(w, [At("store", t) EXCEPT !.status = status, !.version = version])
            \/ Start(w, At("failed", NoToken))
    /\ cache' = [cache EXCEPT !.age = 0]
    /\ UNCHANGED <<account, ban, session, tokens, acts>>

\* Without an entry the account is read; a read that fails is answered with 401.
Check(w, t) ==
    /\ t \in tokens
    /\ IF Serves(cache)
       THEN Start(w, At(IF Matches(t, cache.status, cache.version) THEN "session" ELSE "refused", t))
       ELSE \/ Start(w, [At("store", t) EXCEPT !.status = status, !.version = version])
            \/ Start(w, At("failed", NoToken))
    /\ UNCHANGED <<account, ban, session, tokens, cache, acts>>

Store(w) ==
    /\ hand[w].at = "store"
    /\ cache' = [set |-> TRUE, status |-> hand[w].status, version |-> hand[w].version, age |-> 0]
    /\ hand' = [hand EXCEPT ![w] = At(IF Matches(hand[w].token, hand[w].status, hand[w].version)
                                      THEN "session" ELSE "refused", hand[w].token)]
    /\ UNCHANGED <<account, ban, session, tokens, acts>>

\* The row of the session is read at each request, and may not be had.
CheckSession(w) ==
    /\ hand[w].at = "session"
    /\ LET s == hand[w].token.session
       IN  \/ hand' = [hand EXCEPT ![w] =
                  IF s = NoSession \/ session[s] = "live"
                  THEN [At("admitted", hand[w].token) EXCEPT !.overtaken = status = "banned"]
                  ELSE At("refused", hand[w].token)]
           \/ s # NoSession /\ hand' = [hand EXCEPT ![w] = At("failed", NoToken)]
    /\ UNCHANGED <<account, ban, session, tokens, cache, acts>>

\* The response has been written.
Respond(w) ==
    /\ hand[w].at \in {"admitted", "refused", "failed"}
    /\ Finish(w)
    /\ UNCHANGED <<account, ban, session, tokens, cache, acts>>

-----------------------------------------------------------------------------
(* Logging in, and the steps that give out tokens. *)

\* Mutant: the comparison of the dates is the wrong way round.
EntersByReversed(step) ==
    CASE status = "active"                   -> step
      [] status = "banned" /\ ban = "running" -> "lift"
      [] OTHER                               -> "idle"

\* ensureBanStatus and IsActive, on the account as it was just read: a ban that
\* has lapsed is lifted, any other ends the handler.
EntersBy(step) ==
    CASE status = "active"                   -> step
      [] status = "banned" /\ ban = "lapsed" -> "lift"
      [] OTHER                               -> "idle"

Enter(w, t, step) ==
    /\ EntersBy(step) # "idle"
    /\ hand' = [hand EXCEPT ![w] = [At(EntersBy(step), t) EXCEPT !.version = version,
                                      !.next = IF EntersBy(step) = "lift" THEN step ELSE "idle"]]
    /\ UNCHANGED <<account, ban, session, tokens, cache, acts>>

\* The password was right.  An account its owner has deactivated is restored.
Login(w) ==
    /\ hand[w] = Idle
    /\ \/ Enter(w, NoToken, "create")
       \/ /\ status = "suspended" /\ left
          /\ Start(w, [At("reactivate", NoToken) EXCEPT !.version = version])
          /\ UNCHANGED <<account, ban, session, tokens, cache, acts>>

GoogleLogin(w) == hand[w] = Idle /\ Enter(w, NoToken, "issue")

\* The version is compared after the ban has been looked at.
RefreshToken(w, t) ==
    /\ hand[w] = Idle
    /\ t \in tokens
    /\ t.version = version \/ status = "banned"
    /\ Enter(w, t, IF t.version # version THEN "idle"
                   ELSE IF t.session = NoSession THEN "create" ELSE "rotate")

\* Subscribing to a package has given the user a role that the token must show.
Reissue(w) == hand[w].at = "admitted" /\ Enter(w, hand[w].token, "issue")

Lift(w) ==
    /\ hand[w].at = "lift"
    /\ status' = "active"
    /\ since' = Recent
    /\ hand' = [hand EXCEPT ![w] = IF hand[w].next = "idle" THEN Idle
                                   ELSE [At(hand[w].next, hand[w].token) EXCEPT !.version = hand[w].version]]
    /\ UNCHANGED <<left, version, ban, session, tokens, cache, acts>>

Reactivate(w) ==
    /\ hand[w].at = "reactivate"
    /\ status' = IF left THEN "active" ELSE status
    /\ left' = FALSE
    /\ since' = Recent
    /\ hand' = [hand EXCEPT ![w].at = "create", ![w].overtaken = FALSE]
    /\ UNCHANGED <<version, ban, session, tokens, cache, acts>>

\* The session of the token that is being refreshed; the result is ignored.
Rotate(w) ==
    /\ hand[w].at = "rotate"
    /\ \/ session' = [session EXCEPT ![hand[w].token.session] = "revoked"]
       \/ session' = session
    /\ hand' = [hand EXCEPT ![w].at = "create", ![w].token = NoToken]
    /\ UNCHANGED <<account, ban, tokens, cache, acts>>

\* The tokens carry the version that the handler read when it began.
Issue(w, s) ==
    /\ tokens' = tokens \cup {[session |-> s, version |-> hand[w].version]}
    /\ Finish(w)

CreateSession(w, s) ==
    /\ hand[w].at = "create"
    /\ session[s] = "new"
    /\ session' = [session EXCEPT ![s] = "live"]
    /\ Issue(w, s)
    /\ UNCHANGED <<account, ban, cache, acts>>

GenerateTokens(w) ==
    /\ hand[w].at = "issue"
    /\ Issue(w, hand[w].token.session)
    /\ UNCHANGED <<account, ban, session, cache, acts>>

-----------------------------------------------------------------------------
(* Leaving: three statements, of which the first may fail unnoticed. *)

\* ChangePassword does the same once it has stored the password.
Logout(w) ==
    /\ hand[w].at = "admitted"
    /\ hand' = [hand EXCEPT ![w] = [At("revoke", NoToken) EXCEPT !.next = "bump"]]
    /\ UNCHANGED <<account, ban, session, tokens, cache, acts>>

RevokeIn(S) == session' = [s \in Sessions |-> IF s \in S /\ session[s] = "live" THEN "revoked"
                                              ELSE session[s]]

RevokeAll(w) ==
    /\ hand[w].at = "revoke"
    /\ RevokeIn(Sessions) \/ session' = session
    /\ hand' = [hand EXCEPT ![w] = At(hand[w].next, NoToken)]
    /\ UNCHANGED <<account, ban, tokens, cache, acts>>

IncrementTokenVersion(w) ==
    /\ hand[w].at = "bump"
    /\ version < MaxVersion
    /\ version' = version + 1
    /\ since' = 0
    /\ GoOn(w, "invalidate")
    /\ UNCHANGED <<status, left, ban, session, tokens, cache, acts>>

InvalidateAuthCache(w) ==
    /\ hand[w].at = "invalidate"
    /\ cache' = NoEntry
    /\ hand' = [hand EXCEPT ![w] = At(hand[w].next, NoToken)]
    /\ UNCHANGED <<account, ban, session, tokens, acts>>

\* One session, or all but the one of this request.
RevokeSessions(w) ==
    /\ hand[w].at = "admitted"
    /\ \/ RevokeIn(Sessions \ {hand[w].token.session})
       \/ \E s \in Sessions : RevokeIn({s})
    /\ Finish(w)
    /\ UNCHANGED <<account, ban, tokens, cache, acts>>

\* The status is written whatever it was, and the cache is left as it is.
Deactivate(w) ==
    /\ hand[w].at = "admitted"
    /\ version < MaxVersion
    /\ status' = "suspended"
    /\ left' = TRUE
    /\ version' = version + 1
    /\ since' = 0
    /\ hand' = [hand EXCEPT ![w] = At("revoke", NoToken)]
    /\ UNCHANGED <<ban, session, tokens, cache, acts>>

-----------------------------------------------------------------------------
(* Administrators. *)

Act(w, step, s, next) ==
    /\ hand[w] = Idle
    /\ acts < MaxActs
    /\ acts' = acts + 1
    /\ hand' = [hand EXCEPT ![w] = [At(step, NoToken) EXCEPT !.status = s, !.next = next]]
    /\ UNCHANGED <<account, ban, session, tokens, cache>>

UpdateUserStatus(w, s) == status # s /\ Act(w, "status", s, "idle")
BanUser(w)             == status # "banned" /\ Act(w, "row", "banned", "status")

\* A ban that settles a report: the status comes first, whatever it was.
BanReported(w)         == Act(w, "status", "banned", "row")

CreateBan(w) ==
    /\ hand[w].at = "row"
    /\ ban' = "running"
    /\ hand' = Overtake(w, IF hand[w].next = "idle" THEN Idle
                           ELSE [hand[w] EXCEPT !.at = "status", !.next = "idle"])
    /\ UNCHANGED <<account, session, tokens, cache, acts>>

SetStatus(w) ==
    /\ hand[w].at = "status"
    /\ status' = hand[w].status
    /\ since' = Recent
    /\ LET h == [At("invalidate", NoToken) EXCEPT !.next = hand[w].next]
       IN  hand' = IF hand[w].status = "banned" THEN Overtake(w, h)
                   ELSE [hand EXCEPT ![w] = h]
    /\ UNCHANGED <<left, version, ban, session, tokens, cache, acts>>

-----------------------------------------------------------------------------
(* Time, and what ends a handler before its next step. *)

\* Assumed: the middleware's reads take no more than MaxDelay ticks each.
Reading == {w \in Workers : hand[w].at \in {"store", "session"}}

Tick ==
    /\ \A w \in Reading : hand[w].late < MaxDelay
    /\ hand' = [w \in Workers |-> IF w \in Reading THEN [hand[w] EXCEPT !.late = @ + 1]
                                  ELSE hand[w]]
    /\ cache' = IF Serves(cache) THEN [cache EXCEPT !.age = @ + 1] ELSE cache
    /\ since' = IF since < Old THEN since + 1 ELSE since
    /\ UNCHANGED <<status, left, version, ban, session, tokens, acts>>

BanLapses ==
    /\ ban = "running"
    /\ ban' = "lapsed"
    /\ UNCHANGED <<account, session, tokens, cache, acts, hand>>

\* An error of the database, in a handler; the middleware answers its own.
Stumble(w) ==
    /\ hand[w].at \notin {"idle", "store", "session", "admitted", "refused", "failed"}
    /\ Finish(w)
    /\ UNCHANGED <<account, ban, session, tokens, cache, acts>>

\* The process ends, and its memory with it.
Restart ==
    /\ hand' = [w \in Workers |-> Idle]
    /\ cache' = NoEntry
    /\ UNCHANGED <<account, ban, session, tokens, acts>>

-----------------------------------------------------------------------------
Next ==
    \/ \E w \in Workers :
         \/ \E t \in tokens : Check(w, t) \/ RefreshToken(w, t)
         \/ Store(w) \/ CheckSession(w) \/ Respond(w)
         \/ Login(w) \/ GoogleLogin(w) \/ Reissue(w) \/ Lift(w) \/ Reactivate(w) \/ Rotate(w)
         \/ \E s \in Sessions : CreateSession(w, s)
         \/ GenerateTokens(w)
         \/ Logout(w) \/ RevokeAll(w) \/ IncrementTokenVersion(w) \/ InvalidateAuthCache(w)
         \/ RevokeSessions(w) \/ Deactivate(w)
         \/ \E s \in Statuses : UpdateUserStatus(w, s)
         \/ BanUser(w) \/ BanReported(w) \/ CreateBan(w) \/ SetStatus(w)
         \/ Stumble(w)
    \/ Tick \/ BanLapses \/ Restart

Spec == Init /\ [][Next]_vars

-----------------------------------------------------------------------------
(* Properties *)

Steps == {"idle", "store", "session", "admitted", "refused", "failed", "lift", "reactivate",
          "rotate", "create", "issue", "revoke", "bump", "invalidate", "row", "status"}

\* The type invariant: nobody is given a token of a version still to come, nor
\* of a session that has no row.
TypeOK ==
    /\ status \in Statuses
    /\ left \in BOOLEAN
    /\ version \in 0..MaxVersion
    /\ ban \in {"none", "running", "lapsed"}
    /\ session \in [Sessions -> {"new", "live", "revoked"}]
    /\ tokens \subseteq Tokens
    /\ \A t \in tokens : /\ t.version <= version
                         /\ t.session # NoSession => session[t.session] # "new"
    /\ cache \in [set : BOOLEAN, status : Statuses, version : 0..version, age : 0..TTL + 1]
    /\ since \in 0..Old
    /\ acts \in 0..MaxActs
    /\ hand \in [Workers -> [at : Steps, token : Tokens, version : 0..version,
                             status : Statuses, next : Steps, late : 0..MaxDelay,
                             overtaken : BOOLEAN]]

\* What a request with this token deserves.
Deserves(t) == /\ status = "active"
               /\ t.version = version
               /\ t.session # NoSession => session[t.session] = "live"

Admits(w)    == hand[w].at # "admitted" /\ hand'[w].at = "admitted"
TurnsAway(w) == hand'[w].at \in {"refused", "failed"} /\ hand'[w].at # hand[w].at

\* A read of this very request failed: it had one to make.
OwnReadFailed(w) ==
    /\ hand'[w].at = "failed"
    /\ \/ hand[w].at = "session" /\ hand[w].token.session # NoSession
       \/ hand[w].at = "idle" /\ ~Serves(cache)

\* The cache may be wrong for as long as its comment says and no longer: after
\* that time no request of a banned, suspended or logged out account is let in,
\* however the requests, the changes and the stores of the entry overlap.
LetInForGrace ==
    [][\A w \in Workers : Admits(w) => since <= Grace \/ Deserves(hand'[w].token)]_vars

\* Nor is a good token turned away for longer than that, as after a ban is lifted,
\* or after a login that restores a deactivated account: neither clears the cache.
\* The refusal does not wait for a second read.  What else turns a good token away
\* is a failing read of the very same request, of the account when the cache does
\* not have it, or of the session: nothing of the failure lasts.
ShutOutForGrace ==
    [][\A w \in Workers :
         TurnsAway(w) => \/ since <= Grace - MaxDelay \/ ~Deserves(hand'[w].token)
                         \/ OwnReadFailed(w)]_vars

\* A running ban is ended by an administrator, or by a request that was let in or
\* had read the account before the ban, and by no login or refresh that began later.
BanStands ==
    [][\A w \in Workers :
         status = "banned" /\ ban = "running" /\ status' # "banned" /\ hand'[w] # hand[w]
         => hand[w].at = "status" \/ hand[w].overtaken]_vars

-----------------------------------------------------------------------------
(* What the comments and the documents say and the code does not do. *)

\* utils/auth_cache.go:14: whoever changes the status or the version clears the
\* cache at once.  Deactivate, Reactivate and the end of a ban do not.
QuietCacheIsTrue ==
    (\A w \in Workers : hand[w] = Idle) /\ Serves(cache)
        => cache.status = status /\ cache.version = version

\* services/auth.service.go:429: a suspension by an administrator has no mark of
\* self-deactivation, and no login ends it.  One that follows a deactivation which
\* an administrator had lifted keeps the mark.
SuspensionIsUnmarked ==
    [][\A w \in Workers :
         hand[w].at = "status" /\ status # "suspended" /\ status' = "suspended"
         => ~left']_vars

\* docs/function-user.md:594: the refresh token of a revoked session is void.
\* RefreshToken compares the version and does not look at the session.
RevokedIsVoid ==
    \A w \in Workers : hand[w].at = "rotate" /\ ~hand[w].overtaken
                        => session[hand[w].token.session] = "live"
=============================================================================
