# LinkUp server: formal model

TLA+ specifications of the concurrent core of the LinkUp server, the TLC
configurations that model-check them on small instances, and TLAPS proofs for
instances of every size. Line references are to `src/`; a bare file name is in
`services/` or `repository/`.

1. [The system](#1-the-system)
2. [Modules](#2-modules)
3. [Model checking](#3-model-checking)
4. [Proofs](#4-proofs)
5. [Disagreements](#5-disagreements)
6. [What is not modelled](#6-what-is-not-modelled)
7. [Plan](#7-plan)

Inside this directory, `tlc -workers 2 -config DirectCallCore.cfg DirectCallMC`
checks one run and `tlapm GroupCallProofs.tla` one module of proofs.
`PROJECT.json` maps every definition to the lines it models.

## 1. The system

LinkUp is a social network: one Go process (gin, GORM over MySQL, MongoDB for
the history of group calls, in-memory state for everything live). HTTP handlers
and socket read loops run concurrently and share three kinds of state: rows in
MySQL, documents in MongoDB, and in-memory maps under a mutex. A handler is a
sequence of statements and lock sections. Few of them share a transaction, so
what a handler read may be old when it writes.

| Component | State | Operations | What is hard | What makes it correct | Module |
|---|---|---|---|---|---|
| Direct calls: `voice_call.service.go`, `call.repository.go` | rows of `calls`, `call_hidden`, read marker, notifications | initiate, accept, reject, end, toggles, clean up at the last disconnect, mark missed calls as read, hide | a row is read, judged in Go and written without a condition; presence is read once; failing statements; restarts | no two calls ring one user; talk time only if answered; missed is noticed; a swept call ends | `DirectCall` |
| Group calls: `groupws/hub.go`, `groupws/client.go`, `group_call.repository.go` | sessions in the hub, history in MongoDB | create, request, approve, reject, signal, switches, end; drop of a socket; ticker | check and insert are two lock sections; the history is written outside the mutex; several tabs; timers race with people | the sets agree; a session has somebody in it; its heir is present; marks and requests resolve | `GroupCall` |
| Socket hub: `ws/hub.go`, `ws/client.go` | clients of a user, rooms, send channels, presence | register, unregister, broadcast, SendToUser, prune a stuck client | snapshots outlive the lock; channels are closed by whoever finds them full | a registered client's channel is open; presence follows connections | `WsHub` |
| Direct chats: `chat.service.go`, `chat.repository.go`, ReadPump of `ws/client.go` | messages with their deletion flags, pins, read marks | join with history, send, delete, recall, pin, unpin, mark read | history read while others send; flags written from an old read; counts compared and then exceeded | nobody misses a message; recalls stand; pins are bounded; marks advance | `ChatHistory` |
| Group chats: `group_chat.service.go` | members, admins, bans, requests, settings | add, answer, leave, ban, transfer, settings | the reads that allow an operation are separate from its writes | members are invited; bans hold; answers are final; cards are true | `GroupMembers` |
| Accounts: `auth.service.go`, `admin.service.go`, `middlewares/auth.middleware.go`, `utils/auth_cache.go` | status, token version, sessions, bans, a cache of 30 s | log in, refresh, log out, deactivate, revoke, ban, change status; every request through the middleware | the cache is filled from reads that are already old; lifting a ban is a read and two writes | the cache is wrong for a bounded time; a running ban is not undone by a later login | `Accounts` |
| Packages and payments: `payment.service.go`, `momo.service.go`, `package.service.go` | payments, subscriptions, PARTNER role | order, gateway notification, subscribe, expire | notifications repeat, come late and out of order; a job works from a list it read | an order gives one subscription if paid, and only then; nobody loses what still runs | `AdSales` |
| End-to-end keys: `e2e.service.go`, `e2e.repository.go` | a wrapped key per chat and participant | store a batch, read, re-key | several clients make a key for one chat; batches over several chats lock rows | one key per chat; no deadlock | `ChatKeys` |
| Communities: `community.service.go`, `community.repository.go` | creator, two ledgers of membership, requests, invitations, invite codes | join in three ways, approve, refuse, roles, kick, leave, transfer | answers saved over each other; quotas compared and then counted; two ledgers | codes are bounded; answers are true; the ledgers agree | `Community` |
| Group messages, friends, posts, stories, moderation, reports, notifications, presence cache | | | | | section 6 |

How the parts interact:

- `cmd/main.go` builds the hubs and starts their goroutines (lines 47, 241, 261,
  357). A direct call reaches its parties through `ws.Hub.SendToUser`; the hub
  in turn calls `CleanupDisconnectedCalls` when the last socket of a user is
  gone (`cmd/main.go:348`).
- A socket's ReadPump calls the chat service and hands what it stored to the
  hub's goroutine, which sends it to the sockets of the room: `ChatHistory` has
  the statements and the room, `WsHub` the buffers and the channels.
- A group call socket is a client of the call hub (`groupws`, mode `"call"`) and
  its ReadPump calls the hub's operations directly. The ticker of the call hub
  runs in the hub goroutine (`CleanupStaleCalls`).
- The hourly job of `cmd/main.go:304` expires subscriptions.
- A ban by an administrator changes the account (`Accounts`) and hands over the
  communities the user created (`Community`).
- Joining a community enters its group chat; leaving that chat (`GroupMembers`)
  is the action `ChatMoves` of `Community`.

## 2. Modules

| Module | What it is |
|---|---|
| `CallLedger` | What the direct call service promises: a call is placed to a user in no live call, answered at most once, and never comes back. |
| `DirectCall` | The service, its table and its goroutines. Implements `CallLedger`. |
| `CallRoom` | What the group call hub promises about who is in a call. |
| `GroupCall` | The sessions, the ReadPumps, the hub goroutine and the history. Implements `CallRoom`. |
| `WsHub` | The hub of all other sockets: registration, deliveries, buffers, presence. |
| `ChatHistory` | The messages, pins and read marks of a direct chat. |
| `GroupMembers` | Membership of a group chat. |
| `Accounts` | One account: status, tokens, sessions, bans, and the middleware's cache. |
| `SaleContract` | What the payment service promises about an order, whatever the gateways do. |
| `AdSales` | Orders, notifications, subscriptions and the expiry job. Implements `SaleContract`. |
| `KeyAgreement` | One key is chosen for a chat, once, and nobody is given another. |
| `ChatKeys` | The batches, their locks and transactions. Implements `KeyAgreement`. |
| `Community` | Membership of a community. |

Each of these but the abstract ones has an `…MC` module with its instances for
TLC and a module of proofs, `…Proofs`; `ChatKeys` and `ChatHistory` share
`ChatProofs`. In all of them a *step* is one database statement, transaction or lock section (or a run of reads that nothing separates for the
properties); `job`, `hand` or `req` says where each goroutine stands and holds the local variables it still uses, so every window in
which another handler may write is in the model.

### DirectCall

| Code | Actions |
|---|---|
| `InitiateCall` | `Initiate` (checks) → `CreateIfNotBusy` (the transaction) → `ProbeCallee` (presence) → `MarkMissed`, `TellMissed` if offline |
| `AcceptCall`, `RejectCall` | one conditional UPDATE (`Accept`, `Reject`), then `TellParties` |
| `EndCall` | `EndCall` (read and judge) → `WriteEnd` (unconditional UPDATE) → `TellParties` |
| `NotificationService.Create` | `CreateNotification`, within `TellMissed` and `TellParties` |
| `ToggleMute`, `ToggleVideo` | `Toggle` (check) → `WriteToggle` |
| hub disconnect callback, `CleanupDisconnectedCalls` | `Disconnect` → `Sweep` (find the active call) → `EndSwept` |
| call history | `MarkMissedRead`, `HideCall` |
| restart | `Crash`: goroutines and sockets are lost, the tables stay |

- `EndCall` comes by the socket only, so its user is online; the others also
  come by HTTP.
- `CreateIfNotBusy` counts under `FOR UPDATE`. Two transactions on one callee
  exclude each other (the loser of a gap-lock deadlock gets an error, which
  `Faulty` allows), so the transaction is one step.
- GORM's `RowsAffected` is 0 when an UPDATE changes nothing (the DSN has no
  `clientFoundRows`). `WriteEnd` then takes the error branch and sends nothing.
- A DATETIME has a resolution of a second, and `First` adds an ordering by id:
  among calls of the same second the one found is a free choice.
- `Create` makes no notification for a callee who turned the notices of calls off
  (`Subscribers` are the others; preferences do not change here), and its error
  is dropped by both callers (`voice_call.service.go:114`, `:255`). `failed`
  remembers the calls it failed for. `MissedIsNoticed` says that nothing else
  leaves a missed call without its notice.
- The clock is a counter in the unit of the columns, up to `MaxClock`.
- Sends change nothing in this module: that a handler is about to announce
  something is its label `"tell"`. Friendships do not change during a call.

### GroupCall

A step is one section under `Hub.mu`, or one write to MongoDB. The handlers'
own checks change nothing, and the hub checks again under the lock, so they are
not repeated.

| Code | Actions |
|---|---|
| `CreateGroupCall` | `Create` (search under the read lock) → insert under the write lock → record the document |
| `RequestJoinCall`, `ApproveJoinCall`, `RejectJoinCall` | `RequestJoin`, `ApproveJoin` (then the roster is written), `RejectJoin` |
| `MarkActive` by `group:call:signal`; mic, mute, video | `Signal`, `ToggleOwn`, `ToggleMute` |
| `EndCallByUser` | `EndCallByUser`, then the end is written by the same goroutine |
| a dropped socket (`groupws/client.go:95`, `:1305`) | `Lose` → list the user's other sockets → mark the calls → leave |
| `CleanupStaleCalls` | `Expire`, `Cleanup` (one session at a time), then `RecordEnd` by the hub goroutine |
| restart | `Crash`: the sessions are lost, the history stays |

A request (30 s) and the grace of a mark (15 s) are timers of their own: `age`
counts the ticks since the entry was last written, up to `Patience`, each at its
own pace, so every order that some timing allows is allowed; `Cleanup` takes the
entries that are overdue. Asking again (`groupws/hub.go:405`) and dropping again
(`:711`) write the entry anew, so the timer starts at 0: a client that keeps
doing so is never timed out, and `RequestsResolve` and `MarksResolve` say that
nothing else keeps an entry for ever (without that exception TLC refutes both).
The 60 s limit is set once and may lapse at any time. The one timing fact used
is `Known(k)`: nobody knows the id of a call before `CreateGroupCall` returns,
at most 2 s after it began, which is before any timer of that call. The delivery
of frames is not modelled.

### WsHub

Three kinds of goroutines: the hub's, the ReadPumps, and HTTP handlers that call
`SendToUser`. A delivery is a snapshot under the read lock, one offer per client
without a lock, and the removal of the stuck clients under the write lock; each
is an action. A frame is a place in a buffer of `Capacity`. `era` tells apart the
maps that `h.clients[user]` has been, because `SendToUser` compares with the one
in its snapshot (`ws/hub.go:208`).

A send on a closed channel, or closing it twice, panics. gin's Recovery catches
the panic of an HTTP handler and of a ReadPump run by one (`Guarded` clients:
chat and call controllers); the hub goroutine's and that of a `ServeWS` ReadPump
(`go client.ReadPump()`) end the process, and a panic under the write lock
leaves the hub locked. The model records which in `fault` and stops there, so the
other properties speak of the executions up to a failure. Merged steps: dialling
and registering; `hasConnections` and the presence mark (in between, the hub
goroutine is the only one that adds clients).

### ChatHistory

| Code | Actions |
|---|---|
| `chat:join` | `JoinChat` (enter the hub's room) → `GetMessagesHistory` → `PushHistory` |
| `message:send` | `SendMessage` (the stamp) → `CreateMessage` → `Announce`, or `AnnounceFails` when the stored text cannot be decrypted (`ws/client.go:149`) |
| `SharePost`, `createGroupInviteMessage` and other messages stored by HTTP requests | `StoreQuietly` (a row, no announcement) |
| `message:delete` | `Recall` or `DeleteForMe` (read and check) → `UpdateMessageDeleteStatus` (both flags) |
| `message:pin` | `PinMessage` (checks, first count) → `FindOldestPin` → `AutoUnpinOldest` → `CountPins` → `CreatePin` |
| `message:unpin` | `UnpinMessage` |
| `message:read` | `MarkMessageRead` (row and mark) → `UpsertChatRead` |

A ReadPump serves one event at a time, so each socket is one process. `now` is
the second of the DATETIME columns; several stamps may be equal, and of the pins
of one second any may be the oldest. A history fits one page, and a socket joins
until it was sent one. `crossed` is a history variable: the messages on which a
deletion for one user was decided before the recall and written after it.

Some messages are stored and never handed to the hub: a post shared over HTTP
(`chat.controller.go:232`; `docs/function-user.md:1885` says so), the card of an
invitation to a group (`group_chat.service.go:319`), a message sent with
`SendGroupMessage` over HTTP (`group_chat.controller.go:136`), and one whose
decryption fails after the insert. Who has read the history does not hear of them
until they read it again. The history variable `silent` holds them for each
socket that had read the history by then, and `NothingMissed` excuses those only:
a socket that reads the history later must have them, and every message that is
announced must arrive. The stamp of a quiet row is any second up to now, for the
time between stamp and insert.

### GroupMembers

| Code | Actions |
|---|---|
| `addMemberRequest` | `AddMember` (checks) → `CreateRequest` → `SendCard` |
| `ApproveMemberRequest` | `Approve` (ban, request) → `Reread` → `Join` (transaction: save, insert) → `MarkCard` |
| `RejectMemberRequest` | `Reject` → `Decline` → `MarkCard` |
| `LeaveGroup`, `BanMember` | `Leave` → `Left`; `BanMember` → `Ban` |
| `TransferAdmin` | `TransferAdmin` (`Cooled`: a calendar month has passed) → `Pass` |
| `UpdateSettings` | `UpdateSettings` (read) → `WriteSettings` (the whole row) |
| `AddCommunityMemberAndGroupChat`, `ApproveJoinRequest` of the community | `EnterCommunity`: member and participant in one transaction, no invitation, no look at the bans |
| `RemoveMember` of the community | `QuitCommunity`: the participant stays |
| `TransferOwnership` of the community | `TransferOwnership` → `Endow` (the new owner becomes an admin of the group, if he is in it) |

The group may be the default chat of a community, whose transactions write the
same participants; `Visitors` are the users who come and go there, and none if the
group stands alone. `admitted` is a history variable: whom the community put in.
So "nobody joins uninvited" and "a ban holds" are said of the group's own
operations: entering the community is the one other way in, for a banned user too.
An error or a crash may end a handler before any of its statements (`Stumble`).
No code sets `chats.creator_id`, so the group's own `TransferOwnership` is always refused and the
transfer that an account ban should cause never finds a group chat; neither is
an action.

### Accounts

| Code | Actions |
|---|---|
| `AuthMiddleware` | `Check` (cache or row) → `Store` → `CheckSession` → `Respond`; a read that fails, of the row or of the session, leads to the step `failed`, a 401 |
| `Login`, `loginWithGoogleClaims`, `RefreshToken`, `ReissueTokensForUser` | `Login`, `GoogleLogin`, `RefreshToken`, `Reissue` (read and decide) → `Enter` (the ban) → `Lift`, `Reactivate` or `Rotate` → `CreateSession`, `Issue` |
| `Logout`, `ChangePassword`, `RevokeSession`, `RevokeOtherSessions` | `Logout`, `RevokeAll`, `RevokeSessions` → `IncrementTokenVersion` → `InvalidateAuthCache` |
| `Deactivate` | `Deactivate` (row only) |
| `UpdateUserStatus`, `BanUser`, `ResolveReport` | `UpdateUserStatus`, `BanUser`, `BanReported` → `CreateBan`, `SetStatus`, in the order of each handler → `InvalidateAuthCache` |

Time is a tick; an entry of the cache serves `TTL` ticks and a request may take
`MaxDelay` between two of its reads. `since` counts the ticks since the status or
the version last changed, until the properties no longer tell them apart; a
history flag `overtaken` marks the handlers that read the account before a ban.
The middleware answers every error of its own reads with 401
(`auth.middleware.go:50`, `:86`), so `ShutOutForGrace` does not say that a good
token is served: outside the grace it is turned away only by a failing read of the
same request, and only where that request had a read to make. An error in any
other handler ends it (`Stumble`).

### AdSales

| Code | Actions |
|---|---|
| `CreateVNPayPayment`, `CreateMoMoPayment` | `CreatePayment` → `PlaceVNPay`, or `PlaceMoMo` → `RequestSucceeds` / `RequestFails` |
| `ProcessVNPayCallback`, `ProcessMoMoCallback` | `ReceiveRefusal` → `Refuse`; `ReceivePayment` → `Look` (active subscription) → `Complete` (transaction) or `CompleteLate`; then `Answer` |
| `SubscribePackage` | `Subscribe` → `Commit` |
| `ProcessExpiredSubscriptions` | `ExpireAll` (the list) → `Expire` → `Downgrade`, one subscription after the other |
| gateways (external) | `AnnouncePayment`, `AnnounceRefusal`, `Resend` until acknowledged |
| errors, restart | `Stumble`, `JobStumbles`, `Crash` |

`subscribeWithTx` gives the role PARTNER whatever the user's platform role was:
an administrator who subscribes becomes a PARTNER. The model has USER and PARTNER only.

### ChatKeys

`StoreChatKeys` → `LockChatRow` in the order of the ids → `InsertKey` (a copy
that is there stays; a copy that another transaction writes is waited for) →
`Commit`, or `Rollback` at any step. `GetChatKey` takes the lock of its chat,
`RekeyChat` is one UPDATE. The clients
are not in the repository: a batch carries a copy for every participant, and a
client wraps again only a key it was given.

### Community

| Code | Actions |
|---|---|
| `RequestJoin`, `joinPublic`, `joinByCode`, `joinByInvitation`, `RespondInvitation` | `JoinPublic`, `JoinByCode`, `JoinByInvitation`, `RespondInvitation` → `AddCommunityMemberAndGroupChat` → `IncrementInviteCodeUsedCount` or `UpdateInvitationStatus` |
| the same operations of another community | `JoinElsewhere` (its transaction is done) → `UpdateInvitationStatus`; `InviteElsewhere` |
| a request to join | `DeleteNonPendingJoinRequests` → `CreateJoinRequest` |
| `ApproveJoinRequest`, `RejectJoinRequest` | `ApproveJoinRequest` → `ReadPending` → `Save` (the rest of the transaction); `RejectJoinRequest` → `Reject` |
| `UpdateMemberRole`, `KickMember`, `LeaveCommunity` | check → `UpdateUserRole`, `RemoveMember` |
| `TransferOwnership`, `transferOwnershipOnBan` | check, or choose an heir → `TransferCommunityOwnership` |
| `UpdateCommunity`, invite codes, `SendInvitation` | one action each, `SendInvitation` → `CreateInvitation` |
| the group chat | `ChatMoves` (leaving it) |

`Fits` is the unique indexes of `cmd/seed/schema/main.go` on the ledgers: an insertion or
an update that breaks one fails and its transaction with it. `Save` writes the
whole row that was read, and GORM's `Save` inserts it again if it was deleted.
`joinByInvitation` compares the user and the status of the invitation and not its
community, so `JoinByInvitation` takes an invitation to another community (`here` is
false) and one to this community may be spent elsewhere; `entries` and `spent` are
history variables: the rows that let somebody in here, and the invitations that did so
elsewhere. `AnswersAreTrue` asks for one of the two.

## 3. Model checking

| Run | Instance | Properties | What it shows, and why the instance is enough |
|---|---|---|---|
| `calls_core` | 2 users, one without notices of calls, 2 calls, 2 requests and the hub goroutine; any statement may fail | `NoCrossedCalls`, `TalkTimeOnlyIfAnswered`, `MissedIsNoticed`, `LedgerSpec` | Three goroutines interleave between any two statements: a stale read, a write over it and a third party. Two calls are what a crossing needs. |
| `calls_restart` | 2 users, 1 video call, clock to 2, 1 restart, all switches, one reader, fair | `FlagsOnlyIfAnswered`, `ReadStaysRead`, `SweptCallEnds` | Time, a restart, flags and the read marker; the call that the cleanup finds ends. `SweptCallEnds` also holds with two calls among three users (72,244 states). |
| `group_core` | 3 users with a socket each, 1 call, failing writes, 1 restart | `NeverEmpty`, `HeirIsPresent`, `RoomSpec` | Three people are what handing over needs: a creator who goes, one in grace, one present. |
| `group_live` | 2 users, 3 sockets (one has two tabs), mute by both, video by one, timers of one tick, fair | `RostersAgree`, `MarksResolve`, `RequestsResolve`, `OverIsRecorded` | Two tabs are what the race of listing sockets and marking needs. Nobody stays in grace or waits for approval for ever without renewing it; an end reaches the history. One tick is enough for a renewal to come before or after the timer is due. |
| `hub_core` | 1 user with 2 clients, 1 handler, buffers of 1, fair | `OpenWhileRegistered`, `ConnectedIsOnline`, `OnlyClosedRemoved`, `GoneIsOffline` | Two connections of one user and two deliverers are what the presence race and the stale map need. |
| `hub_panic` | the same | `NoPanic` | Violated, see 5. |
| `chat_core` | 2 users with a socket each, 4 old messages and a new one, 5 events, 2 seconds | `NothingMissed`, `PinsAreBounded`, `RecallStands`, `ReadsAdvance` | Exceeding the limit of pins a second time takes four messages and five events: with fewer, a count that is not compared again goes unnoticed. |
| `members_core` | 1 founder, 1 outsider who also comes by the community, 2 requests, 2 workers, 2 months, 1 act of the admins | `NobodyJoinsUninvited`, `CardIsTrue`, `BanHolds`, `AnswersStay` | An approval against a refusal, a ban against an approval, a ban against a return by the community. |
| `accounts_core` | 1 session row, 2 workers, `TTL` and `MaxDelay` 1, 1 act of the administrators | `LetInForGrace`, `ShutOutForGrace`, `BanStands` | A request that fills the cache while another changes the account; `LetInForGrace` is refuted with one tick less, so its bound is tight. |
| `sales_core` | 1 user, 2 packages, 1 order, 2 subscriptions, 2 workers, 2 errors or crashes, fair | `NeverLeftWithout`, `SaleSpec`, `MoneyIsHonoured`, `PartnerLapses` | A repeated announcement against its first, or against a direct subscription, with the job between them. |
| `keys_core` | 2 chats, 2 participants, 3 batches, 2 workers, fair | `OneKey`, `KeySpec`, `BatchesEnd` | Two batches over the same two chats are what a deadlock needs; the third finds what they left. |
| `community_core` | a founder and 2 users, 2 workers, 2 requests, 1 invitation (here or elsewhere), a code for one use, 4 requests of clients, 1 lost count | `UsesAreBounded`, `AnswersAreTrue`, `OnlyTransfersTear`, `CreatorIsNotDemoted` | Two answers to one row, and a transfer against a departure or a change of role. |

The type invariants, and the invariants of section 4 that no run names, were
checked on the same instances before they were proved.

**Bounds.** Sets of users, calls, rows and workers are finite. `MaxClock`,
`MaxTime`, `MaxMonths`, `MaxVersion`, `Patience` bound clocks and counters; `MaxCrashes`,
`MaxTrouble` and `MaxLost` what goes wrong; `MaxActs`, `MaxEvents`, `MaxBegun`
and `MaxDirect` what clients and administrators start. `Capacity` is 1 instead
of 256 and `MaxPinned` 1 instead of 2: the code only asks whether the limit is
reached. An id is used once. Deadlock checking is off: every one of these systems
may be left with all its ids used and nobody asking for anything (and `WsHub`
stops at a failure). Three larger instances were run once:
`GroupMembers` with three users, one request and 2 acts (1,277,222 states: a chain
of invitations) and with two users and 2 acts (3,467,471 states), and `Community`
with five requests of clients (668,277 states).

**Views.** `accounts_core` and `community_core` give TLC a `VIEW`, the operator `Seen`
of their MC module, which takes states together that differ only in what no further
step reads: an expired cache entry, how a request was turned away; the chat of who
is a member (anybody may leave or enter it at any time, so a state with the other
value is one `ChatMoves` away when it begins to matter), and the door, the code and
`past` once the clients have sent their last request. No property of
these runs reads what is dropped in the state that a step starts from, and every
step out of a state is checked, also one to a state that was seen before.

**Symmetry** is used only with safety properties, over values that nothing in the
instance tells apart (in `GroupCallMC` users together with their sockets).

**Fairness.**
- `DirectCall`: a goroutine that has started a handler goes on (Go's scheduler,
  statements that return). No user is obliged to do anything.
- `GroupCall`: the ReadPumps and the hub goroutine go on, time passes and the
  ticker fires for ever. Nothing is assumed of users, who may also renew their
  requests and marks for ever, and a session that stays alone is not assumed to
  expire.
- `WsHub`: the hub goroutine goes on, weakly fair; unregistering is strongly
  fair, because `select` picks at random among the ready channels, so a waiting
  ReadPump is not passed over for ever. The WritePump owes nothing: its
  connection may be stuck or dead.
- `AdSales`: the handlers and the job go on, the ticker fires; a gateway resends a
  payment that was not acknowledged, strongly fair, since crashes and busy
  workers disable it again and again. Errors and crashes are finitely many.
- `ChatKeys`: a waiting transaction gets a row lock that is released again and
  again (strong fairness; InnoDB grants in order), inserts go on and commit.

## 4. Proofs

TLAPS checks the theorems for arbitrary sets and bounds, under the named
assumptions of the modules (`CallAssumption`, `GroupAssumption`,
`MembersAssumption`, `AccountsAssumption`, `SalesAssumption`, `ChatKeysAssumption`,
`ChatAssumption`, `CommunityAssumption`, `HubAssumption`): the constants have their
types and the special values (`NoUser`, `NoCall`, …) are not ordinary ones. TLC
evaluates them.

| Module | Type invariant and safety | Refinement |
|---|---|---|
| `DirectCallProofs` | `TypeOK`, `NoCrossedCalls`, `TalkTimeOnlyIfAnswered`, `FlagsOnlyIfAnswered`, `MissedIsNoticed`, `ReadStaysRead`, `AnnouncedIsBacked`*, `OverStays`* | `LedgerSpec` |
| `GroupCallProofs` | `TypeOK`, `RostersAgree`, `NeverEmpty`, `EndedOnce`*, `HeirIsPresent` | `RoomSpec` |
| `WsHubProofs` | `TypeOK`, `OpenWhileRegistered`, `ConnectedIsOnline`, `OnlyClosedRemoved` | |
| `GroupMembersProofs` | `TypeOK`, `NobodyJoinsUninvited`, `CardIsTrue`, `BanHolds`, `AnswersStay` | |
| `AccountsProofs` | `TypeOK`, `LetInForGrace`, `ShutOutForGrace`, `BanStands` | |
| `AdSalesProofs` | `TypeOK`, `PaidOnce`*, `AcknowledgedIsHonoured`*, `NeverLeftWithout` | `SaleSpec` |
| `ChatProofs` on `ChatKeys` | `StoreTypeOK`, `OneKey` | `KeySpec` |
| `ChatProofs` on `ChatHistory` | `TypeOK`, `NothingMissed`, `PinsAreBounded`, `RecallStands`, `ReadsAdvance` | |
| `CommunityProofs` | `TypeOK`, `UsesAreBounded`, `AnswersAreTrue`, `OnlyTransfersTear`, `CreatorIsNotDemoted` | |

Starred: proved, and no longer among the properties of a run.

**DirectCall.** `NoCrossedCalls` and `TalkTimeOnlyIfAnswered` are not inductive
alone: a handler carries facts it read. `IInv` adds `JobsOK`, what each handler
between its read and its write knows that is still true (an id drawn and not yet
inserted is free; who is about to write `"ended"` read an answered row, and
answers are never taken back; who is about to announce has written what it
announces), and `StartedBefore`, so that no duration is negative. The proof goes
by the row: each action changes no row or takes one `RowStep` (place, answer,
close, flag); `RowsAreKept`, `TalkTimeStep`, `NoCrossingStep` are proved once for
the row steps, and `OthersOK` shows that a handler's knowledge survives the row
step of another. Each row step maps to a step of the ledger or to a stutter.

Three more results rest on `IInv` and on one fact each, kept apart from it
because the others do not need it. `FlagsOnlyIfAnswered` needs `TogglesOK`: a
toggle past its status check still works for a party of an answered call, since
parties and answers outlive every row step (`RowsLast`) though the status does
not. `MissedIsNoticed` speaks of quiet states only; `NoticesDue` says what holds
while handlers run: a missed call has its notification (or its callee
wants none, or creating it failed), or a handler that is about to give it, which
only a restart can lose. `ReadStaysRead` needs
`ReadBefore` (no marker is ahead of the clock), so that markers only grow while
`created` stays.

**GroupCall.** Every action changes a session by one of six moves: `Opens`,
`Walks`, `LetsIn`, `Tweaks`, `Quits`, `Ends`. `IInv` is `Typed`, `SessionsOK`
(each session is `Sound`: the sets agree and somebody is joined), `JobsOK` (a
goroutine that took a session out owes exactly one end record), `HubOK` and
`DocOK`. A move keeps a session sound (`MoveIsSound`); one lemma per operation
shows that it is a move; `HeirIsPresent` and the refinement follow from the moves.

**WsHub.** A delivery works on a snapshot, so registration must be related to
what a snapshot still holds. `IInv` adds to the types and to `OpenWhileRegistered`:
`HubShape` (what the hub goroutine has in hand at each step), `Known` (a snapshot's
client that is still open is registered, or is the one the hub is about to
close), `Fresh` (the map it was taken from is its user's current one) and
`PresenceKept` (a user with a connection is online, or the hub is about to mark
him). `OnlyClosedRemoved` is a consequence of `Known` and `Fresh`.

**GroupMembers.** `HandsOK` says what a handler beyond its first read may still
rely on: an acceptance names a request that exists and whose user was invited by
somebody entitled; who is about to mark a card has settled its request. Entitlement
(a founder, an accepted invitation, or let in by the community) is never lost, which makes `NobodyJoinsUninvited` inductive with it.

**Accounts.** The invariant bounds ages: what the cache (`CacheOK`) and each
request (`HandOK`) hold is what the account says now, or the account has changed
no longer ago than it was held for. Summed over the store and the use of an
entry this is `Grace`.

**AdSales.** `IInv` says what the announcements prove about an order (`PayOK`), which
order a subscription was given for (`SubOK`), what of it a request may rely on at
its step (`HandOK`) and what the job may (`JobOK`: what is on its list is over).
`PaidOnce` is part of it: a pending order has no subscription, and the
conditional UPDATE of `CompletePayment` lets one transaction pass.

**ChatKeys.** `HandsOK`: a batch holds the locks of its chats from before its first insert, so
what it has inserted is exactly the copies that were missing, which a chat either
all has or all lacks (`OneKey`); `KnownIsStored`: what a client was given is
still the key of the chat, so writing it again changes nothing.

**ChatHistory.** `ChatProofs` extends both chat models, which is why the formulas of
ChatKeys are called `StoreInit`, `StoreNext`, `StoreSpec` and `StoreTypeOK`. `ChatInv`
adds to the types what each handler has read (`ReqsOK`): only stored messages
are announced, pinned, deleted or read, and no two handlers insert one message.
Four small invariants rest on it. `JoinOK`: while the history is on its way to a
socket, every stored message is in it, was sent to the socket, is about to be or
is `silent` for it; the socket is in the room since before the read, which is part of `ReqsOK`.
`PinInv` counts the handlers that passed the repository's count together with
the pins: the sum keeps the limit, while the number of pins alone says nothing
of the next step. `RecallInv`: a recall writes both flags, and a deletion
decided on a recalled row found a flag that a crossing deletion had taken back.
`MarksOK`: the mark that a user's only connection is about to write is newer
than the stored one.

**Community.** `UsesAreCounted` counts the users let in by the code twice: they are
its `used_count`, the requests about to count and the lost ones; the
requests on their way in were at most all the workers when the last use was checked.
`RowsExist` and `MarksAreTrue` carry what a handler has read: the row it answers was created,
and what it is about to mark has happened. Cardinalities come from `FiniteSetTheorems`.

**Only model-checked.** Liveness (`SweptCallEnds`, `MarksResolve`,
`RequestsResolve`, `OverIsRecorded`, `GoneIsOffline`, `MoneyIsHonoured`,
`PartnerLapses`, `BatchesEnd`), which needs fairness and ENABLED. Every other
property of a passing run is a theorem.

## 5. Disagreements

`hub_panic` is a run: `SendToUser` says it is thread-safe (`ws/hub.go:166`), but
it closes the channel of a client that another delivery still holds; the hub
goroutine panics and the process ends.

The properties below are stated in the modules, are taken from a comment or a
document, and are refuted by TLC when put in the place of the properties of the
configuration named (changes in brackets). No run is kept for them.

| Property | Configuration | Said | Done |
|---|---|---|---|
| `DirectCall!NobodyInTwoCalls` | `DirectCallCore` [3 users, of whom one may call the other two] | neither the caller nor the callee is in a call (`docs/function-user.md:2542`) | `call.repository.go:41` binds both placeholders to the callee |
| `DirectCall!UnansweredIfMissed` | `DirectCallCore` | a missed call was not answered (`voice_call.service.go:244`, `:258`) | `EndCall` (`:220`) writes a verdict about a row it read before the answer |
| `DirectCall!DisconnectClearsCalls` | `DirectCallCore` | a lost connection ends the call (`docs/function-user.md:2436`) | the cleanup ends the latest call only; a user with two keeps the other |
| `DirectCall!MissedSinceIsCounted` | `DirectCallRestart` [`MaxClock = 3`] | missed calls since the last reading are counted | a call placed before the reading and missed after it is not (`call.repository.go:394-405`) |
| `DirectCall!MissedIsRecorded` | `DirectCallCore` | "missed" is announced of a missed call | the UPDATE fails, the error is logged, the row is still calling (`voice_call.service.go:90`) |
| `GroupCall!OneCallPerChat` | `GroupCallLive` [2 calls, no switches] | one running call per chat (`groupws/hub.go:265`) | the search and the insertion (`:332`) are two lock sections |
| `GroupCall!AbsentLeaves` | `GroupCallLive` | a dropped socket leaves no call hanging (`groupws/client.go:95`) | `ApproveJoinCall` (`groupws/hub.go:430`) joins somebody whose socket is gone; no mark, so no removal |
| `GroupCall!CreatorTakesPart` | `GroupCallCore` | who created or inherited a call is in it | the creator is removed while everybody else is in grace; nobody inherits (`groupws/hub.go:798`) |
| `GroupCall!MarkedOnlyIfAway` | `GroupCallLive` | who has another tab is not marked | a tab that opens after the sockets were listed does not stop the mark (`groupws/client.go:1312`) |
| `GroupCall!RosterRecorded` | `GroupCallCore` [no faults, no crash] | the history names who took part (`docs/function-user.md:2399`) | two approvals write their rosters in the other order |
| `ChatHistory!DeletedStaysDeleted` | `ChatHistoryCore` | "delete for the requesting user only" (`chat.service.go:617`) | `UpdateMessageDeleteStatus` writes both flags: the second user's deletion brings the message back to the first |
| `ChatHistory!PinsAreNotRecalled` | `ChatHistoryCore` | a deleted message cannot be pinned (`chat.service.go:830`) | a recall leaves the pin, and the list of pins serves its content |
| `ChatHistory!NewIsUnseen` | `ChatHistoryCore` | a message is seen when `LastReadAt >= CreatedAt` (`models/chat_read.model.go:6`) | one stamped in the second of the mark is seen before it is stored |
| `ChatHistory!ReadsAdvance` without its premise | `ChatHistoryCore` [`BothOfA`, 3 messages, `MaxTime = 2`] | the mark never goes back (`chat.repository.go:700-702`) | two connections of one user read it, then write it in the other order |
| `GroupMembers!OneAdmin` | `GroupMembersCore` [2 acts] | a month lies between two transfers (`docs/function-user.md:2209`) | two transfers that overlap make two admins, and so does the transfer of the group's community, which demotes nobody (`community.repository.go:865`); one to a member who is leaving makes none |
| `GroupMembers!ClosedIsStored` | `GroupMembersCore` | invitations are closed by the setting (`docs/function-user.md:2128`) | GORM leaves out the false of a new row, the column's default is true |
| `GroupMembers!BannedIsOut` | `GroupMembersCore` | a banned user is refused (`docs/function-user.md:2179`) | an acceptance looks at the bans before its transaction (`group_chat.service.go:711`), and joining the community looks at none (`community.repository.go:96`) |
| `Accounts!QuietCacheIsTrue` | `AccountsCore` | whoever changes the account clears the cache (`utils/auth_cache.go:14`) | deactivation, reactivation and the end of a ban do not |
| `Accounts!SuspensionIsUnmarked` | `AccountsCore` [1 worker, 2 acts] | a suspension by an administrator is not ended by a login (`auth.service.go:429-430`) | the mark of an earlier self-deactivation stays |
| `Accounts!RevokedIsVoid` | `AccountsCore` [1 worker, 2 sessions, `MaxVersion = 2`] | the refresh token of a revoked session is void (`docs/function-user.md:594`) | `RefreshToken` does not look at the session |
| `AdSales!OnePackageEach` | `AdSalesCore` | the running package is cancelled by the next (`docs/function-user.md:1654`) | the active subscription is read before the transaction (`payment.service.go:210`) |
| `AdSales!RunningIsPartner` | `AdSalesCore` | buying makes a partner (same line) | the job expires and takes the role in two statements (`package.service.go:107`) |
| `AdSales!AnsweredIsSuccess` | `AdSalesCore` | "the transaction has been confirmed" (`payment.service.go:234`) | said of a payment that a refusal has closed |
| `Community!TransferReaches` | `CommunityCore` | a transfer reaches a member (`docs/function-user.md:2874`, `function-admin.md:141`) | to one who is already an administrator it runs into the unique index of `user_roles` (`cmd/seed/schema/main.go:582`) |
| `Community!KeeperStays` | `CommunityCore` | who asks to keep his role is an administrator (`docs/function-user.md:2872`) | both admin roles are deleted either way (`community.repository.go:823`, `:829`) and none is given back |
| `Community!CreatorStays` | `CommunityCore` | the creator cannot leave or be kicked (`docs/function-user.md:2846`, `:2860`) | the check comes before the transfer, the removal after |
| `Community!InvitationsAdmitHere` | `CommunityCore` | who accepts an invitation is added to the members of its community (`docs/function-user.md:2959`) | `joinByInvitation` accepts one to another community (`community.service.go:448`) and marks it accepted (`:465`) |
| `Community!UsesAreLimited` | `CommunityCore` | a code is refused when used up (`docs/function-user.md:2755`) | compared, then counted in another statement; the result is ignored |

Found by reading, without a property:

- Calls: `docs/function-user.md:2406` says a lost connection ends every call the
  user is in (the code waits 15 s and removes that user only); `:2405` says a call
  with at most one participant is "cancelled", while `persistCallEnd` counts who is
  joined at the end, so the last one to leave a long call records it as cancelled.
  After a restart nothing repairs calls left active in MySQL or "calling" in
  MongoDB; a client may receive `connected` after `ended`; a ReadPump that answers
  its own client blocks for good when the buffer is full and the WritePump is gone
  (`ws/client.go:573`), which `GoneIsOffline` leaves out.
- Chats: a stored message whose decryption fails is not announced
  (`ws/client.go:149`); a history read before a recall is pushed after its
  broadcast; a message stamped before a user hides the chat leaves it hidden;
  `ensureDirectChat` may create two direct chats; an invitation is answered by its id unconditionally.
- Groups: settings read before a transfer write its cooldown away; a stale
  `Save` in `UpdateChat` overwrites the moderation status.
- Accounts: two refreshes with one token both succeed (`auth.service.go:692`); a
  reset token can be used twice by a race, and a reset revokes no session; the ban of a report writes the
  status before its row.
- Keys: `UnlockRecovery` writes back the backup it read (`e2e.service.go:246`),
  and every wrong guess after the fifth locks again, though the comment says every
  five; `key_version` may lose an update (`e2e.repository.go:48`).
- Communities: a request is approved and its user told he was rejected when answers
  cross; who is kicked stays in the chat and cannot rejoin until he leaves it;
  two pending invitations race.
- Friends: the toggle deletes a request by its id after it was accepted
  (`friend.service.go:70`), and only one direction is looked up (`:61`), so two
  users who ask each other make two rows.
- Advertisements: the slots are compared when the handler starts and counted
  after the uploads (`ad.service.go:86`, `:140`).

## 6. What is not modelled

- **Group chat messages** (`group_message.service.go`): the repository operations
  of `ChatHistory` after other permission checks. Two differences: "delete for
  me" of a group has one flag for all receivers, and its history shows as deleted
  only what was recalled.
- **Of direct chats**: older pages, reactions, the count of forwards (one atomic
  UPDATE), chats hidden from the list, the creation of a chat, invitations. The
  checks of `PinMessage` are one step.
- **Of accounts**: registration, e-mail verification, passwords and their reset,
  the count of failed logins, maintenance mode, the expiry of sessions and tokens.
- **Of communities**: limits on creating, rules, pictures, lists, a second code,
  codes without a limit or with an expiry, what contributions weigh when an heir is chosen
  (anybody who ever was a member may be). The checks of a handler are one step.
- **Of group chats**: name, picture, notification switches, mutes.
- **Of key exchange**: identity keys and recovery backups, which are rows of one
  user, and the event that tells the participants.
- **Advertisements** themselves, **friends**, **stories**, **presence cache**,
  **contributions**, **notifications**: single statements, locked rows or atomic
  counters; the races read in them are listed in section 5.
- **Media and AI moderation**, push, mail, WebRTC, payment gateways beyond their
  announcements: the other side is not in the repository.
- **Search, profiles, dashboards, ranking, validation, routing, migrations, seeds**:
  queries, arithmetic over many rows, pure checks of one request or wiring.
- Data races in the Go sense: `groupws` `SendToUser` ranges over
  `h.clients[userID]` after releasing the lock; this belongs to the delivery of
  frames, which `GroupCall` leaves out.
- Several server processes: all live state is in one process, and so is the
  model's.

## 7. Plan

1. `ChatHistory` for groups (`group_message.service.go`), with the permission
   checks of `GroupMembers` read before the statement they allow.
2. Delivery of frames of the call hub (`groupws`) on the footing of `WsHub`.
3. Friends and blocks; slots of advertisements; invitations to a chat.
