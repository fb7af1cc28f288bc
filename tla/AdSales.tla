------------------------------ MODULE AdSales -------------------------------
(***************************************************************************)
(* Advertisement packages: orders paid through VNPay or MoMo, the partner  *)
(* subscriptions they give, the PARTNER role that goes with them, and the  *)
(* hourly job that ends what has run out.                                  *)
(*                                                                         *)
(* A worker is the goroutine of one HTTP request: the creation of a        *)
(* payment, a notification of a gateway (the server-to-server IPN and the  *)
(* return of the browser run the same code), or a direct subscription.     *)
(* Each database statement or transaction is one action; between two of    *)
(* them a worker holds what it has read.  The gateways are external: they  *)
(* announce a refusal or an intermediate result before a payment, repeat   *)
(* and reorder their announcements, and resend a payment until the server  *)
(* acknowledges it.                                                        *)
(***************************************************************************)
EXTENDS Naturals, FiniteSets

CONSTANTS
    Users, Packages,
    Orders,       \* the payment transactions
    Subs,         \* the rows of partner_subscriptions
    Workers,
    MaxDirect,    \* bound on the direct subscriptions
    MaxTrouble,   \* bound on crashes and database errors
    NoUser, NoPackage, NoOrder, NoSub

ASSUME SalesAssumption ==
    /\ NoUser \notin Users
    /\ NoPackage \notin Packages
    /\ NoOrder \notin Orders
    /\ NoSub \notin Subs
    /\ MaxDirect \in Nat
    /\ MaxTrouble \in Nat

VARIABLES
    pay,          \* payment_transactions
    heard,        \* what the gateway has announced of each order
    acked,        \* the payments the server has acknowledged
    sub,          \* partner_subscriptions
    role,         \* the platform role of each user
    hand,         \* the request each worker is at
    job,          \* ProcessExpiredSubscriptions
    trouble       \* crashes and database errors so far

vars == <<pay, heard, acked, sub, role, hand, job, trouble>>

NoPay  == [status |-> "none", user |-> NoUser, package |-> NoPackage, url |-> FALSE]
NotYet == [status |-> "none", user |-> NoUser, package |-> NoPackage, order |-> NoOrder,
           lapsed |-> FALSE]
Idle   == [at |-> "idle", user |-> NoUser, package |-> NoPackage, order |-> NoOrder,
           active |-> NoSub]
Asleep == [at |-> "idle", todo |-> {}, sub |-> NoSub]

Init ==
    /\ pay = [o \in Orders |-> NoPay]
    /\ heard = [o \in Orders |-> {}]
    /\ acked = {}
    /\ sub = [s \in Subs |-> NotYet]
    /\ role = [u \in Users |-> "USER"]
    /\ hand = [w \in Workers |-> Idle]
    /\ job = Asleep
    /\ trouble = 0

-----------------------------------------------------------------------------
(* Reading and writing subscriptions *)

Running(u) == {s \in Subs : sub[s].user = u /\ sub[s].status = "active" /\ ~sub[s].lapsed}

\* GetActiveSubscription: the first running row by primary key, a random UUID.
ActiveOf(u) == IF Running(u) = {} THEN {NoSub} ELSE Running(u)

NewSub(u, p, o) ==
    [status |-> "active", user |-> u, package |-> p, order |-> o, lapsed |-> FALSE]

\* subscribeWithTx: the row read before is saved as cancelled, whatever it is by now.
Subscribed(old, s, new) ==
    [t \in Subs |->
        IF t = s THEN new
        ELSE IF t = old THEN [sub[t] EXCEPT !.status = "cancelled"]
        ELSE sub[t]]

-----------------------------------------------------------------------------
(* Creating a payment: CreateVNPayPayment, CreateMoMoPayment *)

\* The bound on payments: as many as there are transactions left.
OrdersLeft ==
    Cardinality({v \in Workers : hand[v].at = "create"})
    < Cardinality({o \in Orders : pay[o] = NoPay})

\* The package the user already has is refused.
CreatePayment(w, u, p) ==
    /\ hand[w] = Idle
    /\ OrdersLeft
    /\ \E s \in ActiveOf(u) : s # NoSub => sub[s].package # p
    /\ hand' = [hand EXCEPT ![w] = [Idle EXCEPT !.at = "create", !.user = u, !.package = p]]
    /\ UNCHANGED <<pay, heard, acked, sub, role, job, trouble>>

Placed(w, url) ==
    [status |-> "pending", user |-> hand[w].user, package |-> hand[w].package, url |-> url]

\* The pending row of a VNPay order is written and its URL is computed.
PlaceVNPay(w, o) ==
    /\ hand[w].at = "create"
    /\ pay[o] = NoPay
    /\ pay' = [pay EXCEPT ![o] = Placed(w, TRUE)]
    /\ hand' = [hand EXCEPT ![w] = Idle]
    /\ UNCHANGED <<heard, acked, sub, role, job, trouble>>

\* The pending row of a MoMo order is written before its URL is asked for.
PlaceMoMo(w, o) ==
    /\ hand[w].at = "create"
    /\ pay[o] = NoPay
    /\ pay' = [pay EXCEPT ![o] = Placed(w, FALSE)]
    /\ hand' = [hand EXCEPT ![w].at = "request", ![w].order = o]
    /\ UNCHANGED <<heard, acked, sub, role, job, trouble>>

\* MoMo answers with the URL.
RequestSucceeds(w) ==
    /\ hand[w].at = "request"
    /\ pay' = [pay EXCEPT ![hand[w].order].url = TRUE]
    /\ hand' = [hand EXCEPT ![w] = Idle]
    /\ UNCHANGED <<heard, acked, sub, role, job, trouble>>

\* MarkFailed: a conditional update, of a pending row only.
Failed(o) == IF pay[o].status = "pending" THEN [pay EXCEPT ![o].status = "failed"] ELSE pay

\* MoMo cannot be reached, or refuses: the order is marked failed.
RequestFails(w) ==
    /\ hand[w].at = "request"
    /\ pay' = Failed(hand[w].order)
    /\ hand' = [hand EXCEPT ![w] = Idle]
    /\ UNCHANGED <<heard, acked, sub, role, job, trouble>>

-----------------------------------------------------------------------------
(* The gateways *)

\* A refusal, or one of the intermediate results the server takes for a refusal.
AnnounceRefusal(o) ==
    /\ pay[o].url /\ heard[o] = {}
    /\ heard' = [heard EXCEPT ![o] = {"refused"}]
    /\ UNCHANGED <<pay, acked, sub, role, hand, job, trouble>>

AnnouncePayment(o) ==
    /\ pay[o].url /\ "paid" \notin heard[o]
    /\ heard' = [heard EXCEPT ![o] = @ \cup {"paid"}]
    /\ UNCHANGED <<pay, acked, sub, role, hand, job, trouble>>

-----------------------------------------------------------------------------
(* A notification: ProcessVNPayCallback, ProcessMoMoCallback *)

Acknowledging(w, o, step) ==
    hand' = [hand EXCEPT ![w] = [Idle EXCEPT !.at = step, !.order = o, !.user = pay[o].user,
                                             !.package = pay[o].package]]

\* Any announcement arrives, for the first time or again, and finds the order by its
\* reference.  A row that is already a success needs nothing more.
ReceivePayment(w, o) ==
    /\ hand[w] = Idle
    /\ "paid" \in heard[o]
    /\ Acknowledging(w, o, IF pay[o].status = "success" THEN "answer" ELSE "look")
    /\ UNCHANGED <<pay, heard, acked, sub, role, job, trouble>>

ReceiveRefusal(w, o) ==
    /\ hand[w] = Idle
    /\ "refused" \in heard[o]
    /\ pay[o].status # "success"
    /\ Acknowledging(w, o, "refuse")
    /\ UNCHANGED <<pay, heard, acked, sub, role, job, trouble>>

Refuse(w) ==
    /\ hand[w].at = "refuse"
    /\ pay' = Failed(hand[w].order)
    /\ hand' = [hand EXCEPT ![w] = Idle]
    /\ UNCHANGED <<heard, acked, sub, role, job, trouble>>

\* GetActiveSubscription, outside the transaction that follows.
Look(w) ==
    /\ hand[w].at = "look"
    /\ \E s \in ActiveOf(hand[w].user) :
           hand' = [hand EXCEPT ![w].at = "complete", ![w].active = s]
    /\ UNCHANGED <<pay, heard, acked, sub, role, job, trouble>>

CompleteAgain(w, s) ==               \* mutant: every success gives a subscription
    /\ hand[w].at = "complete"
    /\ sub[s] = NotYet
    /\ pay' = [pay EXCEPT ![hand[w].order].status = "success"]
    /\ sub' = Subscribed(hand[w].active, s,
                         NewSub(hand[w].user, hand[w].package, hand[w].order))
    /\ role' = [role EXCEPT ![hand[w].user] = "PARTNER"]
    /\ hand' = [hand EXCEPT ![w].at = "answer", ![w].active = NoSub]
    /\ UNCHANGED <<heard, acked, job, trouble>>
\* CompletePayment: the transaction of the callback that finds the order pending.
Complete(w, s) ==
    /\ hand[w].at = "complete"
    /\ pay[hand[w].order].status = "pending"
    /\ sub[s] = NotYet
    /\ pay' = [pay EXCEPT ![hand[w].order].status = "success"]
    /\ sub' = Subscribed(hand[w].active, s,
                         NewSub(hand[w].user, hand[w].package, hand[w].order))
    /\ role' = [role EXCEPT ![hand[w].user] = "PARTNER"]
    /\ hand' = [hand EXCEPT ![w].at = "answer", ![w].active = NoSub]
    /\ UNCHANGED <<heard, acked, job, trouble>>

\* No row was pending: nothing is written and the answer is a success all the same.
CompleteLate(w) ==
    /\ hand[w].at = "complete"
    /\ pay[hand[w].order].status # "pending"
    /\ hand' = [hand EXCEPT ![w].at = "answer", ![w].active = NoSub]
    /\ UNCHANGED <<pay, heard, acked, sub, role, job, trouble>>

\* The acknowledgement reaches the gateway, which stops resending.
Answer(w) ==
    /\ hand[w].at = "answer"
    /\ acked' = acked \cup {hand[w].order}
    /\ hand' = [hand EXCEPT ![w] = Idle]
    /\ UNCHANGED <<pay, heard, sub, role, job, trouble>>

-----------------------------------------------------------------------------
(* A direct subscription: SubscribePackage *)

Directly ==
    Cardinality({s \in Subs : sub[s] # NotYet /\ sub[s].order = NoOrder})
    + Cardinality({w \in Workers : hand[w].at = "subscribe"})

Subscribe(w, u, p) ==
    /\ hand[w] = Idle
    /\ Directly < MaxDirect
    /\ \E s \in ActiveOf(u) :
           hand' = [hand EXCEPT ![w] = [at |-> "subscribe", user |-> u, package |-> p,
                                        order |-> NoOrder, active |-> s]]
    /\ UNCHANGED <<pay, heard, acked, sub, role, job, trouble>>

\* SubscribeWithTransaction
Commit(w, s) ==
    /\ hand[w].at = "subscribe"
    /\ sub[s] = NotYet
    /\ sub' = Subscribed(hand[w].active, s, NewSub(hand[w].user, hand[w].package, NoOrder))
    /\ role' = [role EXCEPT ![hand[w].user] = "PARTNER"]
    /\ hand' = [hand EXCEPT ![w] = Idle]
    /\ UNCHANGED <<pay, heard, acked, job, trouble>>

-----------------------------------------------------------------------------
(* Time, and the hourly job ProcessExpiredSubscriptions *)

\* expires_at passes.
Lapse(s) ==
    /\ sub[s].status = "active" /\ ~sub[s].lapsed
    /\ sub' = [sub EXCEPT ![s].lapsed = TRUE]
    /\ UNCHANGED <<pay, heard, acked, role, hand, job, trouble>>

Overdue == {s \in Subs : sub[s].status = "active" /\ sub[s].lapsed}

\* FindExpiredSubscriptions
Tick ==
    /\ job = Asleep
    /\ Overdue # {}
    /\ job' = [Asleep EXCEPT !.at = "expire", !.todo = Overdue]
    /\ UNCHANGED <<pay, heard, acked, sub, role, hand, trouble>>

ExpireAll(s) ==                      \* mutant: the update goes by the user
    /\ job.at = "expire" /\ s \in job.todo
    /\ sub' = [t \in Subs |-> IF sub[t].user = sub[s].user
                              THEN [sub[t] EXCEPT !.status = "expired"] ELSE sub[t]]
    /\ job' = [at |-> "downgrade", todo |-> job.todo \ {s}, sub |-> s]
    /\ UNCHANGED <<pay, heard, acked, role, hand, trouble>>
\* ExpireSubscription, of a row of the list whatever it has become.
Expire(s) ==
    /\ job.at = "expire" /\ s \in job.todo
    /\ sub' = [sub EXCEPT ![s].status = "expired"]
    /\ job' = [at |-> "downgrade", todo |-> job.todo \ {s}, sub |-> s]
    /\ UNCHANGED <<pay, heard, acked, role, hand, trouble>>

AfterOne == IF job.todo = {} THEN Asleep ELSE [job EXCEPT !.at = "expire", !.sub = NoSub]

DowngradeForgotten ==                \* mutant: the role is kept
    /\ job.at = "downgrade"
    /\ job' = AfterOne
    /\ UNCHANGED <<pay, heard, acked, sub, role, hand, trouble>>
\* DowngradePartnerRole, whatever else the user has running.
Downgrade ==
    /\ job.at = "downgrade"
    /\ role' = [role EXCEPT ![sub[job.sub].user] = "USER"]
    /\ job' = AfterOne
    /\ UNCHANGED <<pay, heard, acked, sub, hand, trouble>>

-----------------------------------------------------------------------------
(* Errors and restarts *)

StumbleAcknowledged(w) ==            \* mutant: the error is not reported to the gateway
    /\ hand[w].at \in {"create", "request", "refuse", "look", "complete", "subscribe"}
    /\ trouble < MaxTrouble
    /\ hand' = [hand EXCEPT ![w] = IF @.at = "complete" THEN [@ EXCEPT !.at = "answer"] ELSE Idle]
    /\ trouble' = trouble + 1
    /\ UNCHANGED <<pay, heard, acked, sub, role, job>>
\* A statement fails: the request ends with an error and the gateway will resend.
Stumble(w) ==
    /\ hand[w].at \in {"create", "request", "refuse", "look", "complete", "subscribe"}
    /\ trouble < MaxTrouble
    /\ hand' = [hand EXCEPT ![w] = Idle]
    /\ trouble' = trouble + 1
    /\ UNCHANGED <<pay, heard, acked, sub, role, job>>

\* A statement of the job fails: it goes on with the next subscription.
JobStumbles(s) ==
    /\ \/ job.at = "expire" /\ s \in job.todo
       \/ job.at = "downgrade" /\ s = job.sub
    /\ trouble < MaxTrouble
    /\ job' = IF job.todo \ {s} = {} THEN Asleep
              ELSE [at |-> "expire", todo |-> job.todo \ {s}, sub |-> NoSub]
    /\ trouble' = trouble + 1
    /\ UNCHANGED <<pay, heard, acked, sub, role, hand>>

\* The process restarts: what the requests and the job held is lost.
Crash ==
    /\ trouble < MaxTrouble
    /\ hand' = [w \in Workers |-> Idle]
    /\ job' = Asleep
    /\ trouble' = trouble + 1
    /\ UNCHANGED <<pay, heard, acked, sub, role>>

-----------------------------------------------------------------------------
Proceed(w) ==
    \/ RequestSucceeds(w) \/ RequestFails(w)
    \/ Refuse(w) \/ Look(w) \/ CompleteLate(w) \/ Answer(w)
    \/ \E o \in Orders : PlaceVNPay(w, o) \/ PlaceMoMo(w, o)
    \/ \E s \in Subs : Complete(w, s) \/ Commit(w, s)

JobStep == Downgrade \/ \E s \in Subs : Expire(s)

Next ==
    \/ \E w \in Workers :
        \/ Proceed(w)
        \/ Stumble(w)
        \/ \E u \in Users, p \in Packages : CreatePayment(w, u, p) \/ Subscribe(w, u, p)
        \/ \E o \in Orders : ReceivePayment(w, o) \/ ReceiveRefusal(w, o)
    \/ \E o \in Orders : AnnounceRefusal(o) \/ AnnouncePayment(o)
    \/ \E s \in Subs : Lapse(s) \/ JobStumbles(s)
    \/ Tick \/ JobStep \/ Crash

Spec == Init /\ [][Next]_vars

Resend(o) == o \notin acked /\ \E w \in Workers : ReceivePayment(w, o)

\* Requests and the job go on, the job wakes up, and a gateway resends a payment until
\* it is acknowledged.  A resend finds a free worker again and again, not all the time:
\* the bound on workers is the model's, so the fairness is strong.
FairSpec ==
    /\ Spec
    /\ \A w \in Workers : WF_vars(Proceed(w))
    /\ WF_vars(Tick) /\ WF_vars(JobStep)
    /\ \A o \in Orders : SF_vars(Resend(o))

-----------------------------------------------------------------------------
(* Properties *)

Steps == {"idle", "create", "request", "refuse", "look", "complete", "answer", "subscribe"}

\* The types of the variables; what a worker holds fits the step it is at.
TypeOK ==
    /\ pay \in [Orders -> [status : {"none", "pending", "success", "failed"},
                           user : Users \cup {NoUser}, package : Packages \cup {NoPackage},
                           url : BOOLEAN]]
    /\ heard \in [Orders -> SUBSET {"paid", "refused"}]
    /\ acked \subseteq Orders
    /\ sub \in [Subs -> [status : {"none", "active", "cancelled", "expired"},
                         user : Users \cup {NoUser}, package : Packages \cup {NoPackage},
                         order : Orders \cup {NoOrder}, lapsed : BOOLEAN]]
    /\ role \in [Users -> {"USER", "PARTNER"}]
    /\ hand \in [Workers -> [at : Steps, user : Users \cup {NoUser},
                             package : Packages \cup {NoPackage},
                             order : Orders \cup {NoOrder}, active : Subs \cup {NoSub}]]
    /\ job \in [at : {"idle", "expire", "downgrade"}, todo : SUBSET Subs,
                sub : Subs \cup {NoSub}]
    /\ trouble \in 0 .. MaxTrouble
    /\ \A w \in Workers :
        /\ hand[w].at \in {"request", "refuse", "look", "complete", "answer"}
           => hand[w].order \in Orders
        /\ hand[w].at \notin {"idle", "answer"} => hand[w].user \in Users
    /\ job.at = "downgrade" => job.sub \in Subs /\ sub[job.sub].user \in Users

\* However often and in whatever order the gateways announce an order, it gives one
\* subscription when it is paid and none otherwise.
PaidOnce ==
    \A o \in Orders :
        LET given == {s \in Subs : sub[s].order = o} IN
        /\ given # {} <=> pay[o].status = "success"
        /\ \A s, t \in given : s = t

\* A payment the server has acknowledged, so that the gateway will not speak of it again,
\* has been honoured, unless the gateway had announced a refusal of it before.
AcknowledgedIsHonoured ==
    \A o \in acked :
        \/ pay[o].status = "success"
        \/ "refused" \in heard[o] /\ pay[o].status = "failed"

\* A user's last running subscription ends only when its time is over: neither a purchase
\* nor the expiry job, with what they read before, takes it away.
NeverLeftWithout ==
    [][\A u \in Users :
          Running(u) # {} /\ Running(u)' = {}
          => \E s \in Running(u) : sub[s]'.lapsed]_vars

\* Whoever pays gets the subscription in the end, through crashes and errors, unless the
\* gateway also announced a refusal.
MoneyIsHonoured ==
    \A o \in Orders :
        "paid" \in heard[o] ~> pay[o].status = "success" \/ "refused" \in heard[o]

\* A partner who has nothing running is downgraded or buys again, as long as nothing fails.
PartnerLapses ==
    \A u \in Users :
        role[u] = "PARTNER" /\ Running(u) = {}
        ~> role[u] = "USER" \/ Running(u) # {} \/ trouble > 0

OrderState(o) ==
    CASE pay[o].status = "none"    -> "new"
      [] pay[o].status = "pending" -> "open"
      [] pay[o].status = "success" -> "honoured"
      [] OTHER                     -> "refused"

Sale == INSTANCE SaleContract WITH
    order <- [o \in Orders |-> OrderState(o)],
    money <- {o \in Orders : "paid" \in heard[o]},
    given <- {<<sub[s].order, s>> : s \in {t \in Subs : sub[t].order # NoOrder}}

\* The tables implement the contract of a sale.
SaleSpec == Sale!Spec

-----------------------------------------------------------------------------
(* What the documents of the repository say *)

\* docs/function-user.md:1654: the package that runs is cancelled when another is bought,
\* so that a user has one.
OnePackageEach == \A u \in Users : \A s, t \in Running(u) : s = t

\* docs/function-user.md:1654: buying a package makes the user a partner.
RunningIsPartner == \A u \in Users : Running(u) # {} => role[u] = "PARTNER"

\* services/payment.service.go:234: a success that finds no pending row is answered with
\* "the transaction has been confirmed".
AnsweredIsSuccess == \A o \in acked : pay[o].status = "success"
=============================================================================
