---------------------------- MODULE AdSalesProofs ---------------------------
(***************************************************************************)
(* Proofs about AdSales for every set of users, orders, subscriptions and  *)
(* workers, and every number of crashes and errors.  The invariant says    *)
(* what the announcements prove about an order, and what of it a request   *)
(* may rely on at the step it has reached.                                 *)
(***************************************************************************)
EXTENDS AdSales, TLAPS

Pays == [status : {"none", "pending", "success", "failed"}, user : Users \cup {NoUser},
         package : Packages \cup {NoPackage}, url : BOOLEAN]
SubRows == [status : {"none", "active", "cancelled", "expired"}, user : Users \cup {NoUser},
            package : Packages \cup {NoPackage}, order : Orders \cup {NoOrder},
            lapsed : BOOLEAN]
Hands == [at : Steps, user : Users \cup {NoUser}, package : Packages \cup {NoPackage},
          order : Orders \cup {NoOrder}, active : Subs \cup {NoSub}]
Jobs == [at : {"idle", "expire", "downgrade"}, todo : SUBSET Subs, sub : Subs \cup {NoSub}]

Typed ==
    /\ pay \in [Orders -> Pays]
    /\ heard \in [Orders -> SUBSET {"paid", "refused"}]
    /\ acked \subseteq Orders
    /\ sub \in [Subs -> SubRows]
    /\ role \in [Users -> {"USER", "PARTNER"}]
    /\ hand \in [Workers -> Hands]
    /\ job \in Jobs
    /\ trouble \in 0 .. MaxTrouble

\* An order has its user from its creation on; it is announced once it has a URL, and
\* one that has failed with a URL was refused.
PayOK(o) ==
    /\ pay[o].status = "none" <=> pay[o] = NoPay
    /\ pay[o].status # "none" => pay[o].user \in Users /\ pay[o].package \in Packages
    /\ heard[o] # {} => pay[o].url
    /\ pay[o].status = "failed" /\ pay[o].url => "refused" \in heard[o]

\* The order is decided, and not against the money alone.
Settled(o) == \/ pay[o].status = "success"
              \/ "refused" \in heard[o] /\ pay[o].status = "failed"

SubOK(s) ==
    /\ sub[s].status = "none" <=> sub[s] = NotYet
    /\ sub[s].status # "none" => sub[s].user \in Users

\* A request on an order has been asked for by what the gateway announced, or is the
\* only one to wait for the order's URL.
HandOK(w) ==
    /\ hand[w].at \in {"create", "subscribe"} => hand[w].user \in Users /\ hand[w].package \in Packages
    /\ hand[w].at \in {"request", "refuse", "look", "complete", "answer"} => hand[w].order \in Orders
    /\ hand[w].at = "request" =>
         /\ hand[w].user \in Users
         /\ pay[hand[w].order].status = "pending" /\ ~pay[hand[w].order].url
         /\ \A x \in Workers : hand[x].at = "request" /\ hand[x].order = hand[w].order => x = w
    /\ hand[w].at = "refuse" => "refused" \in heard[hand[w].order]
    /\ hand[w].at \in {"look", "complete"} => "paid" \in heard[hand[w].order]
    /\ hand[w].at \in {"refuse", "look", "complete"} =>
         /\ hand[w].user = pay[hand[w].order].user
         /\ hand[w].package = pay[hand[w].order].package
    /\ hand[w].at = "answer" => Settled(hand[w].order)
    /\ hand[w].at \in {"complete", "subscribe"} /\ hand[w].active # NoSub =>
         sub[hand[w].active].status # "none" /\ sub[hand[w].active].user = hand[w].user

\* What the job is about to end has lapsed.
JobOK ==
    /\ \A s \in job.todo : sub[s].lapsed /\ sub[s].status # "none"
    /\ job.at = "downgrade" => job.sub \in Subs /\ sub[job.sub].status # "none"

IInv ==
    /\ Typed
    /\ \A o \in Orders : PayOK(o)
    /\ \A s \in Subs : SubOK(s)
    /\ \A w \in Workers : HandOK(w)
    /\ JobOK
    /\ PaidOnce
    /\ \A o \in acked : Settled(o)

-----------------------------------------------------------------------------
(* The steps, seen from the tables *)

\* A payment is opened, given its URL, failed or honoured.
Opened(o) ==
    /\ pay[o] = NoPay
    /\ \E u \in Users, p \in Packages, url \in BOOLEAN :
         pay' = [pay EXCEPT ![o] = [status |-> "pending", user |-> u, package |-> p, url |-> url]]
Linked(o) ==
    /\ pay[o].status = "pending"
    /\ pay' = [pay EXCEPT ![o].url = TRUE]
FailedNow(o) ==
    /\ pay[o].status = "pending"
    /\ pay[o].url => "refused" \in heard[o]
    /\ pay' = [pay EXCEPT ![o].status = "failed"]
Honoured(o) ==
    /\ pay[o].status = "pending"
    /\ "paid" \in heard[o]
    /\ pay' = [pay EXCEPT ![o].status = "success"]
PayStep == pay' = pay \/ \E o \in Orders : Opened(o) \/ Linked(o) \/ FailedNow(o) \/ Honoured(o)

HeardStep ==
    \/ heard' = heard
    \/ \E o \in Orders : /\ pay[o].url /\ pay' = pay
                         /\ \/ heard' = [heard EXCEPT ![o] = @ \cup {"paid"}]
                            \/ heard[o] = {} /\ heard' = [heard EXCEPT ![o] = {"refused"}]

\* A subscription is given, for an order or without; it lapses; it is expired.
Sold(old, s, u, o) ==
    /\ sub[s] = NotYet
    /\ old # NoSub => sub[old].status # "none" /\ sub[old].user = u
    /\ \E p \in Packages : sub' = Subscribed(old, s, NewSub(u, p, o))
Marked(s) ==
    /\ sub[s].status # "none"
    /\ \/ sub' = [sub EXCEPT ![s].lapsed = TRUE]
       \/ sub[s].lapsed /\ sub' = [sub EXCEPT ![s].status = "expired"]
SubStep ==
    \/ sub' = sub
    \/ \E s \in Subs : Marked(s)
    \/ \E old \in Subs \cup {NoSub}, s \in Subs, u \in Users, o \in Orders \cup {NoOrder} : Sold(old, s, u, o)

-----------------------------------------------------------------------------

LEMMA Literals ==
    /\ Idle \in Hands /\ NoPay \in Pays /\ NotYet \in SubRows /\ Asleep \in Jobs
  BY DEF Idle, Hands, Steps, NoPay, Pays, NotYet, SubRows, Asleep, Jobs

LEMMA InitIInv ==
    ASSUME Init
    PROVE  IInv
  <1>1. Typed
    BY Literals, SalesAssumption DEF Init, Typed
  <1>2. \A o \in Orders : PayOK(o)
    BY DEF Init, PayOK, NoPay
  <1>3. \A s \in Subs : SubOK(s)
    BY DEF Init, SubOK, NotYet
  <1>4. \A w \in Workers : HandOK(w)
    BY DEF Init, HandOK, Idle
  <1>5. JobOK
    BY DEF Init, JobOK, Asleep
  <1>6. PaidOnce
    BY SalesAssumption DEF Init, PaidOnce, NotYet, NoPay
  <1>7. \A o \in acked : Settled(o)
    BY DEF Init
  <1> QED BY <1>1, <1>2, <1>3, <1>4, <1>5, <1>6, <1>7 DEF IInv

\* What is decided of an order stays.
LEMMA PayIsKept ==
    ASSUME IInv, PayStep, NEW o \in Orders, pay[o].status # "none"
    PROVE  /\ pay'[o].status # "none"
           /\ pay'[o].user = pay[o].user /\ pay'[o].package = pay[o].package
           /\ pay[o].status = "success" => pay'[o].status = "success"
           /\ pay[o].status = "failed" => pay'[o].status = "failed"
           /\ pay[o].url => pay'[o].url
  <1>1. pay \in [Orders -> Pays]
    BY DEF IInv, Typed
  <1>2. ASSUME NEW q \in Orders, Opened(q) PROVE pay'[o] = pay[o]
    BY <1>1, <1>2 DEF Opened, NoPay
  <1>3. ASSUME NEW q \in Orders, Linked(q) \/ FailedNow(q) \/ Honoured(q), q # o
        PROVE  pay'[o] = pay[o]
    BY <1>1, <1>3 DEF Linked, FailedNow, Honoured
  <1>4. CASE Linked(o) \/ FailedNow(o) \/ Honoured(o)
    BY <1>1, <1>4 DEF Linked, FailedNow, Honoured, Pays
  <1> QED BY <1>2, <1>3, <1>4 DEF PayStep

LEMMA HeardIsKept ==
    ASSUME IInv, HeardStep, NEW o \in Orders
    PROVE  heard[o] \subseteq heard'[o]
  <1>1. heard \in [Orders -> SUBSET {"paid", "refused"}]
    BY DEF IInv, Typed
  <1> QED BY <1>1 DEF HeardStep

LEMMA SettledStays ==
    ASSUME IInv, PayStep, HeardStep, NEW o \in Orders, Settled(o)
    PROVE  Settled(o)'
  BY PayIsKept, HeardIsKept DEF Settled

LEMMA PayTyped ==
    ASSUME IInv, PayStep
    PROVE  pay' \in [Orders -> Pays]
  <1>1. pay \in [Orders -> Pays]
    BY DEF IInv, Typed
  <1>2. ASSUME NEW o \in Orders, Opened(o) PROVE pay' \in [Orders -> Pays]
    <2> PICK u \in Users, p \in Packages, url \in BOOLEAN :
           pay' = [pay EXCEPT ![o] = [status |-> "pending", user |-> u, package |-> p, url |-> url]]
      BY <1>2 DEF Opened
    <2>1. [status |-> "pending", user |-> u, package |-> p, url |-> url] \in Pays
      BY DEF Pays
    <2> QED BY <1>1, <2>1
  <1>3. ASSUME NEW o \in Orders, Linked(o) PROVE pay' \in [Orders -> Pays]
    <2>1. [pay[o] EXCEPT !.url = TRUE] \in Pays
      BY <1>1 DEF Pays
    <2>2. pay' = [pay EXCEPT ![o] = [pay[o] EXCEPT !.url = TRUE]]
      BY <1>1, <1>3 DEF Linked
    <2> QED BY <1>1, <2>1, <2>2
  <1>4. ASSUME NEW o \in Orders, FailedNow(o) \/ Honoured(o) PROVE pay' \in [Orders -> Pays]
    <2> PICK t \in {"failed", "success"} : pay' = [pay EXCEPT ![o].status = t]
      BY <1>4 DEF FailedNow, Honoured
    <2>1. [pay[o] EXCEPT !.status = t] \in Pays
      BY <1>1 DEF Pays
    <2>2. pay' = [pay EXCEPT ![o] = [pay[o] EXCEPT !.status = t]]
      BY <1>1
    <2> QED BY <1>1, <2>1, <2>2
  <1> QED BY <1>1, <1>2, <1>3, <1>4 DEF PayStep

LEMMA PayOKStep ==
    ASSUME IInv, PayStep, HeardStep, NEW o \in Orders
    PROVE  PayOK(o)'
  <1>1. pay \in [Orders -> Pays] /\ heard \in [Orders -> SUBSET {"paid", "refused"}] /\ PayOK(o)
    BY DEF IInv, Typed
  <1>2. CASE pay' = pay
    <2>1. CASE heard' = heard
      BY <1>1, <1>2, <2>1 DEF PayOK
    <2>2. ASSUME NEW q \in Orders, pay[q].url,
                 \/ heard' = [heard EXCEPT ![q] = @ \cup {"paid"}]
                 \/ heard' = [heard EXCEPT ![q] = {"refused"}] /\ heard[q] = {}
          PROVE  PayOK(o)'
      <3>1. CASE q = o
        BY <1>1, <1>2, <2>2, <3>1 DEF PayOK
      <3>2. CASE q # o
        BY <1>1, <1>2, <2>2, <3>2 DEF PayOK
      <3> QED BY <3>1, <3>2
    <2> QED BY <2>1, <2>2 DEF HeardStep
  <1>3. ASSUME NEW q \in Orders, Opened(q) \/ Linked(q) \/ FailedNow(q) \/ Honoured(q), q # o
        PROVE  PayOK(o)'
    <2>1. pay'[o] = pay[o]
      BY <1>1, <1>3 DEF Opened, Linked, FailedNow, Honoured
    <2>3. CASE heard' = heard
      BY <1>1, <2>1, <2>3 DEF PayOK
    <2> QED BY <1>2, <2>3 DEF HeardStep
  <1>4. CASE heard' = heard /\ Opened(o)
    <2> PICK u \in Users, p \in Packages, url \in BOOLEAN :
           pay' = [pay EXCEPT ![o] = [status |-> "pending", user |-> u, package |-> p, url |-> url]]
      BY <1>4 DEF Opened
    <2>1. pay'[o] = [status |-> "pending", user |-> u, package |-> p, url |-> url]
      BY <1>1
    <2>2. heard[o] = {}
      BY <1>1, <1>4 DEF PayOK, Opened, NoPay
    <2> QED BY <1>4, <2>1, <2>2 DEF PayOK, NoPay
  <1>5. CASE heard' = heard /\ (Linked(o) \/ FailedNow(o) \/ Honoured(o))
    BY <1>1, <1>5 DEF PayOK, NoPay, Linked, FailedNow, Honoured, Pays
  <1> QED BY <1>2, <1>3, <1>4, <1>5 DEF PayStep, HeardStep

-----------------------------------------------------------------------------
(* Which action does which step *)

\* A step of worker w.
Acts(w) ==
    \/ Proceed(w) \/ Stumble(w)
    \/ \E u \in Users, p \in Packages : CreatePayment(w, u, p) \/ Subscribe(w, u, p)
    \/ \E o \in Orders : ReceivePayment(w, o) \/ ReceiveRefusal(w, o)

\* A step of the gateways, the clock or the job.
Rest ==
    \/ \E o \in Orders : AnnounceRefusal(o) \/ AnnouncePayment(o)
    \/ \E s \in Subs : Lapse(s) \/ JobStumbles(s)
    \/ Tick \/ JobStep \/ Crash

\* The requests leave the job and the announcements alone, and move one hand.
Handed(w) == \E h \in Hands : hand' = [hand EXCEPT ![w] = h]

LEMMA NextSplit ==
    ASSUME Next
    PROVE  Rest \/ \E w \in Workers : Acts(w)
  BY DEF Next, Rest, Acts

LEMMA ActsFrame ==
    ASSUME NEW w \in Workers, Acts(w)
    PROVE  heard' = heard /\ job' = job
  <1>1. CASE Proceed(w)
    BY <1>1 DEF Proceed, RequestSucceeds, RequestFails, Refuse, Look, CompleteLate, Answer,
                PlaceVNPay, PlaceMoMo, Complete, Commit
  <1>2. CASE Stumble(w)
    BY <1>2 DEF Stumble
  <1>3. CASE \E u \in Users, p \in Packages : CreatePayment(w, u, p) \/ Subscribe(w, u, p)
    BY <1>3 DEF CreatePayment, Subscribe
  <1>4. CASE \E o \in Orders : ReceivePayment(w, o) \/ ReceiveRefusal(w, o)
    BY <1>4 DEF ReceivePayment, ReceiveRefusal
  <1> QED BY <1>1, <1>2, <1>3, <1>4 DEF Acts

LEMMA FailedIsStep ==
    ASSUME IInv, NEW o \in Orders, pay[o].url => "refused" \in heard[o], pay' = Failed(o)
    PROVE  PayStep
  BY DEF Failed, PayStep, FailedNow

LEMMA PlacedIsStep ==
    ASSUME IInv, NEW w \in Workers, hand[w].at = "create", NEW o \in Orders, pay[o] = NoPay,
           NEW url \in BOOLEAN, pay' = [pay EXCEPT ![o] = Placed(w, url)]
    PROVE  PayStep
  <1>1. hand[w].user \in Users /\ hand[w].package \in Packages
    BY DEF IInv, HandOK
  <1> QED BY <1>1 DEF Placed, Opened, PayStep

LEMMA ActsOnPays ==
    ASSUME IInv, NEW w \in Workers, Acts(w)
    PROVE  PayStep
  <1>0. HandOK(w)
    BY DEF IInv
  <1>1. CASE pay' = pay
    BY <1>1 DEF PayStep
  <1>2. ASSUME NEW o \in Orders, PlaceVNPay(w, o) \/ PlaceMoMo(w, o) PROVE PayStep
    BY <1>2, PlacedIsStep DEF PlaceVNPay, PlaceMoMo
  <1>3. CASE RequestSucceeds(w)
    BY <1>0, <1>3 DEF RequestSucceeds, HandOK, PayStep, Linked
  <1>4. CASE RequestFails(w)
    BY <1>0, <1>4, FailedIsStep DEF RequestFails, HandOK
  <1>5. CASE Refuse(w)
    BY <1>0, <1>5, FailedIsStep DEF Refuse, HandOK
  <1>6. ASSUME NEW s \in Subs, Complete(w, s) PROVE PayStep
    <2>1. hand[w].order \in Orders /\ "paid" \in heard[hand[w].order]
      BY <1>0, <1>6 DEF Complete, HandOK
    <2> QED BY <1>6, <2>1 DEF Complete, PayStep, Honoured
  <1>7. CASE Look(w) \/ CompleteLate(w) \/ Answer(w) \/ \E s \in Subs : Commit(w, s)
    BY <1>1, <1>7 DEF Look, CompleteLate, Answer, Commit
  <1>8. CASE Stumble(w)
    BY <1>1, <1>8 DEF Stumble
  <1>9. CASE \E u \in Users, p \in Packages : CreatePayment(w, u, p) \/ Subscribe(w, u, p)
    BY <1>1, <1>9 DEF CreatePayment, Subscribe
  <1>10. CASE \E o \in Orders : ReceivePayment(w, o) \/ ReceiveRefusal(w, o)
    BY <1>1, <1>10 DEF ReceivePayment, ReceiveRefusal
  <1> QED BY <1>2, <1>3, <1>4, <1>5, <1>6, <1>7, <1>8, <1>9, <1>10 DEF Acts, Proceed

\* A purchase cancels a running subscription of the same user, and its order is honoured
\* by the same transaction.
Purchase(w, s, o) ==
    /\ hand[w].user \in Users
    /\ Sold(hand[w].active, s, hand[w].user, o)
    /\ hand[w].active \in Subs \cup {NoSub}

LEMMA CompleteSells ==
    ASSUME IInv, NEW w \in Workers, NEW s \in Subs, Complete(w, s)
    PROVE  Purchase(w, s, hand[w].order) /\ hand[w].order \in Orders
  <1>0. HandOK(w) /\ hand[w] \in Hands /\ \A o \in Orders : PayOK(o)
    BY DEF IInv, Typed
  <1>1. hand[w].at = "complete" /\ hand[w].order \in Orders /\ pay[hand[w].order].status = "pending"
    BY <1>0 DEF Complete, HandOK
  <1>2. pay[hand[w].order].user \in Users /\ pay[hand[w].order].package \in Packages
    BY <1>0, <1>1 DEF PayOK
  <1>3. hand[w].user \in Users /\ hand[w].package \in Packages
    BY <1>0, <1>1, <1>2 DEF HandOK
  <1>4. hand[w].active # NoSub => sub[hand[w].active].status # "none" /\ sub[hand[w].active].user = hand[w].user
    BY <1>0, <1>1 DEF HandOK
  <1>5. sub[s] = NotYet /\ sub' = Subscribed(hand[w].active, s, NewSub(hand[w].user, hand[w].package, hand[w].order))
    BY DEF Complete
  <1>6. hand[w].active \in Subs \cup {NoSub}
    BY <1>0 DEF Hands
  <1> QED BY <1>1, <1>3, <1>4, <1>5, <1>6 DEF Purchase, Sold

LEMMA CommitSells ==
    ASSUME IInv, NEW w \in Workers, NEW s \in Subs, Commit(w, s)
    PROVE  Purchase(w, s, NoOrder)
  <1>0. HandOK(w) /\ hand[w] \in Hands
    BY DEF IInv, Typed
  <1>1. hand[w].at = "subscribe" /\ hand[w].user \in Users /\ hand[w].package \in Packages
    BY <1>0 DEF Commit, HandOK
  <1>2. hand[w].active # NoSub => sub[hand[w].active].status # "none" /\ sub[hand[w].active].user = hand[w].user
    BY <1>0, <1>1 DEF HandOK
  <1>3. sub[s] = NotYet /\ sub' = Subscribed(hand[w].active, s, NewSub(hand[w].user, hand[w].package, NoOrder))
    BY DEF Commit
  <1>4. hand[w].active \in Subs \cup {NoSub}
    BY <1>0 DEF Hands
  <1> QED BY <1>1, <1>2, <1>3, <1>4 DEF Purchase, Sold

\* Only a purchase touches the subscriptions.
LEMMA ActsOnSubs ==
    ASSUME IInv, NEW w \in Workers, Acts(w)
    PROVE  sub' = sub \/ \E s \in Subs : Complete(w, s) \/ Commit(w, s)
  <1>1. CASE RequestSucceeds(w) \/ RequestFails(w) \/ Refuse(w) \/ Look(w) \/ CompleteLate(w) \/ Answer(w)
    BY <1>1 DEF RequestSucceeds, RequestFails, Refuse, Look, CompleteLate, Answer
  <1>2. CASE \E o \in Orders : PlaceVNPay(w, o) \/ PlaceMoMo(w, o)
    BY <1>2 DEF PlaceVNPay, PlaceMoMo
  <1>3. CASE Stumble(w)
    BY <1>3 DEF Stumble
  <1>4. CASE \E u \in Users, p \in Packages : CreatePayment(w, u, p) \/ Subscribe(w, u, p)
    BY <1>4 DEF CreatePayment, Subscribe
  <1>5. CASE \E o \in Orders : ReceivePayment(w, o) \/ ReceiveRefusal(w, o)
    BY <1>5 DEF ReceivePayment, ReceiveRefusal
  <1> QED BY <1>1, <1>2, <1>3, <1>4, <1>5 DEF Acts, Proceed

LEMMA ActsSubStep ==
    ASSUME IInv, NEW w \in Workers, Acts(w)
    PROVE  SubStep
  <1>1. ASSUME NEW s \in Subs, NEW o \in Orders \cup {NoOrder}, Purchase(w, s, o) PROVE SubStep
    BY <1>1 DEF Purchase, SubStep
  <1>2. ASSUME NEW s \in Subs, Complete(w, s) \/ Commit(w, s) PROVE SubStep
    BY <1>1, <1>2, CompleteSells, CommitSells
  <1>3. CASE sub' = sub
    BY <1>3 DEF SubStep
  <1> QED BY <1>2, <1>3, ActsOnSubs

\* The job and the clock mark what has lapsed.
LEMMA RestSubStep ==
    ASSUME IInv, Rest
    PROVE  sub' = sub \/ \E s \in Subs : Marked(s)
  <1>1. ASSUME NEW s \in Subs, Lapse(s) PROVE Marked(s)
    BY <1>1 DEF Lapse, Marked
  <1>2. ASSUME NEW s \in Subs, Expire(s) PROVE Marked(s)
    BY <1>2 DEF Expire, Marked, IInv, JobOK
  <1>3. CASE \E o \in Orders : AnnounceRefusal(o) \/ AnnouncePayment(o)
    BY <1>3 DEF AnnounceRefusal, AnnouncePayment
  <1>4. CASE Tick \/ Downgrade \/ Crash \/ \E s \in Subs : JobStumbles(s)
    BY <1>4 DEF Tick, Downgrade, Crash, JobStumbles
  <1> QED BY <1>1, <1>2, <1>3, <1>4 DEF Rest, JobStep

LEMMA RestPayStep ==
    ASSUME IInv, Rest
    PROVE  pay' = pay /\ HeardStep
  <1>1. CASE \E o \in Orders : AnnounceRefusal(o) \/ AnnouncePayment(o)
    BY <1>1 DEF AnnounceRefusal, AnnouncePayment, HeardStep
  <1>2. CASE Tick \/ JobStep \/ Crash \/ \E s \in Subs : Lapse(s) \/ JobStumbles(s)
    BY <1>2 DEF Tick, JobStep, Downgrade, Expire, Crash, Lapse, JobStumbles, HeardStep
  <1> QED BY <1>1, <1>2 DEF Rest

\* A subscription keeps its user and its order, and does not come back.
LEMMA SubIsKept ==
    ASSUME IInv, SubStep, NEW s \in Subs, sub[s].status # "none"
    PROVE  /\ sub'[s].status # "none"
           /\ sub'[s].user = sub[s].user /\ sub'[s].order = sub[s].order
           /\ sub[s].lapsed => sub'[s].lapsed
           /\ sub[s].status # "active" => sub'[s].status # "active"
  <1>1. sub \in [Subs -> SubRows]
    BY DEF IInv, Typed
  <1>2. ASSUME NEW t \in Subs, Marked(t)
        PROVE  /\ sub'[s].status # "none"
               /\ sub'[s].user = sub[s].user /\ sub'[s].order = sub[s].order
               /\ sub[s].lapsed => sub'[s].lapsed
               /\ sub[s].status # "active" => sub'[s].status # "active"
    BY <1>1, <1>2 DEF Marked, SubRows
  <1>3. ASSUME NEW old \in Subs \cup {NoSub}, NEW t \in Subs, NEW u \in Users,
               NEW o \in Orders \cup {NoOrder}, Sold(old, t, u, o)
        PROVE  /\ sub'[s].status # "none"
               /\ sub'[s].user = sub[s].user /\ sub'[s].order = sub[s].order
               /\ sub[s].lapsed => sub'[s].lapsed
               /\ sub[s].status # "active" => sub'[s].status # "active"
    <2>1. s # t
      BY <1>3 DEF Sold, NotYet
    <2>2. sub'[s] = IF s = old THEN [sub[s] EXCEPT !.status = "cancelled"] ELSE sub[s]
      BY <1>3, <2>1 DEF Sold, Subscribed
    <2> QED BY <1>1, <2>2 DEF SubRows
  <1> QED BY <1>2, <1>3 DEF SubStep

-----------------------------------------------------------------------------
(* The parts of the invariant *)

LEMMA NewSubTyped ==
    ASSUME NEW u \in Users, NEW p \in Packages, NEW o \in Orders \cup {NoOrder}
    PROVE  /\ NewSub(u, p, o) \in SubRows
           /\ NewSub(u, p, o).status = "active" /\ ~NewSub(u, p, o).lapsed
           /\ NewSub(u, p, o).user = u /\ NewSub(u, p, o).order = o
  BY DEF NewSub, SubRows

LEMMA SubTyped ==
    ASSUME IInv, SubStep
    PROVE  sub' \in [Subs -> SubRows] /\ \A s \in Subs : SubOK(s)'
  <1>0. sub \in [Subs -> SubRows] /\ \A s \in Subs : SubOK(s)
    BY DEF IInv, Typed
  <1>1. ASSUME NEW t \in Subs, Marked(t)
        PROVE  sub' \in [Subs -> SubRows] /\ \A s \in Subs : SubOK(s)'
    <2>1. \/ sub' = [sub EXCEPT ![t] = [sub[t] EXCEPT !.lapsed = TRUE]]
          \/ sub' = [sub EXCEPT ![t] = [sub[t] EXCEPT !.status = "expired"]]
      BY <1>0, <1>1 DEF Marked
    <2>2. [sub[t] EXCEPT !.lapsed = TRUE] \in SubRows /\ [sub[t] EXCEPT !.status = "expired"] \in SubRows
      BY <1>0 DEF SubRows
    <2>3. sub' \in [Subs -> SubRows]
      BY <1>0, <2>1, <2>2
    <2>4. ASSUME NEW s \in Subs PROVE SubOK(s)'
      <3>1. CASE s # t
        BY <1>0, <2>1, <3>1 DEF SubOK
      <3>2. CASE s = t
        <4>1. sub'[s].status # "none" /\ sub'[s].user = sub[s].user /\ sub[s].status # "none"
          BY <1>0, <1>1, <3>2, SubIsKept DEF SubStep, Marked
        <4> QED BY <1>0, <4>1 DEF SubOK, NotYet
      <3> QED BY <3>1, <3>2
    <2> QED BY <2>3, <2>4
  <1>2. ASSUME NEW old \in Subs \cup {NoSub}, NEW t \in Subs, NEW u \in Users,
               NEW o \in Orders \cup {NoOrder}, Sold(old, t, u, o)
        PROVE  sub' \in [Subs -> SubRows] /\ \A s \in Subs : SubOK(s)'
    <2> PICK p \in Packages : sub' = Subscribed(old, t, NewSub(u, p, o))
      BY <1>2 DEF Sold
    <2>1. \A s \in Subs : [sub[s] EXCEPT !.status = "cancelled"] \in SubRows
      BY <1>0 DEF SubRows
    <2> DEFINE n == NewSub(u, p, o)
    <2>2. n \in SubRows /\ n.status = "active" /\ n.user = u
      BY NewSubTyped
    <2> HIDE DEF n
    <2>3. \A s \in Subs : sub'[s] = IF s = t THEN n
                                    ELSE IF s = old THEN [sub[s] EXCEPT !.status = "cancelled"] ELSE sub[s]
      BY DEF Subscribed, n
    <2>4. sub' = [s \in Subs |-> sub'[s]]
      BY DEF Subscribed
    <2>5. sub' \in [Subs -> SubRows]
      BY <1>0, <2>1, <2>2, <2>3, <2>4
    <2>6. ASSUME NEW s \in Subs PROVE SubOK(s)'
      <3>1. CASE s = t
        <4>1. sub'[s] = n
          BY <2>3, <3>1
        <4>2. n # NotYet
          BY <2>2 DEF NotYet
        <4> QED BY <2>2, <4>1, <4>2 DEF SubOK
      <3>2. CASE s # t /\ s # old
        BY <1>0, <2>3, <3>2 DEF SubOK
      <3>3. CASE s # t /\ s = old
        <4>1. sub[s].status # "none" /\ sub[s].user = u
          BY <1>2, <3>3, SalesAssumption DEF Sold
        <4>2. sub'[s].status = "cancelled" /\ sub'[s].user = u
          BY <1>0, <2>3, <3>3, <4>1 DEF SubRows
        <4> QED BY <4>2 DEF SubOK, NotYet
      <3> QED BY <3>1, <3>2, <3>3
    <2> QED BY <2>5, <2>6
  <1>3. CASE sub' = sub
    BY <1>0, <1>3 DEF SubOK
  <1> QED BY <1>1, <1>2, <1>3 DEF SubStep

LEMMA HeardTyped ==
    ASSUME IInv, HeardStep
    PROVE  heard' \in [Orders -> SUBSET {"paid", "refused"}]
  <1>1. heard \in [Orders -> SUBSET {"paid", "refused"}]
    BY DEF IInv, Typed
  <1> QED BY <1>1 DEF HeardStep

\* Every request step moves one hand, to a hand.
LEMMA ActsByHand ==
    ASSUME IInv, NEW w \in Workers, Acts(w)
    PROVE  Handed(w)
  <1>0. hand \in [Workers -> Hands] /\ hand[w] \in Hands /\ pay \in [Orders -> Pays]
    BY DEF IInv, Typed
  <1>1. ASSUME hand' = [hand EXCEPT ![w] = Idle] PROVE Handed(w)
    BY <1>1, Literals DEF Handed
  <1>2. ASSUME NEW t \in Steps, NEW o \in Orders \cup {NoOrder}, NEW u \in Users \cup {NoUser},
               NEW p \in Packages \cup {NoPackage}, NEW a \in Subs \cup {NoSub}
        PROVE  [at |-> t, user |-> u, package |-> p, order |-> o, active |-> a] \in Hands
    BY DEF Hands
  <1>3. ASSUME NEW o \in Orders, PlaceMoMo(w, o) PROVE Handed(w)
    <2>1. hand' = [hand EXCEPT ![w] = [hand[w] EXCEPT !.at = "request", !.order = o]]
      BY <1>0, <1>3 DEF PlaceMoMo
    <2>2. [hand[w] EXCEPT !.at = "request", !.order = o] \in Hands
      BY <1>0 DEF Hands, Steps
    <2> QED BY <2>1, <2>2 DEF Handed
  <1>4. CASE Look(w)
    <2> PICK a \in ActiveOf(hand[w].user) : hand' = [hand EXCEPT ![w].at = "complete", ![w].active = a]
      BY <1>4 DEF Look
    <2>1. hand' = [hand EXCEPT ![w] = [hand[w] EXCEPT !.at = "complete", !.active = a]]
      BY <1>0
    <2>2. a \in Subs \cup {NoSub}
      BY DEF ActiveOf, Running
    <2>3. [hand[w] EXCEPT !.at = "complete", !.active = a] \in Hands
      BY <1>0, <2>2 DEF Hands, Steps
    <2> QED BY <2>1, <2>3 DEF Handed
  <1>5. ASSUME CompleteLate(w) \/ \E s \in Subs : Complete(w, s) PROVE Handed(w)
    <2>1. hand' = [hand EXCEPT ![w] = [hand[w] EXCEPT !.at = "answer", !.active = NoSub]]
      BY <1>0, <1>5 DEF CompleteLate, Complete
    <2>2. [hand[w] EXCEPT !.at = "answer", !.active = NoSub] \in Hands
      BY <1>0 DEF Hands, Steps
    <2> QED BY <2>1, <2>2 DEF Handed
  <1>6. ASSUME NEW u \in Users, NEW p \in Packages, CreatePayment(w, u, p) PROVE Handed(w)
    <2>1. hand' = [hand EXCEPT ![w] = [Idle EXCEPT !.at = "create", !.user = u, !.package = p]]
      BY <1>6 DEF CreatePayment
    <2>2. [Idle EXCEPT !.at = "create", !.user = u, !.package = p] \in Hands
      BY DEF Idle, Hands, Steps
    <2> QED BY <2>1, <2>2 DEF Handed
  <1>7. ASSUME NEW u \in Users, NEW p \in Packages, Subscribe(w, u, p) PROVE Handed(w)
    <2> PICK a \in ActiveOf(u) :
           hand' = [hand EXCEPT ![w] = [at |-> "subscribe", user |-> u, package |-> p,
                                        order |-> NoOrder, active |-> a]]
      BY <1>7 DEF Subscribe
    <2>1. a \in Subs \cup {NoSub} /\ "subscribe" \in Steps
      BY DEF ActiveOf, Running, Steps
    <2> QED BY <1>2, <2>1 DEF Handed
  <1>8. ASSUME NEW o \in Orders, ReceivePayment(w, o) \/ ReceiveRefusal(w, o) PROVE Handed(w)
    <2> PICK t \in {"answer", "look", "refuse"} : Acknowledging(w, o, t)
      BY <1>8 DEF ReceivePayment, ReceiveRefusal
    <2>1. hand' = [hand EXCEPT ![w] = [Idle EXCEPT !.at = t, !.order = o, !.user = pay[o].user,
                                                   !.package = pay[o].package]]
      BY DEF Acknowledging
    <2>2. pay[o].user \in Users \cup {NoUser} /\ pay[o].package \in Packages \cup {NoPackage} /\ t \in Steps
      BY <1>0 DEF Pays, Steps
    <2>3. [Idle EXCEPT !.at = t, !.order = o, !.user = pay[o].user, !.package = pay[o].package] \in Hands
      BY <2>2 DEF Idle, Hands
    <2> QED BY <2>1, <2>3 DEF Handed
  <1>9. CASE \/ RequestSucceeds(w) \/ RequestFails(w) \/ Refuse(w) \/ Answer(w) \/ Stumble(w)
             \/ \E o \in Orders : PlaceVNPay(w, o)
             \/ \E s \in Subs : Commit(w, s)
    BY <1>1, <1>9 DEF RequestSucceeds, RequestFails, Refuse, Answer, Stumble, PlaceVNPay, Commit
  <1> QED BY <1>3, <1>4, <1>5, <1>6, <1>7, <1>8, <1>9 DEF Acts, Proceed

LEMMA OtherTypes ==
    ASSUME IInv, NEW w \in Workers, Acts(w)
    PROVE  /\ acked' \subseteq Orders
           /\ role' \in [Users -> {"USER", "PARTNER"}]
           /\ trouble' \in 0 .. MaxTrouble
  <1>0. /\ acked \subseteq Orders
        /\ role \in [Users -> {"USER", "PARTNER"}]
        /\ trouble \in 0 .. MaxTrouble
        /\ HandOK(w)
    BY DEF IInv, Typed
  <1>1. CASE Answer(w)
    BY <1>0, <1>1 DEF Answer, HandOK
  <1>2. CASE Stumble(w)
    BY <1>0, <1>2, SalesAssumption DEF Stumble
  <1>3. ASSUME NEW s \in Subs, Complete(w, s) \/ Commit(w, s)
        PROVE  role' \in [Users -> {"USER", "PARTNER"}] /\ UNCHANGED <<acked, trouble>>
    BY <1>0, <1>3 DEF Complete, Commit
  <1>4. CASE RequestSucceeds(w) \/ RequestFails(w) \/ Refuse(w) \/ Look(w) \/ CompleteLate(w)
    BY <1>0, <1>4 DEF RequestSucceeds, RequestFails, Refuse, Look, CompleteLate
  <1>5. CASE \E o \in Orders : PlaceVNPay(w, o) \/ PlaceMoMo(w, o) \/ ReceivePayment(w, o) \/ ReceiveRefusal(w, o)
    BY <1>0, <1>5 DEF PlaceVNPay, PlaceMoMo, ReceivePayment, ReceiveRefusal
  <1>6. CASE \E u \in Users, p \in Packages : CreatePayment(w, u, p) \/ Subscribe(w, u, p)
    BY <1>0, <1>6 DEF CreatePayment, Subscribe
  <1> QED BY <1>0, <1>1, <1>2, <1>3, <1>4, <1>5, <1>6 DEF Acts, Proceed

LEMMA IdleIsOK ==
    ASSUME NEW w \in Workers, hand'[w] = Idle
    PROVE  HandOK(w)'
  BY DEF HandOK, Idle

\* An order that waits for its URL is nobody else's: it has not been announced.
LEMMA WaitingIsAlone ==
    ASSUME IInv, NEW w \in Workers, Acts(w), NEW x \in Workers, x # w, hand[x].at = "request"
    PROVE  /\ pay'[hand[x].order] = pay[hand[x].order]
           /\ ~ (hand'[w].at = "request" /\ hand'[w].order = hand[x].order)
  <1> DEFINE o == hand[x].order
  <1>0. /\ hand \in [Workers -> Hands] /\ pay \in [Orders -> Pays]
        /\ HandOK(x) /\ HandOK(w)
    BY DEF IInv, Typed
  <1>1. /\ o \in Orders /\ pay[o].status = "pending" /\ ~pay[o].url /\ heard[o] = {}
        /\ hand[w].at = "request" => hand[w].order # o
    <2>1. o \in Orders /\ pay[o].status = "pending" /\ ~pay[o].url
      BY <1>0 DEF HandOK
    <2>2. hand[w].at = "request" => hand[w].order # o
      BY <1>0 DEF HandOK
    <2>3. heard[o] = {}
      BY <2>1 DEF IInv, PayOK
    <2> QED BY <2>1, <2>2, <2>3
  <1> HIDE DEF o
  <1> DEFINE Goal == /\ pay'[o] = pay[o]
                     /\ ~ (hand'[w].at = "request" /\ hand'[w].order = o)
  <1>2. ASSUME NEW q \in Orders, PlaceVNPay(w, q) \/ PlaceMoMo(w, q) PROVE Goal
    <2>0. pay[q] = NoPay
      BY <1>2 DEF PlaceVNPay, PlaceMoMo
    <2>1. q # o
      BY <1>1, <2>0 DEF NoPay
    <2>2. pay'[o] = pay[o]
      BY <1>0, <1>1, <1>2, <2>1 DEF PlaceVNPay, PlaceMoMo
    <2>3. hand'[w].at = "request" => hand'[w].order = q
      <3>1. CASE PlaceVNPay(w, q)
        BY <1>0, <3>1 DEF PlaceVNPay, Idle
      <3>2. CASE PlaceMoMo(w, q)
        BY <1>0, <3>2 DEF PlaceMoMo, Hands
      <3> QED BY <1>2, <3>1, <3>2
    <2> QED BY <2>1, <2>2, <2>3
  <1>3. ASSUME RequestSucceeds(w) \/ RequestFails(w) PROVE Goal
    <2>1. hand[w].at = "request" /\ hand[w].order \in Orders /\ hand[w].order # o
      BY <1>0, <1>1, <1>3 DEF RequestSucceeds, RequestFails, HandOK
    <2>2. pay'[o] = pay[o]
      BY <1>0, <1>1, <1>3, <2>1 DEF RequestSucceeds, RequestFails, Failed
    <2>3. hand'[w].at # "request"
      BY <1>0, <1>3 DEF RequestSucceeds, RequestFails, Idle
    <2> QED BY <2>2, <2>3
  <1>4. ASSUME Refuse(w) PROVE Goal
    <2>1. hand[w].order # o /\ hand[w].order \in Orders
      BY <1>0, <1>1, <1>4 DEF Refuse, HandOK
    <2>2. pay'[o] = pay[o]
      BY <1>0, <1>1, <1>4, <2>1 DEF Refuse, Failed
    <2>3. hand'[w].at # "request"
      BY <1>0, <1>4 DEF Refuse, Idle
    <2> QED BY <2>2, <2>3
  <1>5. ASSUME NEW s \in Subs, Complete(w, s) PROVE Goal
    <2>1. hand[w].order # o /\ hand[w].order \in Orders
      BY <1>0, <1>1, <1>5 DEF Complete, HandOK
    <2>2. pay'[o] = pay[o]
      BY <1>0, <1>1, <1>5, <2>1 DEF Complete
    <2>3. hand'[w].at # "request"
      BY <1>0, <1>5 DEF Complete, Hands
    <2> QED BY <2>2, <2>3
  <1>6. ASSUME pay' = pay, hand'[w].at # "request" PROVE Goal
    BY <1>6
  <1>7. ASSUME Look(w) \/ CompleteLate(w) PROVE pay' = pay /\ hand'[w].at # "request"
    BY <1>0, <1>7 DEF Look, CompleteLate, Hands
  <1>8. ASSUME Answer(w) \/ Stumble(w) \/ \E s \in Subs : Commit(w, s)
        PROVE  pay' = pay /\ hand'[w].at # "request"
    BY <1>0, <1>8 DEF Answer, Stumble, Commit, Idle
  <1>9. ASSUME NEW u \in Users, NEW p \in Packages, CreatePayment(w, u, p) \/ Subscribe(w, u, p)
        PROVE  pay' = pay /\ hand'[w].at # "request"
    <2>1. CASE CreatePayment(w, u, p)
      BY <1>0, <2>1 DEF CreatePayment, Idle
    <2>2. CASE Subscribe(w, u, p)
      BY <1>0, <2>2 DEF Subscribe
    <2> QED BY <1>9, <2>1, <2>2
  <1>10. ASSUME NEW q \in Orders, ReceivePayment(w, q) \/ ReceiveRefusal(w, q)
         PROVE  pay' = pay /\ hand'[w].at # "request"
    <2>1. PICK t \in {"answer", "look", "refuse"} : Acknowledging(w, q, t)
      BY <1>10 DEF ReceivePayment, ReceiveRefusal
    <2>2. hand'[w].at = t
      BY <1>0, <2>1 DEF Acknowledging, Idle
    <2> QED BY <1>10, <2>1, <2>2 DEF ReceivePayment, ReceiveRefusal
  <1> HIDE DEF Goal
  <1>11. Goal
    <2>1. CASE Proceed(w)
      BY <1>2, <1>3, <1>4, <1>5, <1>6, <1>7, <1>8, <2>1 DEF Proceed
    <2> QED BY <2>1, <1>6, <1>8, <1>9, <1>10 DEF Acts
  <1> QED BY <1>11 DEF Goal, o

\* What the tables keep is all that a hand at rest relies on, unless it waits for a URL.
LEMMA RestingHand ==
    ASSUME IInv, PayStep, HeardStep, SubStep, NEW x \in Workers, hand'[x] = hand[x],
           hand[x].at # "request"
    PROVE  HandOK(x)'
  <1>0. HandOK(x) /\ hand[x] \in Hands
    BY DEF IInv, Typed
  <1> DEFINE o == hand[x].order
  <1>1. ASSUME hand[x].at \in {"refuse", "look", "complete"}
        PROVE  /\ heard[o] \subseteq heard'[o]
               /\ pay'[o].user = pay[o].user /\ pay'[o].package = pay[o].package
    <2>1. o \in Orders /\ heard[o] # {}
      BY <1>0, <1>1 DEF HandOK
    <2>2. pay[o].status # "none"
      BY <2>1 DEF IInv, PayOK, NoPay
    <2> QED BY <2>1, <2>2, PayIsKept, HeardIsKept
  <1>2. ASSUME hand[x].at = "answer" PROVE Settled(o)'
    <2>1. o \in Orders /\ Settled(o)
      BY <1>0, <1>2 DEF HandOK
    <2>2. \A q \in Orders : Settled(q) => Settled(q)'
      BY SettledStays
    <2>3. Settled(hand[x].order)'
      BY <2>1, <2>2 DEF Settled
    <2> QED BY <2>3
  <1>3. ASSUME hand[x].at \in {"complete", "subscribe"}, hand[x].active # NoSub
        PROVE  sub'[hand[x].active].status # "none" /\ sub'[hand[x].active].user = hand[x].user
    <2>1. hand[x].active \in Subs /\ sub[hand[x].active].status # "none" /\ sub[hand[x].active].user = hand[x].user
      BY <1>0, <1>3 DEF HandOK, Hands
    <2> QED BY <2>1, SubIsKept
  <1> QED BY <1>0, <1>1, <1>2, <1>3 DEF HandOK, Settled

LEMMA OtherHands ==
    ASSUME IInv, NEW w \in Workers, Acts(w), NEW x \in Workers, x # w
    PROVE  HandOK(x)'
  <1>0. hand \in [Workers -> Hands] /\ HandOK(x)
    BY DEF IInv, Typed
  <1>1. /\ \A y \in Workers \ {w} : hand'[y] = hand[y]
        /\ PayStep /\ HeardStep /\ SubStep
    BY <1>0, ActsByHand, ActsOnPays, ActsFrame, ActsSubStep DEF Handed, HeardStep
  <1>2. CASE hand[x].at # "request"
    BY <1>1, <1>2, RestingHand
  <1>3. CASE hand[x].at = "request"
    <2>1. hand'[x] = hand[x]
      BY <1>1
    <2>2. \A y \in Workers : hand'[y].at = "request" /\ hand'[y].order = hand[x].order => y = x
      BY <1>0, <1>1, <1>3, WaitingIsAlone DEF HandOK
    <2>3. pay'[hand[x].order] = pay[hand[x].order]
      BY <1>3, WaitingIsAlone
    <2> QED BY <1>0, <1>3, <2>1, <2>2, <2>3 DEF HandOK
  <1> QED BY <1>2, <1>3

\* A payment announced, and no longer pending, is settled.
LEMMA AnnouncedIsSettled ==
    ASSUME IInv, NEW o \in Orders, "paid" \in heard[o], pay[o].status # "pending"
    PROVE  Settled(o)
  BY DEF IInv, Typed, Pays, PayOK, NoPay, Settled

LEMMA OwnHand ==
    ASSUME IInv, NEW w \in Workers, Acts(w)
    PROVE  HandOK(w)'
  <1>0. /\ hand \in [Workers -> Hands] /\ pay \in [Orders -> Pays] /\ HandOK(w)
    BY DEF IInv, Typed
  <1>1. ASSUME hand' = [hand EXCEPT ![w] = Idle] PROVE HandOK(w)'
    BY <1>0, <1>1, IdleIsOK
  <1>2. CASE \/ RequestSucceeds(w) \/ RequestFails(w) \/ Refuse(w) \/ Answer(w) \/ Stumble(w)
             \/ \E o \in Orders : PlaceVNPay(w, o)
             \/ \E s \in Subs : Commit(w, s)
    BY <1>1, <1>2 DEF RequestSucceeds, RequestFails, Refuse, Answer, Stumble, PlaceVNPay, Commit
  <1>3. ASSUME NEW o \in Orders, PlaceMoMo(w, o) PROVE HandOK(w)'
    <2>1. hand'[w].at = "request" /\ hand'[w].order = o /\ hand'[w].user = hand[w].user
      BY <1>0, <1>3 DEF PlaceMoMo, Hands
    <2>2. hand[w].user \in Users
      BY <1>0, <1>3 DEF PlaceMoMo, HandOK
    <2>3. pay'[o].status = "pending" /\ ~pay'[o].url
      BY <1>0, <1>3 DEF PlaceMoMo, Placed
    <2>4. \A x \in Workers : hand'[x].at = "request" /\ hand'[x].order = o => x = w
      <3> SUFFICES ASSUME NEW x \in Workers, hand'[x].at = "request", hand'[x].order = o, x # w
                   PROVE  FALSE
        OBVIOUS
      <3>1. hand'[x] = hand[x]
        BY <1>0, <1>3 DEF PlaceMoMo
      <3>2. pay[o].status = "pending"
        BY <3>1 DEF IInv, HandOK
      <3>3. pay[o] = NoPay
        BY <1>3 DEF PlaceMoMo
      <3> QED BY <3>2, <3>3 DEF NoPay
    <2> QED BY <2>1, <2>2, <2>3, <2>4 DEF HandOK
  <1>4. CASE Look(w)
    <2> PICK a \in ActiveOf(hand[w].user) : hand' = [hand EXCEPT ![w].at = "complete", ![w].active = a]
      BY <1>4 DEF Look
    <2>1. /\ hand'[w].at = "complete" /\ hand'[w].active = a /\ hand'[w].order = hand[w].order
          /\ hand'[w].user = hand[w].user /\ hand'[w].package = hand[w].package
      BY <1>0 DEF Hands
    <2>2. hand[w].at = "look" /\ UNCHANGED <<pay, heard, sub>>
      BY <1>4 DEF Look
    <2>3. a # NoSub => sub[a].status # "none" /\ sub[a].user = hand[w].user
      BY DEF ActiveOf, Running
    <2> QED BY <1>0, <2>1, <2>2, <2>3 DEF HandOK
  <1>5. CASE CompleteLate(w)
    <2>1. /\ hand'[w].at = "answer" /\ hand'[w].order = hand[w].order
          /\ UNCHANGED <<pay, heard>>
      BY <1>0, <1>5 DEF CompleteLate, Hands
    <2>2. hand[w].order \in Orders /\ Settled(hand[w].order)
      BY <1>0, <1>5, AnnouncedIsSettled DEF CompleteLate, HandOK
    <2> QED BY <2>1, <2>2 DEF HandOK, Settled
  <1>6. ASSUME NEW s \in Subs, Complete(w, s) PROVE HandOK(w)'
    <2>1. hand'[w].at = "answer" /\ hand'[w].order = hand[w].order
      BY <1>0, <1>6 DEF Complete, Hands
    <2>2. hand[w].order \in Orders /\ pay'[hand[w].order].status = "success"
      BY <1>0, <1>6 DEF Complete, HandOK, Pays
    <2> QED BY <2>1, <2>2 DEF HandOK, Settled
  <1>7. ASSUME NEW u \in Users, NEW p \in Packages, CreatePayment(w, u, p) PROVE HandOK(w)'
    <2>1. hand'[w].at = "create" /\ hand'[w].user = u /\ hand'[w].package = p
      BY <1>0, <1>7 DEF CreatePayment, Idle
    <2> QED BY <2>1 DEF HandOK
  <1>8. ASSUME NEW u \in Users, NEW p \in Packages, Subscribe(w, u, p) PROVE HandOK(w)'
    <2> PICK a \in ActiveOf(u) :
           hand' = [hand EXCEPT ![w] = [at |-> "subscribe", user |-> u, package |-> p,
                                        order |-> NoOrder, active |-> a]]
      BY <1>8 DEF Subscribe
    <2>1. hand'[w].at = "subscribe" /\ hand'[w].user = u /\ hand'[w].package = p /\ hand'[w].active = a
      BY <1>0
    <2>2. a # NoSub => sub'[a].status # "none" /\ sub'[a].user = u
      BY <1>8 DEF ActiveOf, Running, Subscribe
    <2> QED BY <2>1, <2>2 DEF HandOK
  <1>9. ASSUME NEW o \in Orders, NEW t, Acknowledging(w, o, t)
        PROVE  /\ hand'[w].at = t /\ hand'[w].order = o
               /\ hand'[w].user = pay[o].user /\ hand'[w].package = pay[o].package
    BY <1>0, <1>9 DEF Acknowledging, Idle
  <1>10. ASSUME NEW o \in Orders, ReceivePayment(w, o) PROVE HandOK(w)'
    <2>1. "paid" \in heard'[o] /\ pay' = pay
      BY <1>10 DEF ReceivePayment
    <2>2. CASE pay[o].status = "success"
      <3>1. hand'[w].at = "answer" /\ hand'[w].order = o
        BY <1>9, <1>10, <2>2 DEF ReceivePayment
      <3> QED BY <2>1, <2>2, <3>1 DEF HandOK, Settled
    <2>3. CASE pay[o].status # "success"
      <3>1. /\ hand'[w].at = "look" /\ hand'[w].order = o
            /\ hand'[w].user = pay[o].user /\ hand'[w].package = pay[o].package
        BY <1>9, <1>10, <2>3 DEF ReceivePayment
      <3> QED BY <2>1, <3>1 DEF HandOK
    <2> QED BY <2>2, <2>3
  <1>11. ASSUME NEW o \in Orders, ReceiveRefusal(w, o) PROVE HandOK(w)'
    <2>1. /\ hand'[w].at = "refuse" /\ hand'[w].order = o
          /\ hand'[w].user = pay[o].user /\ hand'[w].package = pay[o].package
      BY <1>9, <1>11 DEF ReceiveRefusal
    <2>2. "refused" \in heard'[o] /\ pay' = pay
      BY <1>11 DEF ReceiveRefusal
    <2> QED BY <2>1, <2>2 DEF HandOK
  <1> QED BY <1>2, <1>3, <1>4, <1>5, <1>6, <1>7, <1>8, <1>10, <1>11 DEF Acts, Proceed

\* The orders of the subscriptions change by a completed payment only.
LEMMA OrdersOfSubs ==
    ASSUME IInv,
           \/ sub' = sub
           \/ \E s \in Subs : Marked(s)
           \/ \E old \in Subs \cup {NoSub}, s \in Subs, u \in Users : Sold(old, s, u, NoOrder)
    PROVE  \A s \in Subs : sub'[s].order = sub[s].order
  <1>0. sub \in [Subs -> SubRows]
    BY DEF IInv, Typed
  <1>1. CASE sub' = sub
    BY <1>1
  <1>2. ASSUME NEW t \in Subs, Marked(t)
        PROVE  \A s \in Subs : sub'[s].order = sub[s].order
    BY <1>0, <1>2 DEF Marked, SubRows
  <1>3. ASSUME NEW old \in Subs \cup {NoSub}, NEW t \in Subs, NEW u \in Users, Sold(old, t, u, NoOrder)
        PROVE  \A s \in Subs : sub'[s].order = sub[s].order
    <2> PICK p \in Packages : sub' = Subscribed(old, t, NewSub(u, p, NoOrder))
      BY <1>3 DEF Sold
    <2>1. \A s \in Subs : s # t => sub'[s].order = sub[s].order
      BY <1>0 DEF Subscribed, SubRows
    <2>2. sub'[t].order = NoOrder
      BY DEF Subscribed, NewSub
    <2>3. sub[t].order = NoOrder
      BY <1>3 DEF Sold, NotYet
    <2> QED BY <2>1, <2>2, <2>3
  <1> QED BY <1>1, <1>2, <1>3

\* A payment becomes a success only in the transaction that gives its subscription.
LEMMA OnlyCompleteHonours ==
    ASSUME IInv, NEW w \in Workers, Acts(w), \A s \in Subs : ~Complete(w, s)
    PROVE  \A o \in Orders : pay'[o].status = "success" <=> pay[o].status = "success"
  <1>0. pay \in [Orders -> Pays] /\ HandOK(w)
    BY DEF IInv, Typed
  <1>1. CASE pay' = pay
    BY <1>1
  <1>2. ASSUME NEW o \in Orders, NEW url \in BOOLEAN, pay[o] = NoPay, pay' = [pay EXCEPT ![o] = Placed(w, url)]
        PROVE  \A q \in Orders : pay'[q].status = "success" <=> pay[q].status = "success"
    BY <1>0, <1>2 DEF Placed, NoPay
  <1>3. ASSUME NEW o \in Orders, PlaceVNPay(w, o) \/ PlaceMoMo(w, o)
        PROVE  \A q \in Orders : pay'[q].status = "success" <=> pay[q].status = "success"
    <2>1. PICK url \in BOOLEAN : pay[o] = NoPay /\ pay' = [pay EXCEPT ![o] = Placed(w, url)]
      BY <1>3 DEF PlaceVNPay, PlaceMoMo
    <2> QED BY <1>2, <2>1
  <1>4. CASE RequestSucceeds(w)
    BY <1>0, <1>4 DEF RequestSucceeds, HandOK, Pays
  <1>5. CASE RequestFails(w) \/ Refuse(w)
    <2>1. hand[w].order \in Orders /\ pay' = Failed(hand[w].order)
      BY <1>0, <1>5 DEF RequestFails, Refuse, HandOK
    <2> QED BY <1>0, <2>1 DEF Failed, Pays
  <1>6. CASE Look(w) \/ CompleteLate(w) \/ Answer(w) \/ Stumble(w) \/ \E s \in Subs : Commit(w, s)
    BY <1>1, <1>6 DEF Look, CompleteLate, Answer, Stumble, Commit
  <1>7. CASE \E u \in Users, p \in Packages : CreatePayment(w, u, p) \/ Subscribe(w, u, p)
    BY <1>1, <1>7 DEF CreatePayment, Subscribe
  <1>8. CASE \E o \in Orders : ReceivePayment(w, o) \/ ReceiveRefusal(w, o)
    BY <1>1, <1>8 DEF ReceivePayment, ReceiveRefusal
  <1> QED BY <1>3, <1>4, <1>5, <1>6, <1>7, <1>8 DEF Acts, Proceed

\* The transaction gives the order its first subscription.
LEMMA CompleteGives ==
    ASSUME IInv, NEW w \in Workers, NEW t \in Subs, Complete(w, t)
    PROVE  /\ hand[w].order \in Orders /\ pay[hand[w].order].status = "pending"
           /\ "paid" \in heard[hand[w].order] /\ heard' = heard
           /\ sub[t] = NotYet
           /\ pay' = [pay EXCEPT ![hand[w].order].status = "success"]
           /\ \A s \in Subs : sub'[s].order = IF s = t THEN hand[w].order ELSE sub[s].order
  <1>0. sub \in [Subs -> SubRows] /\ HandOK(w)
    BY DEF IInv, Typed
  <1>1. /\ hand[w].order \in Orders /\ pay[hand[w].order].status = "pending"
        /\ "paid" \in heard[hand[w].order] /\ heard' = heard
        /\ sub[t] = NotYet
        /\ pay' = [pay EXCEPT ![hand[w].order].status = "success"]
    BY <1>0 DEF Complete, HandOK
  <1>2. sub' = Subscribed(hand[w].active, t, NewSub(hand[w].user, hand[w].package, hand[w].order))
    BY DEF Complete
  <1>3. \A s \in Subs : s # t => sub'[s].order = sub[s].order
    BY <1>0, <1>2 DEF Subscribed, SubRows
  <1>4. sub'[t].order = hand[w].order
    BY <1>2 DEF Subscribed, NewSub
  <1> QED BY <1>1, <1>3, <1>4

LEMMA PaidOnceKept ==
    ASSUME IInv,
           \A s \in Subs : sub'[s].order = sub[s].order,
           \A o \in Orders : pay'[o].status = "success" <=> pay[o].status = "success"
    PROVE  PaidOnce'
  <1> SUFFICES ASSUME NEW o \in Orders
               PROVE  /\ {s \in Subs : sub'[s].order = o} # {} <=> pay'[o].status = "success"
                      /\ \A s, t \in {x \in Subs : sub'[x].order = o} : s = t
    BY DEF PaidOnce
  <1>1. {s \in Subs : sub'[s].order = o} = {s \in Subs : sub[s].order = o}
    OBVIOUS
  <1>2. /\ {s \in Subs : sub[s].order = o} # {} <=> pay[o].status = "success"
        /\ \A s, t \in {x \in Subs : sub[x].order = o} : s = t
    BY DEF IInv, PaidOnce
  <1> QED BY <1>1, <1>2

LEMMA PaidOnceStep ==
    ASSUME IInv, NEW w \in Workers, Acts(w)
    PROVE  PaidOnce'
  <1>1. CASE \A s \in Subs : ~Complete(w, s)
    <2>1. \A o \in Orders : pay'[o].status = "success" <=> pay[o].status = "success"
      BY <1>1, OnlyCompleteHonours
    <2>2. ASSUME NEW s \in Subs, Commit(w, s)
          PROVE  \E old \in Subs \cup {NoSub}, t \in Subs, u \in Users : Sold(old, t, u, NoOrder)
      BY <2>2, CommitSells DEF Purchase
    <2>3. \A s \in Subs : sub'[s].order = sub[s].order
      BY <1>1, <2>2, ActsOnSubs, OrdersOfSubs
    <2> QED BY <2>1, <2>3, PaidOnceKept
  <1>2. ASSUME NEW t \in Subs, Complete(w, t), NEW o \in Orders
        PROVE  /\ {s \in Subs : sub'[s].order = o} # {} <=> pay'[o].status = "success"
               /\ \A s, x \in {y \in Subs : sub'[y].order = o} : s = x
    <2>0. pay \in [Orders -> Pays]
      BY DEF IInv, Typed
    <2>1. /\ {s \in Subs : sub[s].order = o} # {} <=> pay[o].status = "success"
          /\ \A s, x \in {y \in Subs : sub[y].order = o} : s = x
      BY DEF IInv, PaidOnce
    <2>2. /\ pay[hand[w].order].status = "pending"
          /\ sub[t] = NotYet /\ hand[w].order \in Orders
          /\ pay' = [pay EXCEPT ![hand[w].order].status = "success"]
          /\ \A s \in Subs : sub'[s].order = IF s = t THEN hand[w].order ELSE sub[s].order
      BY <1>2, CompleteGives
    <2>3. CASE o = hand[w].order
      <3>1. {s \in Subs : sub[s].order = o} = {}
        BY <2>1, <2>2, <2>3
      <3>2. {s \in Subs : sub'[s].order = o} = {t}
        BY <2>2, <2>3, <3>1
      <3>3. pay'[o].status = "success"
        BY <2>0, <2>2, <2>3 DEF Pays
      <3> QED BY <3>2, <3>3
    <2>4. CASE o # hand[w].order
      <3>1. sub[t].order # o
        BY <2>2, SalesAssumption DEF NotYet
      <3>2. {s \in Subs : sub'[s].order = o} = {s \in Subs : sub[s].order = o}
        BY <2>2, <2>4, <3>1
      <3>3. pay'[o] = pay[o]
        BY <2>0, <2>2, <2>4
      <3> QED BY <2>1, <3>2, <3>3
    <2> QED BY <2>3, <2>4
  <1>3. ASSUME NEW t \in Subs, Complete(w, t) PROVE PaidOnce'
    BY <1>2, <1>3 DEF PaidOnce
  <1> QED BY <1>1, <1>3

LEMMA AckedStep ==
    ASSUME IInv, NEW w \in Workers, Acts(w)
    PROVE  \A o \in acked' : Settled(o)'
  <1>0. /\ acked \subseteq Orders /\ HandOK(w) /\ \A o \in acked : Settled(o)
        /\ PayStep /\ HeardStep
    BY ActsOnPays, ActsFrame DEF IInv, Typed, HeardStep
  <1>1. CASE acked' = acked
    BY <1>0, <1>1, SettledStays
  <1>2. CASE Answer(w)
    <2>1. acked' = acked \cup {hand[w].order} /\ hand[w].order \in Orders /\ Settled(hand[w].order)
      BY <1>0, <1>2 DEF Answer, HandOK
    <2> QED BY <1>0, <2>1, SettledStays
  <1>3. CASE RequestSucceeds(w) \/ RequestFails(w) \/ Refuse(w) \/ Look(w) \/ CompleteLate(w) \/ Stumble(w)
    BY <1>1, <1>3 DEF RequestSucceeds, RequestFails, Refuse, Look, CompleteLate, Stumble
  <1>4. CASE \E o \in Orders : PlaceVNPay(w, o) \/ PlaceMoMo(w, o) \/ ReceivePayment(w, o) \/ ReceiveRefusal(w, o)
    BY <1>1, <1>4 DEF PlaceVNPay, PlaceMoMo, ReceivePayment, ReceiveRefusal
  <1>5. CASE \E u \in Users, p \in Packages : CreatePayment(w, u, p) \/ Subscribe(w, u, p)
    BY <1>1, <1>5 DEF CreatePayment, Subscribe
  <1>6. CASE \E s \in Subs : Complete(w, s) \/ Commit(w, s)
    BY <1>1, <1>6 DEF Complete, Commit
  <1> QED BY <1>2, <1>3, <1>4, <1>5, <1>6 DEF Acts, Proceed

LEMMA ActsStep ==
    ASSUME IInv, NEW w \in Workers, Acts(w)
    PROVE  IInv'
  <1>1. PayStep /\ HeardStep /\ SubStep /\ Handed(w) /\ job' = job
    BY ActsOnPays, ActsFrame, ActsSubStep, ActsByHand DEF HeardStep
  <1>2. Typed'
    <2>1. hand' \in [Workers -> Hands] /\ job' \in Jobs
      BY <1>1 DEF Handed, IInv, Typed
    <2> QED BY <1>1, <2>1, PayTyped, HeardTyped, SubTyped, OtherTypes DEF Typed
  <1>3. \A o \in Orders : PayOK(o)'
    BY <1>1, PayOKStep
  <1>4. \A s \in Subs : SubOK(s)'
    BY <1>1, SubTyped
  <1>5. \A x \in Workers : HandOK(x)'
    BY OwnHand, OtherHands
  <1>6. JobOK'
    <2>1. job \in Jobs /\ JobOK
      BY DEF IInv, Typed
    <2> QED BY <1>1, <2>1, SubIsKept DEF JobOK, Jobs
  <1> QED BY <1>2, <1>3, <1>4, <1>5, <1>6, PaidOnceStep, AckedStep DEF IInv

LEMMA RestJob ==
    ASSUME IInv, Rest
    PROVE  job' \in Jobs /\ JobOK'
  <1>0. /\ job \in Jobs /\ JobOK /\ sub \in [Subs -> SubRows]
        /\ job.todo \in SUBSET Subs
    BY DEF IInv, Typed, Jobs
  <1>1. SubStep
    BY RestSubStep DEF SubStep
  <1>2. CASE job' = job
    BY <1>0, <1>1, <1>2, SubIsKept DEF JobOK, Jobs
  <1>3. CASE job' = Asleep
    BY <1>3, Literals DEF JobOK, Asleep
  <1>4. CASE Tick
    <2>1. job' = [at |-> "expire", todo |-> Overdue, sub |-> NoSub] /\ sub' = sub
      BY <1>4 DEF Tick, Asleep
    <2>2. \A s \in Overdue : s \in Subs /\ sub[s].lapsed /\ sub[s].status # "none"
      BY DEF Overdue
    <2> QED BY <2>1, <2>2 DEF JobOK, Jobs
  <1>5. ASSUME NEW s \in Subs, Expire(s) PROVE job' \in Jobs /\ JobOK'
    <2>1. job' = [at |-> "downgrade", todo |-> job.todo \ {s}, sub |-> s] /\ s \in job.todo
      BY <1>5 DEF Expire
    <2>2. \A t \in job.todo : sub'[t].lapsed /\ sub'[t].status # "none"
      BY <1>0, <1>1, SubIsKept DEF JobOK
    <2> QED BY <1>0, <2>1, <2>2 DEF JobOK, Jobs
  <1>6. ASSUME NEW s \in Subs, job' = [at |-> "expire", todo |-> job.todo \ {s}, sub |-> NoSub],
               sub' = sub
        PROVE  job' \in Jobs /\ JobOK'
    BY <1>0, <1>6 DEF JobOK, Jobs
  <1>7. ASSUME NEW s \in Subs, JobStumbles(s) PROVE job' \in Jobs /\ JobOK'
    BY <1>3, <1>6, <1>7 DEF JobStumbles
  <1>8. CASE Downgrade
    <2>1. CASE job.todo = {}
      BY <1>3, <1>8, <2>1 DEF Downgrade, AfterOne
    <2>2. CASE job.todo # {}
      <3>1. job' = [job EXCEPT !.at = "expire", !.sub = NoSub] /\ sub' = sub
        BY <1>8, <2>2 DEF Downgrade, AfterOne
      <3>2. job' \in Jobs /\ job'.todo = job.todo /\ job'.at = "expire"
        BY <1>0, <3>1 DEF Jobs
      <3> QED BY <1>0, <3>1, <3>2 DEF JobOK
    <2> QED BY <2>1, <2>2
  <1>9. CASE \E o \in Orders : AnnounceRefusal(o) \/ AnnouncePayment(o)
    BY <1>2, <1>9 DEF AnnounceRefusal, AnnouncePayment
  <1>10. CASE (\E s \in Subs : Lapse(s)) \/ Crash
    BY <1>2, <1>3, <1>10 DEF Lapse, Crash
  <1> QED BY <1>4, <1>5, <1>7, <1>8, <1>9, <1>10 DEF Rest, JobStep

LEMMA RestStep ==
    ASSUME IInv, Rest
    PROVE  IInv'
  <1>0. IInv
    OBVIOUS
  <1>1. pay' = pay /\ PayStep /\ HeardStep /\ SubStep /\ job' \in Jobs /\ JobOK'
    BY RestPayStep, RestSubStep, RestJob DEF PayStep, SubStep
  <1>2. acked' = acked /\ (hand' = hand \/ hand' = [w \in Workers |-> Idle])
    <2>1. CASE \E o \in Orders : AnnounceRefusal(o) \/ AnnouncePayment(o)
      BY <2>1 DEF AnnounceRefusal, AnnouncePayment
    <2>2. CASE Tick \/ JobStep \/ Crash \/ \E s \in Subs : Lapse(s) \/ JobStumbles(s)
      BY <2>2 DEF Tick, JobStep, Downgrade, Expire, Crash, Lapse, JobStumbles
    <2> QED BY <2>1, <2>2 DEF Rest
  <1>3. role' \in [Users -> {"USER", "PARTNER"}] /\ trouble' \in 0 .. MaxTrouble
    <2>0. role \in [Users -> {"USER", "PARTNER"}] /\ trouble \in 0 .. MaxTrouble
      BY DEF IInv, Typed
    <2>1. CASE \E o \in Orders : AnnounceRefusal(o) \/ AnnouncePayment(o)
      BY <2>0, <2>1 DEF AnnounceRefusal, AnnouncePayment
    <2>2. CASE Tick \/ (\E s \in Subs : Lapse(s) \/ Expire(s))
      BY <2>0, <2>2 DEF Tick, Expire, Lapse
    <2>3. CASE Downgrade
      BY <2>0, <2>3 DEF Downgrade
    <2>4. CASE Crash \/ \E s \in Subs : JobStumbles(s)
      BY <2>0, <2>4, SalesAssumption DEF Crash, JobStumbles
    <2> QED BY <2>1, <2>2, <2>3, <2>4 DEF Rest, JobStep
  <1>4. Typed'
    <2>1. hand' \in [Workers -> Hands]
      BY <1>2, Literals DEF IInv, Typed
    <2>2. acked' \subseteq Orders
      BY <1>2 DEF IInv, Typed
    <2> QED BY <1>1, <1>3, <2>1, <2>2, PayTyped, HeardTyped, SubTyped DEF Typed
  <1>5. \A o \in Orders : PayOK(o)'
    BY <1>1, PayOKStep
  <1>6. \A s \in Subs : SubOK(s)'
    BY <1>1, SubTyped
  <1>7. ASSUME NEW x \in Workers PROVE HandOK(x)'
    <2>1. CASE hand' = [w \in Workers |-> Idle]
      BY <2>1, IdleIsOK
    <2>2. CASE hand' = hand /\ hand[x].at # "request"
      BY <1>1, <2>2, RestingHand
    <2>3. CASE hand' = hand /\ hand[x].at = "request"
      BY <1>1, <2>3 DEF IInv, HandOK
    <2> QED BY <1>2, <2>1, <2>2, <2>3
  <1>8. PaidOnce'
    BY <1>1, RestSubStep, OrdersOfSubs, PaidOnceKept
  <1>9. \A o \in acked' : Settled(o)'
    BY <1>1, <1>2, SettledStays DEF IInv, Typed
  <1> QED BY <1>1, <1>4, <1>5, <1>6, <1>7, <1>8, <1>9 DEF IInv

LEMMA StutterStep ==
    ASSUME IInv, UNCHANGED vars
    PROVE  IInv'
  BY DEF vars, IInv, Typed, PayOK, SubOK, HandOK, JobOK, PaidOnce, Settled

\* The invariant holds in every reachable state.
THEOREM Invariant == Spec => []IInv
  <1>1. Init => IInv
    BY InitIInv
  <1>2. IInv /\ [Next]_vars => IInv'
    BY NextSplit, ActsStep, RestStep, StutterStep
  <1> QED BY <1>1, <1>2, PTL DEF Spec

-----------------------------------------------------------------------------
(* The properties *)

\* Type correctness for every set of users, orders and subscriptions: no request loses
\* the order or the user it works for.
THEOREM TypeCorrect == Spec => []TypeOK
  <1>1. ASSUME IInv PROVE TypeOK
    <2>1. Typed
      BY <1>1 DEF IInv
    <2>2. ASSUME NEW w \in Workers
          PROVE  /\ hand[w].at \in {"request", "refuse", "look", "complete", "answer"} => hand[w].order \in Orders
                 /\ hand[w].at \notin {"idle", "answer"} => hand[w].user \in Users
      <3>1. HandOK(w) /\ hand[w].at \in Steps
        BY <1>1 DEF IInv, Typed, Hands
      <3>2. CASE hand[w].at \in {"refuse", "look", "complete"}
        <4>1. hand[w].order \in Orders /\ heard[hand[w].order] # {} /\ hand[w].user = pay[hand[w].order].user
          BY <3>1, <3>2 DEF HandOK
        <4>2. pay[hand[w].order].user \in Users
          BY <1>1, <4>1 DEF IInv, PayOK, NoPay
        <4> QED BY <4>1, <4>2
      <3>3. CASE hand[w].at \notin {"refuse", "look", "complete"}
        BY <3>1, <3>3 DEF HandOK, Steps
      <3> QED BY <3>2, <3>3
    <2>3. job.at = "downgrade" => job.sub \in Subs /\ sub[job.sub].user \in Users
      BY <1>1 DEF IInv, JobOK, SubOK
    <2> QED BY <2>1, <2>2, <2>3 DEF TypeOK, Typed, Pays, SubRows, Hands, Jobs
  <1> QED BY <1>1, Invariant, PTL

\* An order gives one subscription when it is paid and none otherwise, whatever the
\* gateways repeat and wherever requests fail.
THEOREM OrdersArePaidOnce == Spec => []PaidOnce
  <1>1. IInv => PaidOnce
    BY DEF IInv
  <1> QED BY <1>1, Invariant, PTL

\* An acknowledged payment is honoured, or the gateway had refused it as well.
THEOREM NoAcknowledgedLoss == Spec => []AcknowledgedIsHonoured
  <1>1. IInv => AcknowledgedIsHonoured
    BY DEF IInv, Settled, AcknowledgedIsHonoured
  <1> QED BY <1>1, Invariant, PTL

NeverLeftNow ==
    \A u \in Users :
        Running(u) # {} /\ Running(u)' = {} => \E s \in Running(u) : sub[s]'.lapsed

LEMMA SoldLeavesNone ==
    ASSUME IInv, NEW old \in Subs \cup {NoSub}, NEW t \in Subs, NEW v \in Users,
           NEW o \in Orders \cup {NoOrder}, Sold(old, t, v, o), NEW u \in Users, Running(u) # {}
    PROVE  Running(u)' # {}
  <1> PICK p \in Packages : sub' = Subscribed(old, t, NewSub(v, p, o))
    BY DEF Sold
  <1> PICK s \in Subs : sub[s].user = u /\ sub[s].status = "active" /\ ~sub[s].lapsed
    BY DEF Running
  <1>1. CASE u = v
    <2>1. sub'[t] = NewSub(v, p, o)
      BY DEF Subscribed
    <2>2. sub'[t].user = u /\ sub'[t].status = "active" /\ ~sub'[t].lapsed
      BY <1>1, <2>1, NewSubTyped
    <2> QED BY <2>2 DEF Running
  <1>2. CASE u # v
    <2>1. s # t
      BY DEF Sold, NotYet
    <2>2. s # old
      BY <1>2, SalesAssumption DEF Sold
    <2>3. sub'[s] = sub[s]
      BY <2>1, <2>2 DEF Subscribed
    <2> QED BY <2>3 DEF Running
  <1> QED BY <1>1, <1>2

LEMMA NeverLeftStep ==
    ASSUME IInv, [Next]_vars
    PROVE  NeverLeftNow
  <1> SUFFICES ASSUME NEW u \in Users, Running(u) # {}, Running(u)' = {}
               PROVE  \E s \in Running(u) : sub'[s].lapsed
    BY DEF NeverLeftNow
  <1>0. sub \in [Subs -> SubRows]
    BY DEF IInv, Typed
  <1>1. CASE sub' = sub
    BY <1>1 DEF Running
  <1>2. ASSUME NEW t \in Subs, Marked(t) PROVE \E s \in Running(u) : sub'[s].lapsed
    <2> PICK s \in Running(u) : TRUE
      OBVIOUS
    <2>0. s \in Subs /\ sub[s].user = u /\ sub[s].status = "active" /\ ~sub[s].lapsed
      BY DEF Running
    <2>1. sub'[s] # sub[s]
      BY <2>0 DEF Running
    <2>2. s = t
      BY <1>0, <1>2, <2>0, <2>1 DEF Marked
    <2>3. sub' = [sub EXCEPT ![t].lapsed = TRUE]
      BY <1>2, <2>0, <2>2 DEF Marked
    <2>4. sub'[s].lapsed
      BY <1>0, <2>0, <2>2, <2>3 DEF SubRows
    <2> QED BY <2>4
  <1>3. ASSUME NEW w \in Workers, NEW t \in Subs, NEW o \in Orders \cup {NoOrder}, Purchase(w, t, o)
        PROVE  FALSE
    BY <1>3, SoldLeavesNone DEF Purchase
  <1>4. ASSUME NEW w \in Workers, Acts(w) PROVE sub' = sub
    BY <1>3, <1>4, ActsOnSubs, CompleteSells, CommitSells
  <1>5. CASE Next
    BY <1>1, <1>2, <1>4, <1>5, NextSplit, RestSubStep
  <1>6. CASE UNCHANGED vars
    BY <1>1, <1>6 DEF vars
  <1> QED BY <1>5, <1>6

\* Neither a purchase nor the expiry job takes away a user's last running subscription.
THEOREM NobodyIsLeftWithout == Spec => NeverLeftWithout
  <1>1. IInv /\ [Next]_vars => [NeverLeftNow]_vars
    BY NeverLeftStep
  <1> QED BY <1>1, Invariant, PTL DEF Spec, NeverLeftWithout, NeverLeftNow

-----------------------------------------------------------------------------
(* The refinement *)

OrderMap == [o \in Orders |-> OrderState(o)]
Money == {o \in Orders : "paid" \in heard[o]}
Given == {<<sub[s].order, s>> : s \in {t \in Subs : sub[t].order # NoOrder}}

LEMMA StateOf ==
    ASSUME Typed, NEW o \in Orders
    PROVE  /\ OrderState(o) = "new" <=> pay[o].status = "none"
           /\ OrderState(o) = "open" <=> pay[o].status = "pending"
           /\ OrderState(o) = "honoured" <=> pay[o].status = "success"
           /\ OrderState(o) = "refused" <=> pay[o].status = "failed"
           /\ OrderState(o) \in {"new", "open", "honoured", "refused"}
  <1>1. pay[o].status \in {"none", "pending", "success", "failed"}
    BY DEF Typed, Pays
  <1> QED BY <1>1 DEF OrderState

\* The same in the next state.
LEMMA StateOfNext ==
    Typed' => \A o \in Orders :
        /\ pay'[o].status = "none" => OrderState(o)' = "new"
        /\ pay'[o].status = "pending" => OrderState(o)' = "open"
        /\ pay'[o].status = "success" => OrderState(o)' = "honoured"
        /\ pay'[o].status = "failed" => OrderState(o)' = "refused"
  BY DEF OrderState

LEMMA SameState ==
    ASSUME NEW o \in Orders, pay'[o].status = pay[o].status
    PROVE  OrderState(o)' = OrderState(o)
  BY DEF OrderState

LEMMA GivenKept ==
    ASSUME \A s \in Subs : sub'[s].order = sub[s].order
    PROVE  Given' = Given
  BY DEF Given

\* A step that leaves the orders, the money and what was given is a stutter.
LEMMA MapsToOpen ==
    ASSUME IInv, Typed', NEW o \in Orders, Opened(o), Money' = Money, Given' = Given
    PROVE  Sale!Next
  <1>0. pay \in [Orders -> Pays]
    BY DEF IInv, Typed
  <1>1. pay[o].status = "none" /\ pay'[o].status = "pending"
    BY <1>0 DEF Opened, NoPay
  <1>2. \A q \in Orders : q # o => pay'[q] = pay[q]
    BY <1>0 DEF Opened
  <1>3. OrderState(o) = "new" /\ OrderState(o)' = "open"
    BY <1>1, StateOf, StateOfNext DEF IInv
  <1>4. \A q \in Orders : q # o => OrderState(q)' = OrderState(q)
    BY <1>2, SameState
  <1>5. OrderMap' = [OrderMap EXCEPT ![o] = "open"] /\ OrderMap[o] = "new"
    BY <1>3, <1>4 DEF OrderMap
  <1>6. Sale!Open(o)
    BY <1>5 DEF Sale!Open, OrderMap, Money, Given
  <1> QED BY <1>6 DEF Sale!Next

LEMMA MapsToRefuse ==
    ASSUME IInv, Typed', NEW o \in Orders, FailedNow(o), Money' = Money, Given' = Given
    PROVE  Sale!Next
  <1>0. pay \in [Orders -> Pays]
    BY DEF IInv, Typed
  <1>1. pay[o].status = "pending" /\ pay'[o].status = "failed"
    BY <1>0 DEF FailedNow, Pays
  <1>2. \A q \in Orders : q # o => pay'[q] = pay[q]
    BY <1>0 DEF FailedNow
  <1>3. OrderState(o) = "open" /\ OrderState(o)' = "refused"
    BY <1>1, StateOf, StateOfNext DEF IInv
  <1>4. \A q \in Orders : q # o => OrderState(q)' = OrderState(q)
    BY <1>2, SameState
  <1>5. OrderMap' = [OrderMap EXCEPT ![o] = "refused"] /\ OrderMap[o] = "open"
    BY <1>3, <1>4 DEF OrderMap
  <1>6. Sale!Refuse(o)
    BY <1>5 DEF Sale!Refuse, OrderMap, Money, Given
  <1> QED BY <1>6 DEF Sale!Next

LEMMA MapsToHonour ==
    ASSUME IInv, Typed', NEW w \in Workers, NEW t \in Subs, Complete(w, t)
    PROVE  Sale!Next
  <1> PICK o \in Orders : o = hand[w].order
    BY CompleteGives
  <1>0. pay \in [Orders -> Pays]
    BY DEF IInv, Typed
  <1>1. /\ o \in Orders /\ pay[o].status = "pending"
        /\ "paid" \in heard[o] /\ heard' = heard
        /\ sub[t] = NotYet
        /\ pay' = [pay EXCEPT ![o].status = "success"]
        /\ \A s \in Subs : sub'[s].order = IF s = t THEN o ELSE sub[s].order
    BY CompleteGives
  <1>2. pay'[o].status = "success" /\ \A q \in Orders : q # o => pay'[q] = pay[q]
    BY <1>0, <1>1 DEF Pays
  <1>3. OrderState(o) = "open" /\ OrderState(o)' = "honoured"
    BY <1>1, <1>2, StateOf, StateOfNext DEF IInv
  <1>4. \A q \in Orders : q # o => OrderState(q)' = OrderState(q)
    BY <1>2, SameState
  <1>5. OrderMap' = [OrderMap EXCEPT ![o] = "honoured"] /\ OrderMap[o] = "open"
    BY <1>1, <1>3, <1>4 DEF OrderMap
  <1>6. Money' = Money /\ o \in Money
    BY <1>1 DEF Money
  <1>7. sub[t].order = NoOrder /\ NoOrder \notin Orders
    BY <1>1, SalesAssumption DEF NotYet
  <1>8. \A q \in Orders : <<q, t>> \notin Given
    BY <1>7 DEF Given
  <1>9. Given' = Given \cup {<<o, t>>}
    <2>1. o # NoOrder
      BY <1>1, <1>7
    <2>2. {s \in Subs : sub'[s].order # NoOrder} = {s \in Subs : sub[s].order # NoOrder} \cup {t}
      BY <1>1, <1>7, <2>1
    <2>3. Given' = {<<sub'[s].order, s>> : s \in {x \in Subs : sub'[x].order # NoOrder}}
      BY DEF Given
    <2> QED BY <1>1, <1>7, <2>2, <2>3 DEF Given
  <1>10. Sale!Honour(o, t)
    BY <1>5, <1>6, <1>8, <1>9 DEF Sale!Honour, OrderMap, Money, Given
  <1> QED BY <1>1, <1>10 DEF Sale!Next

LEMMA MapsToPay ==
    ASSUME IInv, NEW o \in Orders, AnnouncePayment(o)
    PROVE  Sale!Next
  <1>1. heard \in [Orders -> SUBSET {"paid", "refused"}] /\ pay[o].url /\ UNCHANGED <<pay, sub>>
    BY DEF IInv, Typed, AnnouncePayment
  <1>2. Money' = Money \cup {o}
    BY <1>1 DEF AnnouncePayment, Money
  <1>3. OrderMap' = OrderMap /\ Given' = Given
    BY <1>1 DEF OrderMap, OrderState, Given
  <1>4. OrderState(o) # "new"
    <2>1. pay[o].status # "none"
      BY <1>1 DEF IInv, PayOK, NoPay
    <2> QED BY <2>1, StateOf DEF IInv
  <1>5. Sale!Pay(o)
    BY <1>2, <1>3, <1>4 DEF Sale!Pay, OrderMap, Money, Given
  <1> QED BY <1>5 DEF Sale!Next

\* A link changes no order, and neither does a step that leaves the payments alone.
LEMMA MapsToStutter ==
    ASSUME IInv, Money' = Money, Given' = Given,
           pay' = pay \/ \E o \in Orders : Linked(o)
    PROVE  UNCHANGED <<OrderMap, Money, Given>>
  <1>0. pay \in [Orders -> Pays]
    BY DEF IInv, Typed
  <1>1. \A o \in Orders : pay'[o].status = pay[o].status
    BY <1>0 DEF Linked, Pays
  <1>2. OrderMap' = OrderMap
    BY <1>1, SameState DEF OrderMap
  <1> QED BY <1>2

\* What a request does to the payments, other than to complete one.
LEMMA PayStepSplit ==
    ASSUME IInv, NEW w \in Workers, Acts(w), \A s \in Subs : ~Complete(w, s)
    PROVE  pay' = pay \/ \E o \in Orders : Opened(o) \/ Linked(o) \/ FailedNow(o)
  <1>0. PayStep /\ \A o \in Orders : pay'[o].status = "success" <=> pay[o].status = "success"
    BY ActsOnPays, OnlyCompleteHonours
  <1>1. ASSUME NEW o \in Orders, Honoured(o) PROVE FALSE
    BY <1>0, <1>1 DEF Honoured, IInv, Typed, Pays
  <1> QED BY <1>0, <1>1 DEF PayStep

LEMMA ActsMap ==
    ASSUME IInv, Typed', NEW w \in Workers, Acts(w)
    PROVE  Sale!Next \/ UNCHANGED <<OrderMap, Money, Given>>
  <1>1. ASSUME NEW s \in Subs, Complete(w, s) PROVE Sale!Next
    BY <1>1, MapsToHonour
  <1>2. CASE \A s \in Subs : ~Complete(w, s)
    <2>1. ASSUME NEW s \in Subs, Commit(w, s)
          PROVE  \E old \in Subs \cup {NoSub}, t \in Subs, u \in Users : Sold(old, t, u, NoOrder)
      BY <2>1, CommitSells DEF Purchase
    <2>2. \A s \in Subs : sub'[s].order = sub[s].order
      BY <1>2, <2>1, ActsOnSubs, OrdersOfSubs
    <2>3. Given' = Given
      BY <2>2, GivenKept
    <2>4. Money' = Money
      BY ActsFrame DEF Money
    <2> QED BY <1>2, <2>3, <2>4, PayStepSplit, MapsToOpen, MapsToRefuse, MapsToStutter
  <1> QED BY <1>1, <1>2

LEMMA RestMaps ==
    ASSUME IInv, Rest
    PROVE  Sale!Next \/ UNCHANGED <<OrderMap, Money, Given>>
  <1>1. \A s \in Subs : sub'[s].order = sub[s].order
    BY RestSubStep, OrdersOfSubs
  <1>2. Given' = Given /\ pay' = pay
    BY <1>1, GivenKept, RestPayStep
  <1>3. ASSUME NEW o \in Orders, AnnouncePayment(o) PROVE Sale!Next
    BY <1>3, MapsToPay
  <1>4. CASE Money' = Money
    BY <1>2, <1>4, MapsToStutter
  <1>5. CASE heard' = heard
    BY <1>4, <1>5 DEF Money
  <1>6. ASSUME NEW o \in Orders, AnnounceRefusal(o) PROVE Money' = Money
    <2>1. heard \in [Orders -> SUBSET {"paid", "refused"}] /\ heard[o] = {}
          /\ heard' = [heard EXCEPT ![o] = {"refused"}]
      BY <1>6 DEF IInv, Typed, AnnounceRefusal
    <2> QED BY <2>1 DEF Money
  <1>7. CASE Tick \/ JobStep \/ Crash \/ \E s \in Subs : Lapse(s) \/ JobStumbles(s)
    BY <1>5, <1>7 DEF Tick, JobStep, Downgrade, Expire, Crash, Lapse, JobStumbles
  <1> QED BY <1>3, <1>4, <1>6, <1>7 DEF Rest

\* Every statement of the requests, the gateways and the job maps to a step of the
\* contract of a sale or to a stutter.
THEOREM ImplementsContract == Spec => SaleSpec
  <1>1. Init => Sale!Init
    BY SalesAssumption DEF Init, Sale!Init, OrderState, NoPay, NotYet
  <1>2. ASSUME IInv, IInv', [Next]_vars
        PROVE  Sale!Next \/ UNCHANGED <<OrderMap, Money, Given>>
    <2>0. Typed'
      BY <1>2 DEF IInv
    <2>1. CASE UNCHANGED vars
      BY <2>1 DEF vars, OrderMap, OrderState, Money, Given
    <2> QED BY <1>2, <2>0, <2>1, NextSplit, ActsMap, RestMaps
  <1>3. IInv /\ IInv' /\ [Next]_vars =>
          [Sale!Next]_<<[o \in Orders |-> OrderState(o)],
                        {o \in Orders : "paid" \in heard[o]},
                        {<<sub[s].order, s>> : s \in {t \in Subs : sub[t].order # NoOrder}}>>
    BY <1>2 DEF OrderMap, Money, Given
  <1> QED BY <1>1, <1>3, Invariant, PTL DEF Spec, SaleSpec, Sale!Spec
=============================================================================
