---------------------------- MODULE SaleContract ----------------------------
(***************************************************************************)
(* What the payment service promises about the orders of advertisement     *)
(* packages, whatever the gateways repeat, delay or reorder: an order is   *)
(* decided once, an order is honoured only with the money and by giving    *)
(* exactly one subscription, and nothing else is given for an order.       *)
(* AdSales implements this specification.                                  *)
(***************************************************************************)
CONSTANTS Orders, Subs

VARIABLES
    order,     \* the state of each order
    money,     \* the orders whose payment the gateway has announced
    given      \* the subscriptions given for orders, as pairs

Init ==
    /\ order = [o \in Orders |-> "new"]
    /\ money = {}
    /\ given = {}

Open(o) ==
    /\ order[o] = "new"
    /\ order' = [order EXCEPT ![o] = "open"]
    /\ UNCHANGED <<money, given>>

Pay(o) ==
    /\ order[o] # "new"
    /\ money' = money \cup {o}
    /\ UNCHANGED <<order, given>>

Honour(o, s) ==
    /\ order[o] = "open"
    /\ o \in money
    /\ \A q \in Orders : <<q, s>> \notin given
    /\ order' = [order EXCEPT ![o] = "honoured"]
    /\ given' = given \cup {<<o, s>>}
    /\ UNCHANGED money

Refuse(o) ==
    /\ order[o] = "open"
    /\ order' = [order EXCEPT ![o] = "refused"]
    /\ UNCHANGED <<money, given>>

Next ==
    \E o \in Orders :
        \/ Open(o) \/ Pay(o) \/ Refuse(o)
        \/ \E s \in Subs : Honour(o, s)

Spec == Init /\ [][Next]_<<order, money, given>>
=============================================================================
