------------------------------ MODULE CouponUse ------------------------------
(***************************************************************************)
(* What an issued coupon is worth: OrderService.createOrder looks for an   *)
(* AVAILABLE UserCoupon row of the user, computes the discount from its    *)
(* Coupon, and links the order to a UserCoupon row; once the order is      *)
(* paid, OrderOrchestrator.handlePaymentCompletion marks the linked row    *)
(* USED. The request names a Coupon id, but the link is written as a       *)
(* UserCoupon id (Order.coupon is a UserCoupon), so that both are          *)
(* numbers here. Nothing reserves the row between the search and the       *)
(* mark, and cancelPayment leaves it as it is.                             *)
(*                                                                         *)
(* A definition named like the one below it with a suffix is a faulty      *)
(* variant of it: no action uses it, and put in the definition's place     *)
(* it makes a property of this module fail.                                *)
(***************************************************************************)
EXTENDS Integers, Sequences

CONSTANTS
    Users,     \* UserAccount rows
    Coupons,   \* Coupon ids
    Grants,    \* the <<user, coupon>> pairs that are ever issued
    Terms,     \* of a coupon: [type, amount, minOrderAmount]
    Calls,     \* calls of createOrder
    CallerOf,  \* the user a call is for
    CouponOf,  \* the couponId of a call's request
    TotalOf,   \* the total of its items
    After,     \* the call that has to return first, or None
    None

\* Nothing checks the terms of a coupon or the sign of a price: a discount may
\* be larger than the total, and what is left to pay is then below zero.
ASSUME CouponUseAssumption ==
    /\ Coupons \subseteq Nat \ {0}
    /\ Grants \subseteq Users \X Coupons
    /\ Terms \in [Coupons -> [type : {"PERCENTAGE", "FIXED"}, amount : Int,
                              minOrderAmount : Int]]
    /\ CallerOf \in [Calls -> Users]
    /\ CouponOf \in [Calls -> Coupons]
    /\ TotalOf \in [Calls -> Int]
    /\ After \in [Calls -> Calls \cup {None}]
    /\ None \notin Calls

VARIABLES
    rows,     \* UserCoupon: the row with id n is rows[n]
    pc,       \* where each call is
    discount, \* discountAmount of a call
    link,     \* couponConnect of a call, then Order.couponId; 0 for none
    order,    \* Order.status, "none" before the order is written
    paid,     \* the orders a completed payment has been made for
    event     \* PAYMENT_COMPLETED of an order and its handler

callVars == <<pc, discount, link>>
vars == <<rows, callVars, order, paid, event>>

RowType == [user : Users, coupon : Coupons, status : {"AVAILABLE", "USED"}]

TypeOK ==
    /\ rows \in Seq(RowType)
    /\ pc \in [Calls -> {"start", "priced", "returned", "refused"}]
    /\ discount \in [Calls -> Int]
    /\ link \in [Calls -> Coupons \cup {0}]
    /\ order \in [Calls -> {"none", "PENDING", "PAID", "CANCELLED"}]
    /\ paid \subseteq Calls
    /\ event \in [Calls -> {"none", "emitted", "read", "handled", "lost"}]

Init ==
    /\ rows = <<>>
    /\ pc = [c \in Calls |-> "start"]
    /\ discount = [c \in Calls |-> 0]
    /\ link = [c \in Calls |-> 0]
    /\ order = [c \in Calls |-> "none"]
    /\ paid = {}
    /\ event = [c \in Calls |-> "none"]

-----------------------------------------------------------------------------
\* A coupon is issued (CouponIssue): ids count up, (userId, couponId) is unique.
\* An insert that fails uses up an id too: to a link such a gap is a row that is
\* not there, like those that are still to come.
Issue(u, k) ==
    /\ \A n \in DOMAIN rows : <<rows[n].user, rows[n].coupon>> # <<u, k>>
    /\ rows' = Append(rows, [user |-> u, coupon |-> k, status |-> "AVAILABLE"])
    /\ UNCHANGED <<callVars, order, paid, event>>

Goto(c, label) == pc' = [pc EXCEPT ![c] = label]

\* findExistingUserCoupon: whether it is AVAILABLE, but not whether it has expired.
OwnsAny(u, k) == \E n \in DOMAIN rows : rows[n].user = u /\ rows[n].coupon = k
Owns(u, k) ==
    \E n \in DOMAIN rows : rows[n] = [user |-> u, coupon |-> k, status |-> "AVAILABLE"]

\* The minimum of the order, compared with the total before the discount.
EnoughAny(c) == TRUE
Enough(c) == Terms[CouponOf[c]].minOrderAmount <= TotalOf[c]

Discount(c) ==
    LET t == Terms[CouponOf[c]]
    IN  IF t.type = "PERCENTAGE" THEN (TotalOf[c] * t.amount) \div 100 ELSE t.amount

\* The couponId of the request becomes the id of the row to connect.
Link(c) == CouponOf[c]

\* createOrder up to the price.  A coupon that is not there, not owned, too
\* small an order or an error of the search all leave the full price.
Price(c) ==
    /\ pc[c] = "start"
    /\ After[c] # None => pc[After[c]] = "returned"
    /\ \/ /\ Owns(CallerOf[c], CouponOf[c]) /\ Enough(c)
          /\ discount' = [discount EXCEPT ![c] = Discount(c)]
          /\ link' = [link EXCEPT ![c] = Link(c)]
       \/ UNCHANGED <<discount, link>>
    /\ Goto(c, "priced")
    /\ UNCHANGED <<rows, order, paid, event>>

\* A product is missing or out of stock, or the transaction times out.
Refuse(c) ==
    /\ pc[c] = "start"
    /\ Goto(c, "refused")
    /\ UNCHANGED <<rows, discount, link, order, paid, event>>

\* The order row: connect wants the linked row to be there, whosever it is.
CanConnect(c) == link[c] = 0 \/ link[c] \in DOMAIN rows

Write(c) ==
    /\ pc[c] = "priced"
    /\ \/ /\ CanConnect(c)
          /\ order' = [order EXCEPT ![c] = "PENDING"]
          /\ \/ Goto(c, "returned")
             \/ Goto(c, "refused")  \* the rest of the transaction fails
       \/ /\ link[c] # 0 /\ link[c] \notin DOMAIN rows
          /\ Goto(c, "refused")
          /\ UNCHANGED order
    /\ UNCHANGED <<rows, discount, link, paid, event>>

-----------------------------------------------------------------------------
\* POST /payment (Payments): an order is paid once, and PAYMENT_COMPLETED is
\* emitted for a payment that is COMPLETED.
AnnouncedAlways(c, ok) == "emitted"
Announced(c, ok) == IF ok THEN "emitted" ELSE "none"

Pay(c) ==
    /\ order[c] = "PENDING"
    /\ event[c] = "none"
    /\ \E ok \in BOOLEAN :
          /\ order' = [order EXCEPT ![c] = IF ok THEN "PAID" ELSE @]
          /\ paid' = IF ok THEN paid \cup {c} ELSE paid
          /\ event' = [event EXCEPT ![c] = Announced(c, ok)]
    /\ UNCHANGED <<rows, callVars>>

\* cancelPayment: the coupon is not given back.
Cancel(c) ==
    /\ order[c] = "PAID"
    /\ order' = [order EXCEPT ![c] = "CANCELLED"]
    /\ UNCHANGED <<rows, callVars, paid, event>>

\* handlePaymentCompletion: updateOrderStatus(PAID), whatever it has become,
\* and the order is read.
SetPaid(c) ==
    /\ event[c] = "emitted"
    /\ order' = [order EXCEPT ![c] = "PAID"]
    /\ event' = [event EXCEPT ![c] = "read"]
    /\ UNCHANGED <<rows, callVars, paid>>

\* The linked row becomes USED, again if it was.
SpendableIfOwn(c) == link[c] # 0 /\ rows[link[c]].user = CallerOf[c]
Spendable(c) == link[c] # 0

Spend(c) ==
    /\ event[c] = "read"
    /\ rows' = IF Spendable(c) THEN [rows EXCEPT ![link[c]].status = "USED"] ELSE rows
    /\ event' = [event EXCEPT ![c] = "handled"]
    /\ UNCHANGED <<callVars, order, paid>>

\* The handler's transaction fails or the process dies: nobody emits it again.
Lose(c) ==
    /\ event[c] \in {"emitted", "read"}
    /\ event' = [event EXCEPT ![c] = "lost"]
    /\ UNCHANGED <<rows, callVars, order, paid>>

-----------------------------------------------------------------------------
HandlerStep(c) == SetPaid(c) \/ Spend(c)

Finished ==
    /\ \A c \in Calls : /\ pc[c] \in {"returned", "refused"} \/ After[c] # None
                        /\ order[c] \in {"none", "CANCELLED"}
                        /\ event[c] \in {"none", "handled", "lost"}
    /\ UNCHANGED vars

Next ==
    \/ \E g \in Grants : Issue(g[1], g[2])
    \/ \E c \in Calls : Price(c) \/ Refuse(c) \/ Write(c) \/ Pay(c) \/ Cancel(c)
                        \/ HandlerStep(c) \/ Lose(c)
    \/ Finished

Spec == Init /\ [][Next]_vars

\* An event that was emitted is handled; nothing makes anybody order or pay.
FairSpec == Spec /\ \A c \in Calls : WF_vars(HandlerStep(c))

-----------------------------------------------------------------------------
(* Properties *)

Written(c) == order[c] # "none"

\* A discount has its reasons: the user has been issued that coupon, the total
\* reaches its minimum, the discount is what its terms say, and the order is
\* linked to a row that exists, however the coupon's issue and other orders
\* interleave.  That something is left to pay is not among them.
DiscountBacked ==
    \A c \in Calls :
        /\ Written(c) /\ link[c] # 0 =>
              /\ link[c] \in DOMAIN rows
              /\ \E n \in DOMAIN rows : /\ rows[n].user = CallerOf[c]
                                        /\ rows[n].coupon = CouponOf[c]
              /\ Terms[CouponOf[c]].minOrderAmount <= TotalOf[c]
              /\ discount[c] = Discount(c)
        /\ link[c] = 0 => discount[c] = 0

\* No row is used up without an order that was paid and is linked to it.
UsedIsPaid ==
    \A n \in DOMAIN rows :
        rows[n].status = "USED" => \E c \in paid : link[c] = n

\* The coupon of a paid order is used up in the end, unless the event is lost
\* or the order is cancelled.  What becomes of the coupon of a cancelled order
\* is left open: no code gives it back, and the handler may still use it up.
PaidIsUsed ==
    \A c \in Calls :
        c \in paid /\ link[c] # 0 ~>
            \/ event[c] = "lost"
            \/ order[c] = "CANCELLED"
            \/ link[c] \in DOMAIN rows /\ rows[link[c]].status = "USED"

\* The number the request of c names is also the id of the row its caller has
\* of that coupon.  The code relies on it, and it is a matter of luck: of the
\* holders of one coupon at most one has such a row.
NamesOwnRow(c) ==
    /\ CouponOf[c] \in DOMAIN rows
    /\ rows[CouponOf[c]].user = CallerOf[c]
    /\ rows[CouponOf[c]].coupon = CouponOf[c]

\* A user for whom the two ids are one gets no discount for a coupon after any
\* order with it, his own or another holder's, has been paid and handled.
\* Before that, nothing keeps a second order, the other call of one POST for
\* instance, from having it too; and a holder whose ids differ keeps his
\* coupon for any number of orders, at the cost of the row the number names.
SpentForGood ==
    [][\A c, d \in Calls :
          /\ discount'[c] # discount[c]
          /\ link[d] # 0 /\ CouponOf[d] = CouponOf[c]
          /\ event[d] = "handled"
          => ~NamesOwnRow(c)]_vars
=============================================================================
