------------------------------ MODULE ShopData ------------------------------
(***************************************************************************)
(* The data the payment and balance repositories work on, as parameters:   *)
(* the requests in flight and the rows they refer to.  A request is one    *)
(* HTTP call being served by some instance of the service; what it asks    *)
(* for is given by functions on its identity, so that a request can also   *)
(* name the payment it creates (a call creates at most one payment row).   *)
(***************************************************************************)
EXTENDS Integers, FiniteSets

CONSTANTS
    Requests,   \* the calls in flight, over the whole behaviour
    Users,      \* UserAccount rows
    Orders,     \* Order rows
    Variants,   \* ProductVariant rows
    None,       \* "nobody": a lock that is free, a variable not in use
    Kind,       \* what each request asks for, a member of Kinds
    Caller,     \* the user id each request is made with
    OrderOf,    \* the order a request is about
    PaymentOf,  \* the payment a "cancel" request is about
    ChargeOf,   \* the amount a "charge" request adds, which nothing validates
    StatusOf,   \* the status a "patch" request writes
    Owner,      \* Order.userId
    Amount,     \* Order.finalAmount, below 0 when a discount exceeds the total
    Qty,        \* Qty[o][v]: OrderItem.quantity, 0 when v is not in order o
    Stock0,     \* the initial ProductVariant.stockQuantity
    Balance0,   \* the initial UserBalance.balance, 0 without a row
    Account0,   \* the users that have a UserBalance row at the start
    Order0      \* the initial Order.status

\* pay    = PaymentRepositoryPrisma.processPayment
\* cancel = PaymentRepositoryPrisma.cancelPayment
\* charge = BalanceRepositoryPrisma.chargeBalance without a transaction
\* patch  = OrderService.updateOrderStatus
Kinds == {"pay", "cancel", "charge", "patch"}

OrderStatus == {"PENDING", "PAID", "SHIPPING", "DELIVERED", "CANCELLED"}

\* PaymentStatus, with "NONE" for a row that does not exist.  No code writes
\* PaymentStatus.PENDING.
PaymentStatus == {"NONE", "COMPLETED", "CANCELLED"}

\* chargeBalance writes REFUND for a top-up as well as for a refund; no
\* repository writes CHARGE.
EntryType == {"USE", "REFUND"}

Entries == [type : EntryType, amount : Int, after : Int]

\* The variants an order has a line for.
Lines(o) == {v \in Variants : Qty[o][v] > 0}

ASSUME RequestAssumption ==
    /\ Kind \in [Requests -> Kinds]
    /\ Caller \in [Requests -> Users]
    /\ OrderOf \in [Requests -> Orders]
    /\ PaymentOf \in [Requests -> Requests]
    /\ ChargeOf \in [Requests -> Int]
    /\ StatusOf \in [Requests -> OrderStatus]
    /\ None \notin Requests
    /\ None \notin Variants

\* A payment is created by a "pay" request, for the order of that request.
ASSUME PaymentAssumption ==
    \A r \in Requests :
        Kind[r] = "cancel" => /\ Kind[PaymentOf[r]] = "pay"
                              /\ OrderOf[PaymentOf[r]] = OrderOf[r]

ASSUME RowAssumption ==
    /\ Owner \in [Orders -> Users]
    /\ Amount \in [Orders -> Int]
    /\ Qty \in [Orders -> [Variants -> Nat]]
    /\ Stock0 \in [Variants -> Nat]
    /\ Balance0 \in [Users -> Nat]
    /\ Account0 \subseteq Users
    /\ \A u \in Users \ Account0 : Balance0[u] = 0
    /\ Order0 \in [Orders -> OrderStatus]
=============================================================================
