---------------------------- MODULE PaymentLedger ----------------------------
(***************************************************************************)
(* What the payment and balance repositories promise: every request takes  *)
(* effect at most once and in one indivisible step, on the rows as they    *)
(* are at that step, or has no effect at all.  There are no locks, no      *)
(* transactions and no failures here; module Payments shows how the code   *)
(* gets this from them.                                                    *)
(***************************************************************************)
EXTENDS ShopData, Sequences

VARIABLES
    stock,        \* ProductVariant.stockQuantity
    balance,      \* UserBalance.balance
    account,      \* the users that have a UserBalance row
    orderStatus,  \* Order.status
    payStatus,    \* Payment.status of the payment a request creates
    history,      \* the BalanceHistory rows of each user, oldest first
    served        \* the requests that have taken effect

rows == <<stock, balance, account, orderStatus, payStatus, history>>
ledgerVars == <<rows, served>>

LedgerTypeOK ==
    /\ stock \in [Variants -> Int]
    /\ balance \in [Users -> Int]
    /\ account \subseteq Users
    /\ orderStatus \in [Orders -> OrderStatus]
    /\ payStatus \in [Requests -> PaymentStatus]
    /\ history \in [Users -> Seq(Entries)]
    /\ served \subseteq Requests

LedgerInit ==
    /\ stock = Stock0
    /\ balance = Balance0
    /\ account = Account0
    /\ orderStatus = Order0
    /\ payStatus = [r \in Requests |-> "NONE"]
    /\ history = [u \in Users |-> <<>>]
    /\ served = {}

\* processPayment refuses an order that is PAID or CANCELLED, and no other.
Payable(status) == status \notin {"PAID", "CANCELLED"}

\* One line of the balance history, with the balance it leads to.
Entry(type, amount, after) == [type |-> type, amount |-> amount, after |-> after]

\* The balance of u moves to b and the move is written down.
Book(u, b, type, amount) ==
    /\ balance' = [balance EXCEPT ![u] = b]
    /\ history' = [history EXCEPT ![u] = Append(@, Entry(type, amount, b))]

\* Money is added to u, in a new balance row if u has none.  Top-ups and refunds
\* are both written down as REFUND.
Credit(u, amount) ==
    /\ account' = account \cup {u}
    /\ Book(u, balance[u] + amount, "REFUND", amount)

\* Request r pays for its order o: the caller owns it, every line is in stock and
\* the caller has the money.
Pay(r) ==
    LET o == OrderOf[r]
        u == Caller[r]
    IN  /\ Kind[r] = "pay"
        /\ Owner[o] = u
        /\ Payable(orderStatus[o])
        /\ \A v \in Variants : stock[v] >= Qty[o][v]
        /\ u \in account
        /\ balance[u] >= Amount[o]
        /\ stock' = [v \in Variants |-> stock[v] - Qty[o][v]]
        /\ Book(u, balance[u] - Amount[o], "USE", Amount[o])
        /\ payStatus' = [payStatus EXCEPT ![r] = "COMPLETED"]
        /\ orderStatus' = [orderStatus EXCEPT ![o] = "PAID"]
        /\ UNCHANGED account

\* Request r takes a completed payment back: stock and money return and the
\* order is cancelled, whatever its status.
Cancel(r) ==
    LET o == OrderOf[r]
        u == Caller[r]
        p == PaymentOf[r]
    IN  /\ Kind[r] = "cancel"
        /\ Caller[p] = u
        /\ payStatus[p] = "COMPLETED"
        /\ stock' = [v \in Variants |-> stock[v] + Qty[o][v]]
        /\ Credit(u, Amount[o])
        /\ payStatus' = [payStatus EXCEPT ![p] = "CANCELLED"]
        /\ orderStatus' = [orderStatus EXCEPT ![o] = "CANCELLED"]

\* Request r adds money to its caller's balance.
Charge(r) ==
    /\ Kind[r] = "charge"
    /\ Credit(Caller[r], ChargeOf[r])
    /\ UNCHANGED <<stock, orderStatus, payStatus>>

\* Request r overwrites an order's status, from any status to any other.
Patch(r) ==
    /\ Kind[r] = "patch"
    /\ orderStatus' = [orderStatus EXCEPT ![OrderOf[r]] = StatusOf[r]]
    /\ UNCHANGED <<stock, balance, account, payStatus, history>>

Serve(r) ==
    /\ r \notin served
    /\ served' = served \cup {r}
    /\ Pay(r) \/ Cancel(r) \/ Charge(r) \/ Patch(r)

LedgerNext == \E r \in Requests : Serve(r)

LedgerSpec == LedgerInit /\ [][LedgerNext]_ledgerVars
=============================================================================
