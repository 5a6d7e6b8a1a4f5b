--------------------------- MODULE PaymentAccounts ---------------------------
(***************************************************************************)
(* Sums over the rows of Payments: what was sold and what was paid.        *)
(***************************************************************************)
EXTENDS Payments, Totals

Completed == {p \in Requests : payStatus[p] = "COMPLETED"}
CompletedBy(u) == {p \in Completed : Caller[p] = u}
ChargesOf(u) ==
    {r \in Requests : Kind[r] = "charge" /\ outcome[r] = "ok" /\ Caller[r] = u}

\* What a payment takes of variant v, and what it costs.
Pieces(v) == [p \in Requests |-> Qty[OrderOf[p]][v]]
Price == [p \in Requests |-> Amount[OrderOf[p]]]

Sold(v) == Total(Pieces(v), Completed)
Spent(u) == Total(Price, CompletedBy(u))
Charged(u) == Total(ChargeOf, ChargesOf(u))

\* Nothing is sold twice and nothing is lost: the stock of a variant and what
\* the completed payments took of it add up to the initial stock, through any
\* interleaving of payments, cancellations, rollbacks and crashes.
StockAccounted == \A v \in Variants : stock[v] + Sold(v) = Stock0[v]

\* The same for money: a balance and the completed payments made from it add up
\* to the initial balance and the top-ups that were answered or committed.
MoneyAccounted == \A u \in Users : balance[u] + Spent(u) = Balance0[u] + Charged(u)
=============================================================================
