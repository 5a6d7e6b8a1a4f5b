-------------------------- MODULE PaymentsInvariant --------------------------
(***************************************************************************)
(* Why Payments is correct: the inductive invariant its proofs rest on.    *)
(* Each part says what one lock or one place in the handler guarantees.    *)
(***************************************************************************)
EXTENDS Payments

\* The labels at which the handler is inside the transaction callback.
Working == {"read", "items", "product", "stock", "money", "insert", "record", "commit"}

\* The two handlers that hold an outer key.
Keyed(r) == Kind[r] \in {"pay", "cancel"}

\* The handler's own variables agree with the place it has reached.
Control ==
    \A r \in Requests :
        /\ pc[r] \in Working <=> tx[r] # "none"
        /\ outcome[r] # "none" => pc[r] \in {"unlock", "done", "crashed"}
        /\ pc[r] \notin {"start", "done", "crashed"} => Kind[r] # "patch"
        /\ pc[r] \in {"read", "items", "product", "stock", "record", "unlock"} => Keyed(r)
        /\ pc[r] = "insert" => Kind[r] # "pay"
        /\ todo[r] \subseteq Lines(OrderOf[r])
        /\ pc[r] \in {"start", "begin", "read", "money", "insert", "record", "commit"}
              => todo[r] = {}
        /\ pc[r] = "items" => todo[r] = Lines(OrderOf[r])
        /\ pc[r] = "stock" => cur[r] \in todo[r]

\* The outer key is held from before the transaction to its end: no lease runs
\* out and no one else releases it.
KeyHeld ==
    \A r \in Requests :
        Keyed(r) /\ (pc[r] = "begin" \/ tx[r] = "open") => lock[OuterKey(r)] = r

\* Row locks are held by open transactions, and an exclusive one by one alone.
RowLocks ==
    \A w \in Rows :
        /\ excl[w] # None => shared[w] \subseteq {excl[w]} /\ tx[excl[w]] = "open"
        /\ \A r \in shared[w] : tx[r] = "open"

\* What a request has been accepted on is still so when it commits: the order by
\* its shared row lock, the payment by the payment key alone.
HasRead(r) == Keyed(r) /\ tx[r] = "open" /\ pc[r] # "read"

Accepted ==
    \A r \in Requests :
        HasRead(r) => /\ Ready(r)
                      /\ Kind[r] = "pay" => r \in shared[Row("order", OrderOf[r])]

\* The lines the item loop of r is through with.
Handled(r) ==
    {v \in Lines(OrderOf[r]) : /\ HasRead(r)
                               /\ pc[r] # "items"
                               /\ v \notin todo[r]}

\* A request has written the stock of exactly these, once each, and no draft is
\* below zero.
StockDrafts ==
    \A v \in Variants :
        LET holder == excl[Row("stock", v)]
        IN  /\ stock[v] >= 0
            /\ holder = None => stockDraft[v] = stock[v]
            /\ holder # None => /\ v \in Handled(holder)
                                /\ stockDraft[v] = stock[v] + StockMove(holder, v)
                                /\ stockDraft[v] >= 0
            /\ \A r \in Requests : v \in Handled(r) => holder = r

\* A balance that is written carries exactly one booking, that of its holder.
Booked(r) == tx[r] = "open" /\ pc[r] \in {"record", "commit"}
Booking(r) == IF Kind[r] = "pay" THEN -Amount[OrderOf[r]] ELSE CreditAmount(r)

BalanceDrafts ==
    \A u \in Users :
        LET holder == excl[Row("balance", u)]
        IN  /\ balance[u] >= 0 \/ Withdrew(u)
            /\ holder = None => balanceDraft[u] = balance[u]
            /\ holder # None => /\ Booked(holder) /\ u = Caller[holder]
                                /\ balanceDraft[u] = balance[u] + Booking(holder)
                                /\ Kind[holder] = "pay" => u \in account /\ balanceDraft[u] >= 0
            /\ \A r \in Requests : Booked(r) /\ u = Caller[r] => holder = r

\* Before it commits, a payment or a refund has the order row to itself.
OrderOwned ==
    \A r \in Requests :
        Keyed(r) /\ tx[r] = "open" /\ pc[r] = "commit" => Owns(r, "order", OrderOf[r])

\* The invariant behind the theorems: at every moment the locks a request holds
\* cover what it has read and what it has drafted.
LocksCover ==
    /\ TypeOK /\ Control /\ KeyHeld /\ RowLocks
    /\ Accepted /\ StockDrafts /\ BalanceDrafts /\ OrderOwned
=============================================================================
