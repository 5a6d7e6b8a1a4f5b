------------------------------ MODULE Payments ------------------------------
(***************************************************************************)
(* processPayment, cancelPayment, chargeBalance and updateOrderStatus as   *)
(* the repositories run them: Redlock keys in Redis around and inside a    *)
(* SERIALIZABLE MySQL transaction, whose reads and writes take row locks   *)
(* that are kept until it ends.  Every step that can block, fail, or be    *)
(* interleaved with another request is an action of its own.               *)
(*                                                                         *)
(* A row has its committed value and a draft, the value the transaction    *)
(* that holds its exclusive lock has written; commit copies the draft to   *)
(* the row, rollback copies the row to the draft.                          *)
(*                                                                         *)
(* A definition named like the one below it with a suffix                  *)
(* (OuterKeyPerCall above OuterKey) is a faulty variant of it, a slip      *)
(* the code could have had: no action uses it, and put in the              *)
(* definition's place it makes a property of this module fail.             *)
(***************************************************************************)
EXTENDS ShopData, Sequences

CONSTANT Crashable  \* the requests whose instance may die while serving them

VARIABLES
    pc,            \* where each request is in its handler
    todo,          \* the variants a request's item loop has yet to handle
    cur,           \* the variant the loop is at, None outside the loop
    tx,            \* "none", "open", or "dead": rolled back by the database
    lock,          \* Redlock: the request that holds each key, or None
    shared,        \* InnoDB: the requests with a shared lock on each row
    excl,          \* InnoDB: the request with the exclusive lock, or None
    stock,         \* ProductVariant.stockQuantity, committed
    stockDraft,    \*   and as written by the holder of the row
    balance,       \* UserBalance.balance, committed
    balanceDraft,  \*   and as written by the holder of the row
    account,       \* the users that have a UserBalance row
    orderStatus,   \* Order.status
    payStatus,     \* Payment.status of the payment a request creates
    history,       \* the BalanceHistory rows of each user, oldest first
    outcome        \* what the request came to: "none", "ok" or "error"

control == <<pc, todo, cur, tx>>
locks == <<shared, excl>>
drafts == <<stockDraft, balanceDraft>>
rows == <<stock, balance, account, orderStatus, payStatus, history>>
vars == <<control, lock, locks, drafts, rows, outcome>>

-----------------------------------------------------------------------------
(* Types *)

Key(name, id) == <<name, id>>
Keys == ({"order"} \X Orders) \cup ({"payment"} \X Requests)
            \cup ({"product"} \X Variants) \cup ({"balance"} \X Users)

Row(table, id) == <<table, id>>
Rows == ({"order"} \X Orders) \cup ({"stock"} \X Variants) \cup ({"balance"} \X Users)

Labels == {"start", "begin", "read", "items", "product", "stock", "balance",
           "money", "insert", "record", "commit", "unlock", "done", "crashed"}

TypeOK ==
    /\ pc \in [Requests -> Labels]
    /\ todo \in [Requests -> SUBSET Variants]
    /\ cur \in [Requests -> Variants \cup {None}]
    /\ tx \in [Requests -> {"none", "open", "dead"}]
    /\ lock \in [Keys -> Requests \cup {None}]
    /\ shared \in [Rows -> SUBSET Requests]
    /\ excl \in [Rows -> Requests \cup {None}]
    /\ stock \in [Variants -> Int]
    /\ stockDraft \in [Variants -> Int]
    /\ balance \in [Users -> Int]
    /\ balanceDraft \in [Users -> Int]
    /\ account \subseteq Users
    /\ orderStatus \in [Orders -> OrderStatus]
    /\ payStatus \in [Requests -> PaymentStatus]
    /\ history \in [Users -> Seq(Entries)]
    /\ outcome \in [Requests -> {"none", "ok", "error"}]

Init ==
    /\ pc = [r \in Requests |-> "start"]
    /\ todo = [r \in Requests |-> {}]
    /\ cur = [r \in Requests |-> None]
    /\ tx = [r \in Requests |-> "none"]
    /\ lock = [k \in Keys |-> None]
    /\ shared = [w \in Rows |-> {}]
    /\ excl = [w \in Rows |-> None]
    /\ stock = Stock0
    /\ stockDraft = Stock0
    /\ balance = Balance0
    /\ balanceDraft = Balance0
    /\ account = Account0
    /\ orderStatus = Order0
    /\ payStatus = [r \in Requests |-> "NONE"]
    /\ history = [u \in Users |-> <<>>]
    /\ outcome = [r \in Requests |-> "none"]

-----------------------------------------------------------------------------
(* The lock services.  Redlock keeps one holder per key.  InnoDB keeps       *)
(* shared and exclusive row locks; the plain reads of a SERIALIZABLE         *)
(* transaction take shared ones.                                            *)

OuterKeyPerCall(r) == IF Kind[r] = "pay" THEN Key("order", OrderOf[r]) ELSE Key("payment", r)
OuterKey(r) == IF Kind[r] = "pay" THEN Key("order", OrderOf[r])
                                  ELSE Key("payment", PaymentOf[r])

Acquire(r, k) ==
    /\ lock[k] = None
    /\ lock' = [lock EXCEPT ![k] = r]

\* Releasing a key never fails for the caller: releaseLock swallows the error,
\* and then the key stays taken until its lease runs out.
Release(r, k) ==
    \/ lock' = [lock EXCEPT ![k] = IF @ = r THEN None ELSE @]
    \/ lock[k] = r /\ lock' = lock

CanShareAlways(r, w) == r \in Requests /\ w \in Rows
CanShare(r, w) == excl[w] \in {None, r}
CanOwn(r, w) == CanShare(r, w) /\ shared[w] \subseteq {r}

Share(r, w) ==
    /\ CanShare(r, w)
    /\ shared' = [shared EXCEPT ![w] = @ \cup {r}]
    /\ UNCHANGED excl

Own(r, w) ==
    /\ CanOwn(r, w)
    /\ excl' = [excl EXCEPT ![w] = r]
    /\ UNCHANGED shared

\* All row locks of r go when its transaction ends.
FreeRows(r) ==
    /\ shared' = [w \in Rows |-> shared[w] \ {r}]
    /\ excl' = [w \in Rows |-> IF excl[w] = r THEN None ELSE excl[w]]

Owns(r, table, id) == excl[Row(table, id)] = r

RollbackLocksOnly(r) == FreeRows(r) /\ UNCHANGED drafts
Rollback(r) ==
    /\ FreeRows(r)
    /\ stockDraft' = [v \in Variants |->
                        IF Owns(r, "stock", v) THEN stock[v] ELSE stockDraft[v]]
    /\ balanceDraft' = [u \in Users |->
                          IF Owns(r, "balance", u) THEN balance[u] ELSE balanceDraft[u]]

Goto(r, label) == pc' = [pc EXCEPT ![r] = label]

\* r is inside its transaction and the next thing it does is query l.
InTx(r, label) == pc[r] = label /\ tx[r] = "open"

-----------------------------------------------------------------------------
(* Entering the handler *)

\* redisRedlock.acquireLock(`order:...`) or (`payment:...`), before the
\* transaction.  A top-up starts its transaction at once.
TakeOuterLock(r) ==
    /\ pc[r] = "start"
    /\ Kind[r] \in {"pay", "cancel"}
    /\ Acquire(r, OuterKey(r))
    /\ Goto(r, "begin")
    /\ UNCHANGED <<todo, cur, tx, locks, drafts, rows, outcome>>

StartCharge(r) ==
    /\ pc[r] = "start"
    /\ Kind[r] = "charge"
    /\ Goto(r, "begin")
    /\ UNCHANGED <<todo, cur, tx, lock, locks, drafts, rows, outcome>>

\* The outer lock cannot be had: retries used up, or no quorum of Redis
\* clients.  Nothing has been done and the caller gets the error.
RefuseOuterLock(r) ==
    /\ pc[r] = "start"
    /\ Kind[r] \in {"pay", "cancel"}
    /\ Goto(r, "done")
    /\ outcome' = [outcome EXCEPT ![r] = "error"]
    /\ UNCHANGED <<todo, cur, tx, lock, locks, drafts, rows>>

Begin(r) ==
    /\ pc[r] = "begin"
    /\ tx' = [tx EXCEPT ![r] = "open"]
    /\ Goto(r, IF Kind[r] = "charge" THEN "money" ELSE "read")
    /\ UNCHANGED <<todo, cur, lock, locks, drafts, rows, outcome>>

-----------------------------------------------------------------------------
(* Inside the transaction *)

\* processPayment's guard: an order that is PAID or CANCELLED is refused.
PayableWhenPaid(status) == status # "CANCELLED"
PayableWhenCancelled(status) == status # "PAID"
Payable(status) == status \notin {"PAID", "CANCELLED"}

ReadyAnyStatus(r) ==
    IF Kind[r] = "pay"
    THEN Owner[OrderOf[r]] = Caller[r] /\ Payable(orderStatus[OrderOf[r]])
    ELSE Caller[PaymentOf[r]] = Caller[r] /\ payStatus[PaymentOf[r]] # "NONE"
Ready(r) ==
    IF Kind[r] = "pay"
    THEN Owner[OrderOf[r]] = Caller[r] /\ Payable(orderStatus[OrderOf[r]])
    ELSE Caller[PaymentOf[r]] = Caller[r] /\ payStatus[PaymentOf[r]] = "COMPLETED"

\* The first read.  processPayment reads the order inside the transaction and
\* so locks it; cancelPayment reads the payment through the root client,
\* outside the transaction, and locks nothing.
ReadRequest(r) ==
    /\ InTx(r, "read")
    /\ Ready(r)
    /\ IF Kind[r] = "pay" THEN Share(r, Row("order", OrderOf[r])) ELSE UNCHANGED locks
    /\ todo' = [todo EXCEPT ![r] = Lines(OrderOf[r])]
    /\ Goto(r, "items")
    /\ UNCHANGED <<cur, tx, lock, drafts, rows, outcome>>

\* orderItem.findMany with include: { productVariant: true } reads, and so
\* locks, one variant row after the other.
Unread(r) == {v \in todo[r] : r \notin shared[Row("stock", v)]}

ReadItem(r, v) ==
    /\ InTx(r, "items")
    /\ v \in Unread(r)
    /\ Share(r, Row("stock", v))
    /\ UNCHANGED <<control, lock, drafts, rows, outcome>>

ItemsRead(r) ==
    /\ InTx(r, "items")
    /\ Unread(r) = {}
    /\ Goto(r, "product")
    /\ UNCHANGED <<todo, cur, tx, lock, locks, drafts, rows, outcome>>

\* The head of the item loop: acquireLock(`product:...`).  findMany has no
\* orderBy, so the lines come in any order.  A dead transaction is not
\* noticed here: no query is made.
TakeProductLock(r, v) ==
    /\ pc[r] = "product"
    /\ v \in todo[r]
    /\ Acquire(r, Key("product", v))
    /\ cur' = [cur EXCEPT ![r] = v]
    /\ Goto(r, "stock")
    /\ UNCHANGED <<todo, tx, locks, drafts, rows, outcome>>

\* processPayment's stock check, on the value its own transaction sees.
InStockAnyQty(r, v) == Kind[r] = "pay" => stockDraft[v] >= 0
InStock(r, v) == stockDraft[v] >= Qty[OrderOf[r]][v]

StockMove(r, v) == IF Kind[r] = "pay" THEN -Qty[OrderOf[r]][v] ELSE Qty[OrderOf[r]][v]

\* The body of the loop: check (processPayment only), decrement or increment,
\* and release the product lock, long before the transaction commits.
MoveStock(r) ==
    LET v == cur[r]
    IN  /\ InTx(r, "stock")
        /\ Kind[r] = "pay" => InStock(r, v)
        /\ Own(r, Row("stock", v))
        /\ stockDraft' = [stockDraft EXCEPT ![v] = @ + StockMove(r, v)]
        /\ todo' = [todo EXCEPT ![r] = @ \ {v}]
        /\ cur' = [cur EXCEPT ![r] = None]
        /\ Release(r, Key("product", v))
        /\ Goto(r, "product")
        /\ UNCHANGED <<tx, balanceDraft, rows, outcome>>

TakeBalanceLock(r) ==
    /\ pc[r] = "product"
    /\ todo[r] = {}
    /\ Acquire(r, Key("balance", Caller[r]))
    /\ Goto(r, "money")
    /\ UNCHANGED <<todo, cur, tx, locks, drafts, rows, outcome>>

\* deductBalance: SELECT ... FOR UPDATE, the checks, the decrement and the
\* USE line of the history; then the balance lock is released.
CanAffordAny(r) == Caller[r] \in account
CanAfford(r) ==
    LET u == Caller[r] IN u \in account /\ balanceDraft[u] >= Amount[OrderOf[r]]

Deduct(r) ==
    LET u == Caller[r]
    IN  /\ InTx(r, "money")
        /\ Kind[r] = "pay"
        /\ CanAfford(r)
        /\ Own(r, Row("balance", u))
        /\ balanceDraft' = [balanceDraft EXCEPT ![u] = @ - Amount[OrderOf[r]]]
        /\ Release(r, Key("balance", u))
        /\ Goto(r, "record")
        /\ UNCHANGED <<todo, cur, tx, stockDraft, rows, outcome>>

\* chargeBalanceWithTx, called by a refund under the balance lock and by a
\* top-up without it.
CreditAmount(r) == IF Kind[r] = "charge" THEN ChargeOf[r] ELSE Amount[OrderOf[r]]

\* The rest of chargeBalanceWithTx once it may write the row.
WriteCredit(r) ==
    LET u == Caller[r]
    IN  /\ Own(r, Row("balance", u))
        /\ balanceDraft' = [balanceDraft EXCEPT ![u] = @ + CreditAmount(r)]
        /\ IF Kind[r] = "charge" THEN lock' = lock ELSE Release(r, Key("balance", u))
        /\ Goto(r, IF Kind[r] = "charge" THEN "commit" ELSE "record")
        /\ UNCHANGED <<todo, cur, tx, stockDraft, rows, outcome>>

\* FOR UPDATE finds the row and locks it.
CreditRow(r) ==
    /\ InTx(r, "money")
    /\ Kind[r] # "pay"
    /\ Caller[r] \in account
    /\ WriteCredit(r)

\* FOR UPDATE finds no row: InnoDB locks the gap, and gap locks do not exclude
\* one another.
CreditGap(r) ==
    /\ InTx(r, "money")
    /\ Kind[r] # "pay"
    /\ Caller[r] \notin account
    /\ Share(r, Row("balance", Caller[r]))
    /\ Goto(r, "insert")
    /\ UNCHANGED <<todo, cur, tx, lock, drafts, rows, outcome>>

\* The insert has to wait for every other lock on the gap.
CreditInsert(r) ==
    /\ InTx(r, "insert")
    /\ WriteCredit(r)

\* The payment row is written, new or cancelled, and the order's status
\* with it.  Only the order row can be locked by someone else.
Record(r) ==
    /\ InTx(r, "record")
    /\ Own(r, Row("order", OrderOf[r]))
    /\ Goto(r, "commit")
    /\ UNCHANGED <<todo, cur, tx, lock, drafts, rows, outcome>>

-----------------------------------------------------------------------------
(* The end of the transaction and of the handler *)

AfterTx(r) == IF Kind[r] = "charge" THEN "done" ELSE "unlock"

\* The line createBalanceHistory has written for r, with the balance read back
\* from the update.
NewEntry(r) ==
    [type |-> IF Kind[r] = "pay" THEN "USE" ELSE "REFUND",
     amount |-> IF Kind[r] = "pay" THEN Amount[OrderOf[r]] ELSE CreditAmount(r),
     after |-> balanceDraft[Caller[r]]]

\* The two rows of Record as they become visible.
WriteStatusPending(r) ==
    /\ payStatus' = [payStatus EXCEPT ![r] = "PENDING"]
    /\ UNCHANGED orderStatus
WriteStatus(r) ==
    \/ /\ Kind[r] = "pay"
       /\ payStatus' = [payStatus EXCEPT ![r] = "COMPLETED"]
       /\ orderStatus' = [orderStatus EXCEPT ![OrderOf[r]] = "PAID"]
    \/ /\ Kind[r] = "cancel"
       /\ payStatus' = [payStatus EXCEPT ![PaymentOf[r]] = "CANCELLED"]
       /\ orderStatus' = [orderStatus EXCEPT ![OrderOf[r]] = "CANCELLED"]
    \/ Kind[r] = "charge" /\ UNCHANGED <<payStatus, orderStatus>>

Commit(r) ==
    LET u == Caller[r]
    IN  /\ InTx(r, "commit")
        /\ stock' = [v \in Variants |-> IF Owns(r, "stock", v) THEN stockDraft[v] ELSE stock[v]]
        /\ balance' = [balance EXCEPT ![u] = balanceDraft[u]]
        /\ account' = account \cup {u}
        /\ history' = [history EXCEPT ![u] = Append(@, NewEntry(r))]
        /\ WriteStatus(r)
        /\ FreeRows(r)
        /\ tx' = [tx EXCEPT ![r] = "none"]
        /\ outcome' = [outcome EXCEPT ![r] = "ok"]
        /\ Goto(r, AfterTx(r))
        /\ UNCHANGED <<todo, cur, lock, drafts>>

\* The inner finally blocks.
ReleaseInner(r) ==
    LET InBalance == Kind[r] # "charge" /\ pc[r] \in {"money", "insert"}
    IN  \/ pc[r] = "stock" /\ Release(r, Key("product", cur[r]))
        \/ InBalance /\ Release(r, Key("balance", Caller[r]))
        \/ pc[r] # "stock" /\ ~InBalance /\ lock' = lock

\* An exception leaves the callback: the inner finally releases the inner lock,
\* the transaction rolls back, and the outer finally is next.
Throw(r) ==
    /\ ReleaseInner(r)
    /\ Rollback(r)
    /\ tx' = [tx EXCEPT ![r] = "none"]
    /\ outcome' = [outcome EXCEPT ![r] = "error"]
    /\ todo' = [todo EXCEPT ![r] = {}]
    /\ cur' = [cur EXCEPT ![r] = None]
    /\ Goto(r, AfterTx(r))
    /\ UNCHANGED rows

\* The business refusals: not the caller's, already paid or cancelled, not a
\* completed payment; then out of stock; then no balance row or too little.
\* A locking read first has to get its lock.
Refused(r) ==
    \/ /\ pc[r] = "read"
       /\ Kind[r] = "pay" => CanShare(r, Row("order", OrderOf[r]))
       /\ ~Ready(r)
    \/ pc[r] = "stock" /\ Kind[r] = "pay" /\ ~InStock(r, cur[r])
    \/ /\ pc[r] = "money" /\ Kind[r] = "pay"
       /\ CanOwn(r, Row("balance", Caller[r]))
       /\ ~CanAfford(r)

Refuse(r) ==
    /\ tx[r] = "open"
    /\ Refused(r)
    /\ Throw(r)

\* acquireLock inside the transaction throws: retries used up, or no quorum.
RefuseInnerLock(r) ==
    /\ pc[r] = "product"
    /\ Throw(r)

\* Prisma cannot open the transaction within maxWait.
RefuseBegin(r) ==
    /\ pc[r] = "begin"
    /\ outcome' = [outcome EXCEPT ![r] = "error"]
    /\ Goto(r, AfterTx(r))
    /\ UNCHANGED <<todo, cur, tx, lock, locks, drafts, rows>>

\* The database side ends the transaction: Prisma's timeout, a lock wait
\* timeout, or the victim of a deadlock.  The handler does not know yet.
TxDiesBetweenQueries(r) ==
    /\ tx[r] = "open"
    /\ pc[r] = "product"
    /\ tx' = [tx EXCEPT ![r] = "dead"]
    /\ Rollback(r)
    /\ UNCHANGED <<pc, todo, cur, lock, rows, outcome>>
TxDies(r) ==
    /\ tx[r] = "open"
    /\ tx' = [tx EXCEPT ![r] = "dead"]
    /\ Rollback(r)
    /\ UNCHANGED <<pc, todo, cur, lock, rows, outcome>>

\* The next query of a dead transaction throws.
NoticeDeath(r) ==
    /\ tx[r] = "dead"
    /\ pc[r] # "product"
    /\ Throw(r)

Unlock(r) ==
    /\ pc[r] = "unlock"
    /\ Release(r, OuterKey(r))
    /\ Goto(r, "done")
    /\ UNCHANGED <<todo, cur, tx, locks, drafts, rows, outcome>>

\* updateOrderStatus: one autocommitted update of any status to any other; it
\* waits for the row locks of a payment in progress.
Patch(r) ==
    /\ pc[r] = "start"
    /\ Kind[r] = "patch"
    /\ CanOwn(r, Row("order", OrderOf[r]))
    /\ orderStatus' = [orderStatus EXCEPT ![OrderOf[r]] = StatusOf[r]]
    /\ outcome' = [outcome EXCEPT ![r] = "ok"]
    /\ Goto(r, "done")
    /\ UNCHANGED <<todo, cur, tx, lock, locks, drafts,
                   stock, balance, account, payStatus, history>>

-----------------------------------------------------------------------------
(* Crashes and leases *)

Running(r) == pc[r] \notin {"start", "done", "crashed"}

\* The instance serving r dies.  MySQL rolls back; Redis knows nothing.
Crash(r) ==
    /\ r \in Crashable
    /\ Running(r)
    /\ Goto(r, "crashed")
    /\ tx' = [tx EXCEPT ![r] = "none"]
    /\ Rollback(r)
    /\ UNCHANGED <<todo, cur, lock, rows, outcome>>

\* A lease lasts 30 s.  A request gets its transaction within 2 s of taking the
\* outer lock (Prisma's maxWait) and the transaction lasts at most 5 s, so a
\* lease can run out only when its holder's transaction is over.
LeaseOverEarly(r) == TRUE
LeaseOverIfAlive(r) == tx[r] # "open" /\ pc[r] \notin {"begin", "crashed"}
LeaseOver(r) == tx[r] # "open" /\ pc[r] # "begin"

LeaseExpires(k) ==
    /\ lock[k] # None
    /\ LeaseOver(lock[k])
    /\ lock' = [lock EXCEPT ![k] = None]
    /\ UNCHANGED <<control, locks, drafts, rows, outcome>>

-----------------------------------------------------------------------------
Handle(r) ==
    \/ TakeOuterLock(r) \/ StartCharge(r) \/ RefuseOuterLock(r)
    \/ Begin(r) \/ RefuseBegin(r) \/ ReadRequest(r)
    \/ (\E v \in Variants : ReadItem(r, v)) \/ ItemsRead(r)
    \/ (\E v \in Variants : TakeProductLock(r, v)) \/ MoveStock(r)
    \/ TakeBalanceLock(r) \/ RefuseInnerLock(r)
    \/ Deduct(r) \/ CreditRow(r) \/ CreditGap(r) \/ CreditInsert(r)
    \/ Record(r) \/ Commit(r) \/ Refuse(r) \/ TxDies(r) \/ NoticeDeath(r)
    \/ Unlock(r) \/ Patch(r)

\* Every call has been answered or has died with its instance, and no lease is
\* left to run out.
Finished ==
    /\ \A r \in Requests : pc[r] \in {"done", "crashed"}
    /\ \A k \in Keys : lock[k] = None
    /\ UNCHANGED vars

Next ==
    \/ \E r \in Requests : Handle(r) \/ Crash(r)
    \/ \E k \in Keys : LeaseExpires(k)
    \/ Finished

Spec == Init /\ [][Next]_vars

\* Node's event loop and MySQL go on with a request as long as it has a next
\* step, the timeouts of Redlock and Prisma being such steps; Redis drops a key
\* when its lease has run out.
Fairness ==
    /\ \A r \in Requests : WF_vars(Handle(r))
    /\ \A k \in Keys : WF_vars(LeaseExpires(k))

FairSpec == Spec /\ Fairness

-----------------------------------------------------------------------------
(* Properties *)

\* No order is ever charged twice: of the payments made for one order at most
\* one is COMPLETED.  This is what the order lock and the status check of
\* processPayment are for.
OnePaymentPerOrder ==
    \A p, q \in Requests :
        payStatus[p] = "COMPLETED" /\ payStatus[q] = "COMPLETED"
            /\ OrderOf[p] = OrderOf[q] => p = q

\* An order is PAID exactly while it has a completed payment, whatever payments
\* and cancellations are in flight: Payment.status and Order.status change
\* together.  A PATCH of the status may part them.
PaidIffPayment ==
    \A o \in Orders :
        orderStatus[o] = "PAID" <=>
            \E p \in Requests : OrderOf[p] = o /\ payStatus[p] = "COMPLETED"

\* chargeBalance adds what it is given: a top-up of a negative amount, or the
\* refund of an order with a negative price, takes money away unchecked.
Withdrew(u) ==
    \E r \in Requests : /\ outcome[r] = "ok" /\ Caller[r] = u
                        /\ Kind[r] \in {"charge", "cancel"} /\ CreditAmount(r) < 0

\* No sale without stock and no payment without money, with any number of
\* payments checking the same variant or the same balance at once: a balance is
\* below zero only behind such a credit.
NeverNegative ==
    /\ \A v \in Variants : stock[v] >= 0
    /\ \A u \in Users : balance[u] >= 0 \/ Withdrew(u)

\* The balance history of a user is an unbroken account: each line leads from
\* the balance before it to its afterBalance, and the last one to the balance.
Signed(e) == IF e.type = "USE" THEN -e.amount ELSE e.amount
Before(u, i) == IF i = 1 THEN Balance0[u] ELSE history[u][i - 1].after
HistoryChains ==
    \A u \in Users :
        /\ \A i \in 1 .. Len(history[u]) :
              history[u][i].after = Before(u, i) + Signed(history[u][i])
        /\ balance[u] = Before(u, Len(history[u]) + 1)

\* The critical section of the two handlers: transactions of two payments of
\* one order, or of two cancellations of one payment, are never open together,
\* not even when instances die and leases run out.
CriticalSection ==
    \A r, s \in Requests :
        /\ r # s /\ tx[r] = "open" /\ tx[s] = "open"
        /\ Kind[r] \in {"pay", "cancel"} /\ Kind[s] = Kind[r]
        => OuterKey(r) # OuterKey(s)

\* A cancelled payment is never revived and its order never paid again.
CancelIsFinal ==
    [][ /\ \A p \in Requests : payStatus[p] = "CANCELLED" => payStatus'[p] = "CANCELLED"
        /\ \A o \in Orders : orderStatus[o] = "CANCELLED" => orderStatus'[o] = "CANCELLED"
      ]_<<payStatus, orderStatus>>

\* Every call is answered (or dies with its instance): the lock waits of Redlock
\* and InnoDB can wait for one another, and only the timeouts untie them.
EveryRequestEnds == \A r \in Requests : <>(pc[r] \in {"done", "crashed"})

\* No key stays locked for good, whatever instance died and whatever release
\* was lost.
LocksComeBack == <>[](\A k \in Keys : lock[k] = None)

\* The handlers implement the ledger: a request takes effect in its commit (or
\* in its status update), in one step, on the rows as they are at that step.
Ledger == INSTANCE PaymentLedger
            WITH served <- {r \in Requests : outcome[r] = "ok"}

ImplementsLedger == Ledger!LedgerSpec
=============================================================================
