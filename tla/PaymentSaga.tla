----------------------------- MODULE PaymentSaga -----------------------------
(***************************************************************************)
(* What POST /payment does on top of paying.  The controller emits         *)
(* PAYMENT_INITIATED and pays; the orchestrators answer the event by       *)
(* deducting the amount, paying as well, and refunding when that fails;    *)
(* and every payment, the controller's and the saga's, is followed by a    *)
(* handler that sets the order's status and takes the stock again.         *)
(*                                                                         *)
(* processPayment and the bookings are the steps of PaymentLedger, which   *)
(* Payments implements.  An event that has been emitted and whose          *)
(* handler has not reached its first write is a record in events; the      *)
(* handlers of the in-process emitter run one after the other up to        *)
(* their first await and in any order from there.  Each payment attempt    *)
(* is a request of the ledger.                                             *)
(*                                                                         *)
(* A definition named like the one below it with a suffix                  *)
(* (FailPaymentReopens above FailPayment) is a faulty variant of it: no    *)
(* action uses it, and put in the definition's place it makes a property   *)
(* of this module fail.                                                    *)
(***************************************************************************)
EXTENDS PaymentLedger, Totals

CONSTANTS
    Posts,       \* POST /payment requests
    DirectOf,    \* the payment attempt the controller makes for each
    SagaOf,      \* the attempt its saga makes
    Arrivals,    \* bound: which of them may arrive in one behaviour
    FaultSets    \* a behaviour draws the kinds of faults it has from these

\* record: the transaction that writes the saga's own history line times out
\* refund: chargeBalance fails, or the transaction around it once it is done
\* crash: the instance that serves a request dies, and the events of the
\*        request, which are its memory, die with it
FaultKinds == {"record", "refund", "crash"}

ASSUME SagaAssumption ==
    /\ DirectOf \in [Posts -> Requests]
    /\ SagaOf \in [Posts -> Requests]
    /\ \A p, q \in Posts : /\ DirectOf[p] # SagaOf[q]
                           /\ p # q => DirectOf[p] # DirectOf[q] /\ SagaOf[p] # SagaOf[q]
    /\ \A p \in Posts : /\ Kind[DirectOf[p]] = "pay" /\ Kind[SagaOf[p]] = "pay"
                        /\ OrderOf[DirectOf[p]] = OrderOf[SagaOf[p]]
                        /\ Caller[DirectOf[p]] = Caller[SagaOf[p]]
    /\ Arrivals \subseteq SUBSET Posts
    /\ FaultSets \subseteq SUBSET FaultKinds

VARIABLES
    faults,   \* the kinds of faults this behaviour has
    direct,   \* the controller: "idle", "paying", "paid", "refused" or "dead"
    saga,     \* how far each request's saga is
    after,    \* the balance its last booking has returned
    events,   \* the events whose handlers have not written yet
    updates   \* stock handlers between their read and their write

sagaVars == <<faults, direct, saga, after, events, updates>>
vars == <<ledgerVars, sagaVars>>

Order(p) == OrderOf[DirectOf[p]]
User(p) == Caller[DirectOf[p]]

\* PAYMENT_COMPLETED, PAYMENT_FAILED and PRODUCT_STOCK_UPDATED; the other events
\* of a saga come one at a time and are its state.
Completed(p, r) == [type |-> "completed", post |-> p, by |-> r, variant |-> None]
Failed(p) == [type |-> "failed", post |-> p, by |-> SagaOf[p], variant |-> None]
StockUpdated(p, r, v) == [type |-> "stock", post |-> p, by |-> r, variant |-> v]

StockEvents == [type : {"stock"}, post : Posts, by : Requests, variant : Variants]
Events ==
    [type : {"completed", "failed"}, post : Posts, by : Requests, variant : {None}]
        \cup StockEvents

SagaStates == {"idle", "initiated", "deduct", "record", "pay", "paid", "refund",
               "rerecord", "refunded", "failed", "lost", "unrefunded", "dead"}

\* The balance orchestrator writes CHARGE lines, which the repository does not.
SagaEntries == [type : EntryType \cup {"CHARGE"}, amount : Int, after : Int]

TypeOK ==
    /\ stock \in [Variants -> Int]
    /\ balance \in [Users -> Int]
    /\ account \subseteq Users
    /\ orderStatus \in [Orders -> OrderStatus]
    /\ payStatus \in [Requests -> PaymentStatus]
    /\ history \in [Users -> Seq(SagaEntries)]
    /\ served \subseteq Requests
    /\ faults \in FaultSets
    /\ direct \in [Posts -> {"idle", "paying", "paid", "refused", "dead"}]
    /\ saga \in [Posts -> SagaStates]
    /\ after \in [Posts -> Int]
    /\ events \subseteq Events
    /\ updates \subseteq [event : StockEvents, seen : Nat]

Init ==
    /\ LedgerInit
    /\ faults \in FaultSets
    /\ direct = [p \in Posts |-> "idle"]
    /\ saga = [p \in Posts |-> "idle"]
    /\ after = [p \in Posts |-> 0]
    /\ events = {}
    /\ updates = {}

-----------------------------------------------------------------------------
(* The controller *)

\* processPayment takes effect for attempt r.
Attempt(r) ==
    /\ r \notin served
    /\ served' = served \cup {r}
    /\ Pay(r)

\* A request arrives: PAYMENT_INITIATED is out and processPayment is called.
Arrived == {p \in Posts : direct[p] # "idle"}

Request(p) ==
    /\ direct[p] = "idle"
    /\ \E A \in Arrivals : Arrived \cup {p} \subseteq A
    /\ direct' = [direct EXCEPT ![p] = "paying"]
    /\ saga' = [saga EXCEPT ![p] = "initiated"]
    /\ UNCHANGED <<ledgerVars, faults, after, events, updates>>

DirectPays(p) ==
    /\ direct[p] = "paying"
    /\ Attempt(DirectOf[p])
    /\ direct' = [direct EXCEPT ![p] = "paid"]
    /\ events' = events \cup {Completed(p, DirectOf[p])}
    /\ UNCHANGED <<faults, saga, after, updates>>

\* processPayment throws: refused, or one of its locks or its transaction timed
\* out.
DirectRefused(p) ==
    /\ direct[p] = "paying"
    /\ direct' = [direct EXCEPT ![p] = "refused"]
    /\ UNCHANGED <<ledgerVars, faults, saga, after, events, updates>>

-----------------------------------------------------------------------------
(* The payment and balance orchestrators *)

Become(p, state) == saga' = [saga EXCEPT ![p] = state]

\* handlePaymentInitiation reads the order, or fails to.
Initiate(p) ==
    /\ saga[p] = "initiated"
    /\ \/ Become(p, "deduct") /\ UNCHANGED events
       \/ Become(p, "failed") /\ events' = events \cup {Failed(p)}
    /\ UNCHANGED <<ledgerVars, faults, direct, after, updates>>

\* handleBalanceDeduction: deductBalance commits in a transaction of its own.
Deduct(p) ==
    LET u == User(p)
        b == balance[u] - Amount[Order(p)]
    IN  /\ saga[p] = "deduct"
        /\ u \in account /\ b >= 0
        /\ Book(u, b, "USE", Amount[Order(p)])
        /\ after' = [after EXCEPT ![p] = b]
        /\ Become(p, "record")
        /\ UNCHANGED <<stock, account, orderStatus, payStatus, served, faults, direct,
                       events, updates>>

RefuseDeductionRefunds(p) ==
    /\ saga[p] = "deduct"
    /\ Become(p, "refund")
    /\ events' = events \cup {Failed(p)}
    /\ UNCHANGED <<ledgerVars, faults, direct, after, updates>>
RefuseDeduction(p) ==
    /\ saga[p] = "deduct"
    /\ Become(p, "failed")
    /\ events' = events \cup {Failed(p)}
    /\ UNCHANGED <<ledgerVars, faults, direct, after, updates>>

\* A history line of the orchestrator's own, the second one of a booking.
Line(p, type) ==
    /\ history' = [history EXCEPT ![User(p)] =
                     Append(@, Entry(type, Amount[Order(p)], after[p]))]
    /\ UNCHANGED <<stock, balance, account, orderStatus, payStatus, served>>

\* The outer transaction writes its line and BALANCE_DEDUCTION_COMPLETED goes
\* out; or it fails, with the deduction already committed.
RecordDeduction(p) ==
    /\ saga[p] = "record"
    /\ \/ Line(p, "USE") /\ Become(p, "pay") /\ UNCHANGED events
       \/ /\ "record" \in faults
          /\ Become(p, "lost")
          /\ events' = events \cup {Failed(p)}
          /\ UNCHANGED ledgerVars
    /\ UNCHANGED <<faults, direct, after, updates>>

\* handleBalanceDeductionComplete pays the order.
SagaPays(p) ==
    /\ saga[p] = "pay"
    /\ Attempt(SagaOf[p])
    /\ Become(p, "paid")
    /\ events' = events \cup {Completed(p, SagaOf[p])}
    /\ UNCHANGED <<faults, direct, after, updates>>

\* It cannot: BALANCE_CHARGE_REQUESTED and PAYMENT_FAILED go out.
SagaRefusedOnly(p) ==
    /\ saga[p] = "pay"
    /\ Become(p, "lost")
    /\ events' = events \cup {Failed(p)}
    /\ UNCHANGED <<ledgerVars, faults, direct, after, updates>>
SagaRefused(p) ==
    /\ saga[p] = "pay"
    /\ Become(p, "refund")
    /\ events' = events \cup {Failed(p)}
    /\ UNCHANGED <<ledgerVars, faults, direct, after, updates>>

\* handleBalanceCharge: chargeBalance commits in a transaction of its own.  When
\* it fails BALANCE_CHARGE_FAILED goes out, and nobody listens.
Refund(p) ==
    LET u == User(p)
    IN  /\ saga[p] = "refund"
        /\ \/ /\ Credit(u, Amount[Order(p)])
              /\ after' = [after EXCEPT ![p] = balance[u] + Amount[Order(p)]]
              /\ Become(p, "rerecord")
              /\ UNCHANGED <<stock, orderStatus, payStatus, served>>
           \/ /\ "refund" \in faults
              /\ Become(p, "unrefunded")
              /\ UNCHANGED <<ledgerVars, after>>
        /\ UNCHANGED <<faults, direct, events, updates>>

\* The outer transaction writes its line, or fails after the refund.
RecordRefund(p) ==
    /\ saga[p] = "rerecord"
    /\ Line(p, "CHARGE") \/ ("refund" \in faults /\ UNCHANGED ledgerVars)
    /\ Become(p, "refunded")
    /\ UNCHANGED <<faults, direct, after, events, updates>>

-----------------------------------------------------------------------------
(* The order and product orchestrators *)

SetStatus(o, status) ==
    /\ orderStatus' = [orderStatus EXCEPT ![o] = status]
    /\ UNCHANGED <<stock, balance, account, payStatus, history, served, faults, direct,
                   saga, after>>

\* handlePaymentCompletion: the order is PAID, whatever it was, and a stock
\* update goes out for each of its lines.
CompletePayment(e) ==
    LET o == Order(e.post)
    IN  /\ e.type = "completed"
        /\ SetStatus(o, "PAID")
        /\ events' = (events \ {e}) \cup {StockUpdated(e.post, e.by, v) : v \in Lines(o)}
        /\ UNCHANGED updates

\* handlePaymentFailure: the order is CANCELLED, whatever it was.
FailPaymentReopens(e) ==
    /\ e.type = "failed"
    /\ SetStatus(Order(e.post), "PENDING")
    /\ events' = events \ {e}
    /\ UNCHANGED updates
FailPayment(e) ==
    /\ e.type = "failed"
    /\ SetStatus(Order(e.post), "CANCELLED")
    /\ events' = events \ {e}
    /\ UNCHANGED updates

\* handleStockUpdate reads the stock without a lock; too little of it ends the
\* handler with PRODUCT_STOCK_UPDATE_FAILED, which nobody listens to.
StockCheck(e) == stock[e.variant] >= Qty[Order(e.post)][e.variant]

ReadStock(e) ==
    /\ e.type = "stock"
    /\ events' = events \ {e}
    /\ updates' = IF StockCheck(e) THEN updates \cup {[event |-> e, seen |-> stock[e.variant]]}
                                   ELSE updates
    /\ UNCHANGED <<ledgerVars, faults, direct, saga, after>>

\* It then writes what it has computed from the stock it read, with a line of the
\* stock history, which nothing reads and which is left out.
WriteStockInPlace(w) ==
    LET v == w.event.variant
    IN  /\ stock' = [stock EXCEPT ![v] = @ - Qty[Order(w.event.post)][v]]
        /\ updates' = updates \ {w}
        /\ UNCHANGED <<balance, account, orderStatus, payStatus, history, served,
                       faults, direct, saga, after, events>>
WriteStock(w) ==
    LET v == w.event.variant
    IN  /\ stock' = [stock EXCEPT ![v] = w.seen - Qty[Order(w.event.post)][v]]
        /\ updates' = updates \ {w}
        /\ UNCHANGED <<balance, account, orderStatus, payStatus, history, served,
                       faults, direct, saga, after, events>>

-----------------------------------------------------------------------------
(* The instance that serves request p dies: no transaction of the request      *)
(* commits any more, and nothing takes its events up again.                    *)

Interrupted(state) ==
    CASE state \in {"initiated", "deduct"}    -> "dead"
      [] state \in {"record", "pay", "refund"} -> "lost"
      [] state = "rerecord"                   -> "refunded"
      [] OTHER                                -> state

Crash(p) ==
    /\ "crash" \in faults
    /\ direct[p] # "idle"
    /\ direct' = [direct EXCEPT ![p] = IF @ = "paying" THEN "dead" ELSE @]
    /\ saga' = [saga EXCEPT ![p] = Interrupted(@)]
    /\ events' = {e \in events : e.post # p}
    /\ updates' = {w \in updates : w.event.post # p}
    /\ UNCHANGED <<ledgerVars, faults, after>>

-----------------------------------------------------------------------------
Controller(p) == DirectPays(p) \/ DirectRefused(p)

Saga(p) ==
    \/ Initiate(p) \/ Deduct(p) \/ RefuseDeduction(p) \/ RecordDeduction(p)
    \/ SagaPays(p) \/ SagaRefused(p) \/ Refund(p) \/ RecordRefund(p)

Handler(e) == CompletePayment(e) \/ FailPayment(e) \/ ReadStock(e)

\* Every request that has arrived is answered and every handler has ended.
Ended == {"paid", "refunded", "failed", "lost", "unrefunded", "dead"}
Quiet ==
    /\ Arrived \in Arrivals
    /\ \A p \in Arrived : direct[p] # "paying" /\ saga[p] \in Ended
    /\ events = {} /\ updates = {}

Next ==
    \/ \E p \in Posts : Request(p) \/ Controller(p) \/ Saga(p) \/ Crash(p)
    \/ \E e \in events : Handler(e)
    \/ \E w \in updates : WriteStock(w)
    \/ Quiet /\ UNCHANGED vars

Spec == Init /\ [][Next]_vars

\* The event loop of an instance that lives goes on with the handlers it has
\* begun.  Nothing is assumed of the controller, which may hang in processPayment,
\* nor of deaths.
FairSpec == Spec /\ \A p \in Posts : WF_vars(Saga(p))

-----------------------------------------------------------------------------
(* Properties *)

\* The saga pays a second time for every request, and its handlers overwrite the
\* order's status freely; yet of all attempts for one order one succeeds.
OnePaymentPerOrder ==
    \A p, q \in Requests :
        payStatus[p] = "COMPLETED" /\ payStatus[q] = "COMPLETED"
            /\ OrderOf[p] = OrderOf[q] => p = q

\* Stock handlers write back what they have read, over payments of other orders
\* in between, and still no stock is ever below zero; a balance is only if a
\* negative price has been given back to it.
PaidToRefund(u) ==
    \E p \in Posts : /\ User(p) = u
                     /\ Amount[Order(p)] < 0
                     /\ saga[p] \in {"rerecord", "refunded"}

NeverNegative ==
    /\ \A v \in Variants : stock[v] >= 0
    /\ \A u \in Users : balance[u] >= 0 \/ PaidToRefund(u)

\* Every amount is somewhere: in the balance, in a completed payment, or with a
\* saga that has deducted it and not given it back.  No refund comes twice or
\* without its deduction.
Holding == {"record", "pay", "paid", "refund", "lost", "unrefunded"}
PaidBy(u) == {r \in Requests : payStatus[r] = "COMPLETED" /\ Caller[r] = u}
HeldFor(u) == {p \in Posts : User(p) = u /\ saga[p] \in Holding}

Price == [r \in Requests |-> Amount[OrderOf[r]]]
Deducted == [p \in Posts |-> Amount[Order(p)]]
Spent(u) == Total(Price, PaidBy(u))
Held(u) == Total(Deducted, HeldFor(u))

MoneyTraceable == \A u \in Users : balance[u] + Spent(u) + Held(u) = Balance0[u]

\* payment.orchestrator.ts: a deduction is refunded when its payment fails.  The
\* chain of events is all there is to do it, so the code keeps this while no
\* instance dies and chargeBalance does not fail.
FailureIsRefunded ==
    \A p \in Posts :
        saga[p] = "pay" /\ faults \cap {"refund", "crash"} = {}
            ~> saga[p] \in {"paid", "refunded"}

\* TODO.md asks that a successful payment takes its amount from the balance.  When
\* all is over, then, a user has paid for the orders that are paid, and no more.
MoneyTakenOnce == Quiet => \A u \in Users : balance[u] + Spent(u) = Balance0[u]
=============================================================================
