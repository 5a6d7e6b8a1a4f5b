-------------------------- MODULE PaymentSagaProofs --------------------------
(***************************************************************************)
(* What of the ledger's promises survives the saga, for any number of      *)
(* requests, orders, users and variants.                                   *)
(***************************************************************************)
EXTENDS PaymentSaga, FiniteSetTheorems, TLAPS

\* A stock handler between its read and its write has seen enough for its line.
SeenEnough ==
    \A w \in updates : w.seen >= Qty[Order(w.event.post)][w.event.variant]

\* An order with a completed payment is one that Payable refuses.
PaidIsClosed ==
    \A r \in Requests :
        payStatus[r] = "COMPLETED" => orderStatus[OrderOf[r]] \in {"PAID", "CANCELLED"}

\* A saga begins with its request.
SagaBegins == \A p \in Posts : direct[p] = "idle" => saga[p] = "idle"

SagaInv == TypeOK /\ NeverNegative /\ SeenEnough /\ OnePaymentPerOrder /\ PaidIsClosed

\* The parameters, as the steps use them.
LEMMA Parameters ==
    /\ Qty \in [Orders -> [Variants -> Nat]]
    /\ Amount \in [Orders -> Int]
    /\ OrderOf \in [Requests -> Orders]
    /\ Caller \in [Requests -> Users]
    /\ DirectOf \in [Posts -> Requests]
    /\ SagaOf \in [Posts -> Requests]
    /\ None \notin Variants
    /\ FaultSets \subseteq SUBSET FaultKinds
    /\ \A p \in Posts : Order(p) \in Orders /\ User(p) \in Users
BY RequestAssumption, RowAssumption, SagaAssumption DEF Order, User

LEMMA InvInit == Init => SagaInv
<1> SUFFICES ASSUME Init PROVE SagaInv
  OBVIOUS
<1>1. TypeOK
  BY RequestAssumption, RowAssumption, SagaAssumption
     DEF Init, LedgerInit, TypeOK, PaymentStatus, OrderStatus, SagaEntries, SagaStates
<1>2. NeverNegative
  BY RowAssumption DEF Init, LedgerInit, NeverNegative
<1>3. SeenEnough /\ OnePaymentPerOrder /\ PaidIsClosed
  BY DEF Init, LedgerInit, SeenEnough, OnePaymentPerOrder, PaidIsClosed
<1> QED
  BY <1>1, <1>2, <1>3 DEF SagaInv

\* A booking keeps the types of the balance and its history.
LEMMA BookTypes ==
    ASSUME NEW u \in Users, NEW b \in Int, NEW type \in EntryType, NEW amount \in Int,
           balance \in [Users -> Int], history \in [Users -> Seq(SagaEntries)],
           Book(u, b, type, amount)
    PROVE  balance' \in [Users -> Int] /\ history' \in [Users -> Seq(SagaEntries)]
<1>1. Entry(type, amount, b) \in SagaEntries
  BY DEF Entry, SagaEntries
<1>2. Append(history[u], Entry(type, amount, b)) \in Seq(SagaEntries)
  BY <1>1
<1> QED
  BY <1>2 DEF Book

\* A balance that a negative price was given back to keeps its excuse.
LEMMA RefundStays ==
    ASSUME NEW u \in Users, PaidToRefund(u),
           \A p \in Posts : saga[p] \in {"rerecord", "refunded"}
                              => saga'[p] \in {"rerecord", "refunded"}
    PROVE  PaidToRefund(u)'
BY DEF PaidToRefund, User, Order

\* One attempt: the order was payable, so no completed payment was there before.
LEMMA AttemptKeeps ==
    ASSUME SagaInv, NEW p \in Posts, NEW r \in {DirectOf[p], SagaOf[p]}, Attempt(r),
           \A q \in Posts : saga[q] \in {"rerecord", "refunded"}
                              => saga'[q] \in {"rerecord", "refunded"}
    PROVE  /\ stock' \in [Variants -> Int] /\ balance' \in [Users -> Int]
           /\ account' \subseteq Users /\ orderStatus' \in [Orders -> OrderStatus]
           /\ payStatus' \in [Requests -> PaymentStatus]
           /\ history' \in [Users -> Seq(SagaEntries)] /\ served' \subseteq Requests
           /\ NeverNegative' /\ OnePaymentPerOrder' /\ PaidIsClosed'
<1> DEFINE o == OrderOf[r]
           u == Caller[r]
<1>1. r \in Requests /\ o \in Orders /\ u \in Users
  BY Parameters
<1>2. /\ Amount[o] \in Int
      /\ \A v \in Variants : Qty[o][v] \in Nat
  BY <1>1, Parameters
<1>3. TypeOK /\ NeverNegative /\ OnePaymentPerOrder /\ PaidIsClosed
  BY DEF SagaInv
<1>4. /\ \A v \in Variants : stock[v] >= Qty[o][v]
      /\ stock' = [v \in Variants |-> stock[v] - Qty[o][v]]
      /\ balance[u] >= Amount[o]
      /\ Book(u, balance[u] - Amount[o], "USE", Amount[o])
      /\ Payable(orderStatus[o])
      /\ payStatus' = [payStatus EXCEPT ![r] = "COMPLETED"]
      /\ orderStatus' = [orderStatus EXCEPT ![o] = "PAID"]
      /\ account' = account /\ served' = served \cup {r}
  BY DEF Attempt, Pay
<1>5. balance' \in [Users -> Int] /\ history' \in [Users -> Seq(SagaEntries)]
  <2> DEFINE b == balance[u] - Amount[o]
  <2>1. b \in Int /\ "USE" \in EntryType
    BY <1>1, <1>2, <1>3 DEF TypeOK, EntryType
  <2>2. Book(u, b, "USE", Amount[o])
    BY <1>4
  <2> HIDE DEF b
  <2> QED
    BY <1>1, <1>2, <1>3, <2>1, <2>2, BookTypes DEF TypeOK
<1>6. NeverNegative'
  <2>1. \A v \in Variants : stock'[v] >= 0
    BY <1>2, <1>3, <1>4 DEF TypeOK
  <2>2. balance' = [balance EXCEPT ![u] = balance[u] - Amount[o]]
    BY <1>4 DEF Book
  <2>3. \A x \in Users : balance'[x] >= 0 \/ PaidToRefund(x)'
    BY <1>1, <1>2, <1>3, <1>4, <2>2, RefundStays DEF TypeOK, NeverNegative
  <2> QED
    BY <2>1, <2>3 DEF NeverNegative
<1>7. OnePaymentPerOrder' /\ PaidIsClosed'
  BY <1>1, <1>3, <1>4, Parameters DEF TypeOK, OnePaymentPerOrder, PaidIsClosed, Payable
<1>8. stock' \in [Variants -> Int]
  BY <1>2, <1>3, <1>4 DEF TypeOK
<1> QED
  BY <1>1, <1>3, <1>4, <1>5, <1>6, <1>7, <1>8 DEF TypeOK, PaymentStatus, OrderStatus

\* A step that leaves stock, orders, payments and stock handlers alone.
LEMMA BookingKeeps ==
    ASSUME SagaInv, UNCHANGED <<stock, orderStatus, payStatus, updates>>
    PROVE  SeenEnough' /\ OnePaymentPerOrder' /\ PaidIsClosed'
BY DEF SagaInv, SeenEnough, OnePaymentPerOrder, PaidIsClosed

\* A step that leaves all rows alone.
LEMMA RowsStay ==
    ASSUME SagaInv, UNCHANGED <<ledgerVars, updates>>,
           \A q \in Posts : saga[q] \in {"rerecord", "refunded"}
                              => saga'[q] \in {"rerecord", "refunded"}
    PROVE  NeverNegative' /\ SeenEnough' /\ OnePaymentPerOrder' /\ PaidIsClosed'
BY BookingKeeps, RefundStays DEF SagaInv, NeverNegative, ledgerVars, rows

\* The events a step may add are events.
LEMMA EventTypes ==
    ASSUME NEW p \in Posts
    PROVE  /\ Failed(p) \in Events
           /\ Completed(p, DirectOf[p]) \in Events /\ Completed(p, SagaOf[p]) \in Events
           /\ \A r \in Requests : \A v \in Variants : StockUpdated(p, r, v) \in StockEvents
BY Parameters DEF Failed, Completed, StockUpdated, Events, StockEvents

LEMMA ControllerKeeps ==
    ASSUME SagaInv, SagaBegins, NEW p \in Posts, Request(p) \/ Controller(p)
    PROVE  SagaInv'
<1>1. CASE Request(p)
  <2>1. \A q \in Posts : saga[q] \in {"rerecord", "refunded"} => saga'[q] = saga[q]
    BY <1>1 DEF SagaInv, SagaBegins, TypeOK, Request
  <2> QED BY <1>1, <2>1, RowsStay DEF SagaInv, TypeOK, Request, SagaStates, ledgerVars, rows
<1>2. CASE DirectPays(p)
  <2>1. Attempt(DirectOf[p]) /\ UNCHANGED <<faults, saga, after, updates>>
    BY <1>2 DEF DirectPays
  <2>2. SeenEnough'
    BY <2>1 DEF SagaInv, SeenEnough
  <2>3. direct' \in [Posts -> {"idle", "paying", "paid", "refused", "dead"}] /\ events' \subseteq Events
    BY <1>2, EventTypes DEF DirectPays, SagaInv, TypeOK
  <2> QED
    BY <2>1, <2>2, <2>3, AttemptKeeps DEF SagaInv, TypeOK
<1>3. CASE DirectRefused(p)
  BY <1>3, RowsStay DEF SagaInv, TypeOK, DirectRefused, ledgerVars, rows
<1> QED
  BY <1>1, <1>2, <1>3 DEF Controller

\* The orchestrator's own history line changes nothing but the history.
LEMMA LineKeeps ==
    ASSUME SagaInv, NEW p \in Posts, NEW type \in EntryType \cup {"CHARGE"}, Line(p, type)
    PROVE  /\ history' \in [Users -> Seq(SagaEntries)]
           /\ UNCHANGED <<stock, balance, account, orderStatus, payStatus, served>>
<1>1. /\ User(p) \in Users /\ Amount[Order(p)] \in Int
      /\ after[p] \in Int /\ history \in [Users -> Seq(SagaEntries)]
  BY Parameters DEF SagaInv, TypeOK
<1>2. Entry(type, Amount[Order(p)], after[p]) \in SagaEntries
  BY <1>1 DEF Entry, SagaEntries
<1>3. Append(history[User(p)], Entry(type, Amount[Order(p)], after[p])) \in Seq(SagaEntries)
  BY <1>1, <1>2
<1> QED
  BY <1>1, <1>3 DEF Line

\* A deduction is made only from a balance that covers it.
LEMMA DeductKeeps ==
    ASSUME SagaInv, NEW p \in Posts, Deduct(p)
    PROVE  SagaInv'
<1> DEFINE u == User(p)
           b == balance[u] - Amount[Order(p)]
<1>1. u \in Users /\ Amount[Order(p)] \in Int /\ balance \in [Users -> Int] /\ TypeOK /\ NeverNegative
  BY Parameters DEF SagaInv, TypeOK
<1>2. b \in Int /\ b >= 0 /\ Book(u, b, "USE", Amount[Order(p)]) /\ "USE" \in EntryType
  BY <1>1 DEF Deduct, EntryType
<1>3. /\ after' = [after EXCEPT ![p] = b]
      /\ saga' = [saga EXCEPT ![p] = "record"]
      /\ UNCHANGED <<stock, account, orderStatus, payStatus, served, faults, direct,
                     events, updates>>
  BY DEF Deduct, Become
<1> HIDE DEF b
<1>4. balance' \in [Users -> Int] /\ history' \in [Users -> Seq(SagaEntries)]
  BY <1>1, <1>2, BookTypes DEF TypeOK
<1>5. NeverNegative'
  <2>1. balance' = [balance EXCEPT ![u] = b] /\ UNCHANGED stock
    BY <1>2, <1>3 DEF Book
  <2>2. \A x \in Users : PaidToRefund(x) => PaidToRefund(x)'
    BY <1>1, <1>3, RefundStays DEF TypeOK, Deduct
  <2> QED BY <1>1, <1>2, <2>1, <2>2 DEF NeverNegative
<1>6. SeenEnough' /\ OnePaymentPerOrder' /\ PaidIsClosed'
  BY <1>3, BookingKeeps
<1>7. TypeOK'
  BY <1>1, <1>2, <1>3, <1>4 DEF TypeOK, SagaStates
<1> QED
  BY <1>5, <1>6, <1>7 DEF SagaInv

LEMMA RefundKeeps ==
    ASSUME SagaInv, NEW p \in Posts, Refund(p)
    PROVE  SagaInv'
<1> DEFINE u == User(p)
           b == balance[u] + Amount[Order(p)]
<1>1. u \in Users /\ Amount[Order(p)] \in Int /\ balance \in [Users -> Int] /\ TypeOK /\ NeverNegative
  BY Parameters DEF SagaInv, TypeOK
<1>2. CASE /\ Credit(u, Amount[Order(p)])
           /\ after' = [after EXCEPT ![p] = b]
           /\ saga' = [saga EXCEPT ![p] = "rerecord"]
           /\ UNCHANGED <<stock, orderStatus, payStatus, served, faults, direct,
                     events, updates>>
  <2>1. b \in Int /\ "REFUND" \in EntryType
    BY <1>1 DEF EntryType
  <2>2. Book(u, b, "REFUND", Amount[Order(p)]) /\ account' = account \cup {u}
    BY <1>2 DEF Credit
  <2> HIDE DEF b
  <2>3. balance' \in [Users -> Int] /\ history' \in [Users -> Seq(SagaEntries)]
    BY <1>1, <2>1, <2>2, BookTypes DEF TypeOK
  <2>4. NeverNegative'
    <3>1. balance' = [balance EXCEPT ![u] = b] /\ UNCHANGED stock
      BY <1>2, <2>2 DEF Book
    <3>2. \A x \in Users : PaidToRefund(x) => PaidToRefund(x)'
      BY <1>1, <1>2, RefundStays DEF TypeOK
    <3>3. Amount[Order(p)] < 0 => PaidToRefund(u)'
      BY <1>1, <1>2 DEF TypeOK, PaidToRefund, User, Order
    <3>4. balance[u] >= 0 /\ Amount[Order(p)] >= 0 => b >= 0
      BY <1>1 DEF b
    <3> QED BY <1>1, <2>1, <3>1, <3>2, <3>3, <3>4 DEF NeverNegative
  <2>5. SeenEnough' /\ OnePaymentPerOrder' /\ PaidIsClosed'
    BY <1>2, BookingKeeps
  <2>6. TypeOK'
    BY <1>1, <1>2, <2>1, <2>2, <2>3 DEF TypeOK, SagaStates
  <2> QED
    BY <2>4, <2>5, <2>6 DEF SagaInv
<1>3. CASE UNCHANGED <<ledgerVars, faults, after, direct, events, updates>> /\ Become(p, "unrefunded")
  <2>1. \A q \in Posts : saga[q] \in {"rerecord", "refunded"} => saga'[q] = saga[q]
    BY <1>1, <1>3 DEF TypeOK, Refund, Become
  <2> QED BY <1>3, <2>1, RowsStay DEF SagaInv, TypeOK, Become, SagaStates, ledgerVars, rows
<1> QED
  BY <1>2, <1>3 DEF Refund, Become

LEMMA SagaKeeps ==
    ASSUME SagaInv, NEW p \in Posts, Saga(p)
    PROVE  SagaInv'
<1> USE EventTypes DEF Become
<1>1. CASE Initiate(p) \/ RefuseDeduction(p) \/ SagaRefused(p)
  <2>1. UNCHANGED <<ledgerVars, faults, direct, after, updates>>
    BY <1>1 DEF Initiate, RefuseDeduction, SagaRefused
  <2>2. saga' \in [Posts -> SagaStates] /\ events' \subseteq Events
    BY <1>1 DEF SagaInv, TypeOK, Initiate, RefuseDeduction, SagaRefused, SagaStates
  <2>3. \A q \in Posts : saga[q] \in {"rerecord", "refunded"} => saga'[q] = saga[q]
    BY <1>1 DEF SagaInv, TypeOK, Initiate, RefuseDeduction, SagaRefused
  <2> QED
    BY <2>1, <2>2, <2>3, RowsStay DEF SagaInv, TypeOK, ledgerVars, rows
<1>2. CASE RecordDeduction(p)
  <2>1. saga' \in [Posts -> SagaStates] /\ events' \subseteq Events
    BY <1>2 DEF SagaInv, TypeOK, RecordDeduction, SagaStates
  <2>2. /\ history' \in [Users -> Seq(SagaEntries)]
        /\ UNCHANGED <<stock, balance, account, orderStatus, payStatus, served, faults, direct,
                       after, updates>>
    BY <1>2, LineKeeps DEF RecordDeduction, EntryType, SagaInv, TypeOK, ledgerVars, rows
  <2>3. \A u \in Users : PaidToRefund(u) => PaidToRefund(u)'
    BY <1>2, RefundStays DEF SagaInv, TypeOK, RecordDeduction
  <2> QED
    BY <2>1, <2>2, <2>3, BookingKeeps DEF SagaInv, TypeOK, NeverNegative
<1>3. CASE RecordRefund(p)
  <2>1. saga' \in [Posts -> SagaStates] /\ events' = events
    BY <1>3 DEF SagaInv, TypeOK, RecordRefund, SagaStates
  <2>2. /\ history' \in [Users -> Seq(SagaEntries)]
        /\ UNCHANGED <<stock, balance, account, orderStatus, payStatus, served, faults, direct,
                       after, updates>>
    BY <1>3, LineKeeps DEF RecordRefund, SagaInv, TypeOK, ledgerVars, rows
  <2>3. \A u \in Users : PaidToRefund(u) => PaidToRefund(u)'
    BY <1>3, RefundStays DEF SagaInv, TypeOK, RecordRefund
  <2> QED
    BY <2>1, <2>2, <2>3, BookingKeeps DEF SagaInv, TypeOK, NeverNegative
<1>4. CASE SagaPays(p)
  <2>1. Attempt(SagaOf[p]) /\ UNCHANGED <<faults, direct, after, updates>>
    BY <1>4 DEF SagaPays
  <2>2. SeenEnough'
    BY <2>1 DEF SagaInv, SeenEnough
  <2>3. saga' \in [Posts -> SagaStates] /\ events' \subseteq Events
    BY <1>4 DEF SagaPays, SagaInv, TypeOK, SagaStates
  <2>4. \A q \in Posts : saga[q] \in {"rerecord", "refunded"} => saga'[q] = saga[q]
    BY <1>4 DEF SagaPays, SagaInv, TypeOK
  <2> QED
    BY <2>1, <2>2, <2>3, <2>4, AttemptKeeps DEF SagaInv, TypeOK
<1> QED
  BY <1>1, <1>2, <1>3, <1>4, DeductKeeps, RefundKeeps DEF Saga

\* The order's status becomes one that Payable refuses.
LEMMA StatusKeeps ==
    ASSUME SagaInv, NEW o \in Orders, NEW status \in {"PAID", "CANCELLED"},
           SetStatus(o, status), UNCHANGED updates, events' \subseteq Events
    PROVE  SagaInv'
<1>1. /\ TypeOK /\ UNCHANGED <<stock, balance, account, payStatus, history, served, faults,
                       direct, saga, after>>
      /\ orderStatus' = [orderStatus EXCEPT ![o] = status]
  BY DEF SagaInv, SetStatus
<1>2. TypeOK'
  BY <1>1 DEF TypeOK, OrderStatus
<1>3. PaidIsClosed'
  BY <1>1, Parameters DEF SagaInv, TypeOK, PaidIsClosed
<1>4. NeverNegative' /\ SeenEnough' /\ OnePaymentPerOrder'
  BY <1>1, RefundStays DEF SagaInv, NeverNegative, SeenEnough, OnePaymentPerOrder
<1> QED
  BY <1>2, <1>3, <1>4 DEF SagaInv

LEMMA HandlerKeeps ==
    ASSUME SagaInv, NEW e \in events, Handler(e)
    PROVE  SagaInv'
<1>1. e \in Events /\ e.post \in Posts /\ e.by \in Requests /\ events \subseteq Events
  BY DEF SagaInv, TypeOK, Events, StockEvents
<1>2. CASE CompletePayment(e)
  <2>1. events' \subseteq Events
    BY <1>1, <1>2, EventTypes DEF CompletePayment, Lines, Events
  <2> QED
    BY <1>1, <1>2, <2>1, StatusKeeps, Parameters DEF CompletePayment
<1>3. CASE FailPayment(e)
  BY <1>1, <1>3, StatusKeeps, Parameters DEF FailPayment
<1>4. CASE ReadStock(e)
  <2>1. e \in StockEvents /\ UNCHANGED <<ledgerVars, faults, direct, saga, after>> /\ events' \subseteq Events
    BY <1>1, <1>4 DEF ReadStock, Events
  <2>2. CASE StockCheck(e)
    <3>1. updates' = updates \cup {[event |-> e, seen |-> stock[e.variant]]}
      BY <1>4, <2>2 DEF ReadStock
    <3>2. stock[e.variant] \in Nat
      BY <2>1 DEF SagaInv, TypeOK, NeverNegative, StockEvents
    <3>3. SeenEnough'
      BY <2>2, <3>1 DEF SagaInv, SeenEnough, StockCheck
    <3>4. updates' \subseteq [event : StockEvents, seen : Nat]
      BY <2>1, <3>1, <3>2 DEF SagaInv, TypeOK
    <3> QED
      BY <2>1, <3>3, <3>4
         DEF SagaInv, TypeOK, NeverNegative, PaidToRefund, User, Order, OnePaymentPerOrder,
             PaidIsClosed, ledgerVars, rows
  <2>3. CASE ~ StockCheck(e)
    <3>1. updates' = updates
      BY <1>4, <2>3 DEF ReadStock
    <3> QED
      BY <2>1, <3>1, RowsStay DEF SagaInv, TypeOK, ledgerVars, rows
  <2> QED
    BY <2>2, <2>3
<1> QED
  BY <1>2, <1>3, <1>4 DEF Handler

\* What a handler writes it has computed from a stock that was enough.
LEMMA WriteKeeps ==
    ASSUME SagaInv, NEW w \in updates, WriteStock(w)
    PROVE  SagaInv'
<1> DEFINE v == w.event.variant
           left == w.seen - Qty[Order(w.event.post)][v]
<1>1. v \in Variants /\ w.seen \in Nat /\ Order(w.event.post) \in Orders
  BY Parameters DEF SagaInv, TypeOK, StockEvents
<1>2. left \in Int /\ left >= 0
  BY <1>1, Parameters DEF SagaInv, SeenEnough
<1>3. /\ stock' = [stock EXCEPT ![v] = left] /\ updates' = updates \ {w}
      /\ UNCHANGED <<balance, account, orderStatus, payStatus, history, served,
                     faults, direct, saga, after, events>>
  BY DEF WriteStock
<1> HIDE DEF left
<1>4. TypeOK' /\ NeverNegative'
  BY <1>1, <1>2, <1>3, RefundStays DEF SagaInv, TypeOK, NeverNegative
<1>5. SeenEnough' /\ OnePaymentPerOrder' /\ PaidIsClosed'
  BY <1>3 DEF SagaInv, SeenEnough, OnePaymentPerOrder, PaidIsClosed
<1> QED
  BY <1>4, <1>5 DEF SagaInv

\* A death changes no row, and leaves fewer events and stock handlers.
LEMMA CrashKeeps ==
    ASSUME SagaInv, NEW p \in Posts, Crash(p)
    PROVE  SagaInv'
<1>1. /\ UNCHANGED <<ledgerVars, faults, after>>
      /\ direct' = [direct EXCEPT ![p] = IF @ = "paying" THEN "dead" ELSE @]
      /\ saga' = [saga EXCEPT ![p] = Interrupted(@)]
      /\ events' \subseteq events /\ updates' \subseteq updates
  BY DEF Crash
<1>2. TypeOK
  BY DEF SagaInv
<1>3. Interrupted(saga[p]) \in SagaStates
  BY <1>2 DEF TypeOK, Interrupted, SagaStates
<1>4. TypeOK'
  BY <1>1, <1>2, <1>3 DEF TypeOK, ledgerVars, rows
<1>5. \A q \in Posts : saga[q] \in {"rerecord", "refunded"}
                         => saga'[q] \in {"rerecord", "refunded"}
  BY <1>1, <1>2 DEF TypeOK, Interrupted
<1>6. NeverNegative'
  BY <1>1, <1>5, RefundStays DEF SagaInv, NeverNegative, ledgerVars, rows
<1>7. SeenEnough' /\ OnePaymentPerOrder' /\ PaidIsClosed'
  BY <1>1 DEF SagaInv, SeenEnough, OnePaymentPerOrder, PaidIsClosed, ledgerVars, rows
<1> QED
  BY <1>4, <1>6, <1>7 DEF SagaInv

\* No step but a request's own begins its saga.
LEMMA BeginsStep == TypeOK /\ SagaBegins /\ [Next]_vars => SagaBegins'
<1> SUFFICES ASSUME TypeOK, SagaBegins, [Next]_vars PROVE SagaBegins'
  OBVIOUS
<1> USE DEF SagaBegins
<1>1. ASSUME NEW p \in Posts, Request(p) \/ Controller(p) \/ Crash(p)
      PROVE  SagaBegins'
  BY <1>1 DEF TypeOK, Request, Controller, DirectPays, DirectRefused, Crash
<1>2. ASSUME NEW p \in Posts, Saga(p)
      PROVE  SagaBegins'
  <2>1. saga[p] # "idle" /\ UNCHANGED direct
    BY <1>2 DEF Saga, Initiate, Deduct, RefuseDeduction, RecordDeduction, SagaPays,
                SagaRefused, Refund, RecordRefund
  <2>2. \A q \in Posts \ {p} : saga'[q] = saga[q]
    BY <1>2 DEF TypeOK, Saga, Initiate, Deduct, RefuseDeduction, RecordDeduction, SagaPays,
                SagaRefused, Refund, RecordRefund, Become
  <2> QED BY <2>1, <2>2
<1>3. ASSUME NEW e \in events, Handler(e)
      PROVE  SagaBegins'
  BY <1>3 DEF Handler, CompletePayment, FailPayment, ReadStock, SetStatus
<1>4. ASSUME NEW w \in updates, WriteStock(w)
      PROVE  SagaBegins'
  BY <1>4 DEF WriteStock
<1>5. CASE UNCHANGED vars
  BY <1>5 DEF vars, sagaVars
<1> QED
  BY <1>1, <1>2, <1>3, <1>4, <1>5 DEF Next

LEMMA InvStep == SagaInv /\ SagaBegins /\ [Next]_vars => SagaInv'
<1> SUFFICES ASSUME SagaInv, SagaBegins, [Next]_vars PROVE SagaInv'
  OBVIOUS
<1>1. CASE UNCHANGED vars
  BY <1>1, RowsStay DEF SagaInv, TypeOK, vars, sagaVars, ledgerVars, rows
<1>2. CASE \E p \in Posts : Request(p) \/ Controller(p) \/ Saga(p) \/ Crash(p)
  BY <1>2, ControllerKeeps, SagaKeeps, CrashKeeps
<1>3. CASE \E e \in events : Handler(e)
  BY <1>3, HandlerKeeps
<1>4. CASE \E w \in updates : WriteStock(w)
  BY <1>4, WriteKeeps
<1> QED
  BY <1>1, <1>2, <1>3, <1>4 DEF Next

THEOREM SagaInvariant == Spec => [](SagaInv /\ SagaBegins)
<1>1. Init => SagaBegins
  BY DEF Init, SagaBegins
<1>2. SagaInv => TypeOK
  BY DEF SagaInv
<1> QED
  BY <1>1, <1>2, InvInit, InvStep, BeginsStep, PTL DEF Spec

\* payment.controller.ts and the orchestrators: whatever the events are
\* overtaken by, one attempt of all those for an order succeeds.
THEOREM SagaPaysOnce == Spec => []OnePaymentPerOrder
<1>1. SagaInv => OnePaymentPerOrder
  BY DEF SagaInv
<1> QED
  BY <1>1, SagaInvariant, PTL

\* product.orchestrator.ts writes over payments what it has read before them,
\* and the stock stays at or above zero, for any orders that share a variant.
THEOREM SagaNeverBelowZero == Spec => []NeverNegative
<1>1. SagaInv => NeverNegative
  BY DEF SagaInv
<1> QED
  BY <1>1, SagaInvariant, PTL

-----------------------------------------------------------------------------
(* Totals: the facts that PaymentsProofs states for the tables of the ledger. *)

LEMMA NoUnits ==
    ASSUME NEW value
    PROVE  Total(value, {}) = 0
<1>1. Units(value, {}) = {} /\ Missing(value, {}) = {}
  BY DEF Units, Missing
<1>2. Cardinality({}) = 0
  BY FS_EmptySet
<1>3. Cardinality(Units(value, {})) = 0 /\ Cardinality(Missing(value, {})) = 0
  BY <1>1, <1>2
<1>4. 0 - 0 = 0
  OBVIOUS
<1> QED BY <1>3, <1>4 DEF Total

\* One row has as many units as it is worth.
LEMMA RowUnits ==
    ASSUME NEW x, NEW n \in Int
    PROVE  /\ IsFiniteSet({x} \X (1 .. n))
           /\ Cardinality({x} \X (1 .. n)) = IF n > 0 THEN n ELSE 0
<1> DEFINE N == 1 .. n
<1>1. IsFiniteSet({x}) /\ Cardinality({x}) = 1
  BY FS_Singleton
<1>2. IsFiniteSet(N) /\ Cardinality(N) = IF 1 > n THEN 0 ELSE n - 1 + 1
  BY FS_Interval
<1>3. Cardinality(N) = IF n > 0 THEN n ELSE 0
  BY <1>2
<1>4. Cardinality(N) \in Nat
  BY <1>3
<1> HIDE DEF N
<1>5. IsFiniteSet({x} \X N) /\ Cardinality({x} \X N) = 1 * Cardinality(N)
  BY <1>1, <1>2, FS_Product
<1>6. Cardinality({x} \X N) = Cardinality(N)
  BY <1>4, <1>5
<1> QED BY <1>3, <1>5, <1>6 DEF N

\* A finite table has finitely many units.
LEMMA UnitsFinite ==
    ASSUME NEW S, IsFiniteSet(S), NEW value, \A x \in S : value[x] \in Int
    PROVE  IsFiniteSet(Units(value, S)) /\ Cardinality(Units(value, S)) \in Nat
<1> DEFINE units(x) == {x} \X (1 .. value[x])
           T == {units(x) : x \in S}
           g == [x \in S |-> units(x)]
<1>1. g \in Surjection(S, T)
  BY DEF Surjection
<1>2. IsFiniteSet(T)
  BY <1>1, FS_Surjection
<1>3. ASSUME NEW x \in S
      PROVE  IsFiniteSet(units(x))
  BY <1>3, RowUnits
<1>4. IsFiniteSet(UNION T)
  BY <1>2, <1>3, FS_UNION
<1> QED BY <1>4, FS_CardinalityType DEF Units

LEMMA UnitsWith ==
    ASSUME NEW S, IsFiniteSet(S), NEW e, e \notin S,
           NEW value, \A x \in S \cup {e} : value[x] \in Int
    PROVE  Cardinality(Units(value, S \cup {e})) =
             Cardinality(Units(value, S)) + (IF value[e] > 0 THEN value[e] ELSE 0)
<1> DEFINE U == Units(value, S)
           V == {e} \X (1 .. value[e])
<1>1. Units(value, S \cup {e}) = U \cup V
  BY DEF Units
<1>2. U \cap V = {}
  BY DEF Units
<1>3. IsFiniteSet(U) /\ Cardinality(U) \in Nat
  BY UnitsFinite
<1>4. IsFiniteSet(V) /\ Cardinality(V) = IF value[e] > 0 THEN value[e] ELSE 0
  BY RowUnits
<1>5. Cardinality(U \cup V) = Cardinality(U) + Cardinality(V) - Cardinality(U \cap V)
  BY <1>3, <1>4, FS_Union
<1>6. Cardinality(U \cap V) = 0
  BY <1>2, FS_EmptySet
<1> HIDE DEF U, V
<1>7. Cardinality(U \cup V) = Cardinality(U) + Cardinality(V)
  BY <1>3, <1>4, <1>5, <1>6
<1> QED BY <1>1, <1>4, <1>7 DEF U

\* Missing units are the units of the opposite values.
LEMMA MissingUnits ==
    ASSUME NEW S, NEW T, S \subseteq T, NEW value
    PROVE  Missing(value, S) = Units([x \in T |-> -value[x]], S)
BY DEF Missing, Units

LEMMA TotalType ==
    ASSUME NEW S, IsFiniteSet(S), NEW value, \A x \in S : value[x] \in Int
    PROVE  Total(value, S) \in Int
<1> DEFINE opposite == [x \in S |-> -value[x]]
<1>1. Cardinality(Units(value, S)) \in Nat
  BY UnitsFinite
<1>2. \A x \in S : opposite[x] \in Int
  OBVIOUS
<1>3. Missing(value, S) = Units(opposite, S)
  BY MissingUnits
<1> HIDE DEF opposite
<1>4. Cardinality(Units(opposite, S)) \in Nat
  BY <1>2, UnitsFinite
<1> QED BY <1>1, <1>3, <1>4 DEF Total

\* A row that comes adds its value.
LEMMA TotalWith ==
    ASSUME NEW S, IsFiniteSet(S), NEW e, e \notin S,
           NEW value, \A x \in S \cup {e} : value[x] \in Int
    PROVE  Total(value, S \cup {e}) = Total(value, S) + value[e]
<1> DEFINE T == S \cup {e}
           opposite == [x \in T |-> -value[x]]
           gain == IF value[e] > 0 THEN value[e] ELSE 0
           loss == IF opposite[e] > 0 THEN opposite[e] ELSE 0
<1>1. \A x \in T : opposite[x] \in Int
  OBVIOUS
<1>2. Missing(value, S) = Units(opposite, S) /\ Missing(value, T) = Units(opposite, T)
  BY MissingUnits
<1>3. gain \in Int /\ loss \in Int /\ gain - loss = value[e]
  OBVIOUS
<1> HIDE DEF opposite
<1>4. /\ Cardinality(Units(value, S)) \in Nat
      /\ Cardinality(Units(value, T)) = Cardinality(Units(value, S)) + gain
  BY UnitsFinite, UnitsWith
<1>5. /\ Cardinality(Units(opposite, S)) \in Nat
      /\ Cardinality(Units(opposite, T)) = Cardinality(Units(opposite, S)) + loss
  BY <1>1, UnitsFinite, UnitsWith
<1> HIDE DEF T, gain, loss
<1>6. Total(value, T) = Total(value, S) + value[e]
  BY <1>2, <1>3, <1>4, <1>5 DEF Total
<1> QED BY <1>6 DEF T

\* A row that goes takes it away.
LEMMA TotalWithout ==
    ASSUME NEW S, IsFiniteSet(S), NEW e \in S,
           NEW value, \A x \in S : value[x] \in Int
    PROVE  Total(value, S \ {e}) = Total(value, S) - value[e]
<1>1. IsFiniteSet(S \ {e}) /\ e \notin S \ {e} /\ (S \ {e}) \cup {e} = S
  BY FS_RemoveElement
<1>2. Total(value, S) = Total(value, S \ {e}) + value[e]
  BY <1>1, TotalWith
<1>3. Total(value, S \ {e}) \in Int /\ value[e] \in Int
  BY <1>1, TotalType
<1> QED BY <1>2, <1>3

-----------------------------------------------------------------------------
(* Where the money is *)

\* The requests and sagas that move money have begun, and finitely many have;
\* and an attempt that completes a payment has taken effect.
Begun == {p \in Posts : saga[p] # "idle"}

Finite ==
    /\ IsFiniteSet(served) /\ IsFiniteSet(Begun)
    /\ \A r \in Requests : payStatus[r] = "COMPLETED" => r \in served

MoneyInv == Finite /\ MoneyTraceable

LEMMA Sums ==
    ASSUME Finite, NEW u \in Users
    PROVE  /\ IsFiniteSet(PaidBy(u)) /\ IsFiniteSet(HeldFor(u))
           /\ PaidBy(u) \subseteq Requests /\ HeldFor(u) \subseteq Posts
           /\ \A r \in Requests : Price[r] = Amount[OrderOf[r]] /\ Price[r] \in Int
           /\ \A p \in Posts : Deducted[p] = Amount[Order(p)] /\ Deducted[p] \in Int
           /\ Spent(u) \in Int /\ Held(u) \in Int
<1>1. PaidBy(u) \subseteq served /\ HeldFor(u) \subseteq Begun
  BY DEF Finite, PaidBy, HeldFor, Begun, Holding
<1>2. IsFiniteSet(PaidBy(u)) /\ IsFiniteSet(HeldFor(u))
  BY <1>1, FS_Subset DEF Finite
<1>3. /\ PaidBy(u) \subseteq Requests /\ HeldFor(u) \subseteq Posts
      /\ \A r \in Requests : Price[r] = Amount[OrderOf[r]] /\ Price[r] \in Int
      /\ \A p \in Posts : Deducted[p] = Amount[Order(p)] /\ Deducted[p] \in Int
  BY Parameters DEF PaidBy, HeldFor, Price, Deducted
<1>4. Spent(u) \in Int
  BY <1>2, <1>3, TotalType DEF Spent
<1>5. Held(u) \in Int
  BY <1>2, <1>3, TotalType DEF Held
<1> QED BY <1>2, <1>3, <1>4, <1>5

LEMMA MoneyInit == Init => MoneyInv
<1> SUFFICES ASSUME Init
             PROVE  MoneyInv
  OBVIOUS
<1>1. Begun = {} /\ served = {} /\ payStatus = [r \in Requests |-> "NONE"]
  BY DEF Init, LedgerInit, Begun
<1>2. Finite
  BY <1>1, FS_EmptySet DEF Init, Finite
<1>3. ASSUME NEW u \in Users
      PROVE  balance[u] + Spent(u) + Held(u) = Balance0[u]
  <2>1. PaidBy(u) = {} /\ HeldFor(u) = {}
    BY <1>1 DEF Init, PaidBy, HeldFor, Holding
  <2>2. Spent(u) = 0 /\ Held(u) = 0
    BY <2>1, NoUnits DEF Spent, Held
  <2>3. balance[u] = Balance0[u] /\ Balance0[u] \in Int
    BY RowAssumption DEF Init, LedgerInit
  <2> QED BY <2>2, <2>3
<1> QED BY <1>2, <1>3 DEF MoneyInv, MoneyTraceable

\* A step that moves no money: no booking, and no saga starts or stops holding.
LEMMA NoMoneyMoves ==
    ASSUME MoneyInv, UNCHANGED <<balance, payStatus>>,
           \A p \in Posts : saga'[p] \in Holding <=> saga[p] \in Holding
    PROVE  MoneyTraceable'
<1>1. \A u \in Users : PaidBy(u)' = PaidBy(u) /\ HeldFor(u)' = HeldFor(u)
  BY DEF PaidBy, HeldFor, User
<1> QED BY <1>1 DEF MoneyInv, MoneyTraceable, Spent, Held

\* Begun grows by the saga whose request has come.
LEMMA FiniteStep ==
    ASSUME SagaInv, MoneyInv, [Next]_vars
    PROVE  Finite'
<1> USE DEF ledgerVars, rows, Become
<1>1. TypeOK /\ Finite
  BY DEF SagaInv, MoneyInv
<1>2. ASSUME UNCHANGED <<saga, direct, served, payStatus>>
      PROVE  Finite'
  BY <1>1, <1>2 DEF Finite, Begun
<1>3. ASSUME NEW p \in Posts, Request(p)
      PROVE  Finite'
  <2>1. Begun' = Begun \cup {p}
    BY <1>1, <1>3 DEF TypeOK, Request, Begun
  <2>2. IsFiniteSet(Begun')
    BY <1>1, <2>1, FS_AddElement DEF Finite
  <2> QED BY <1>1, <1>3, <2>2 DEF TypeOK, Request, Finite
<1>4. ASSUME NEW r \in Requests, Attempt(r), Begun' = Begun
      PROVE  Finite'
  <2>1. served' = served \cup {r} /\ payStatus' = [payStatus EXCEPT ![r] = "COMPLETED"]
    BY <1>4 DEF Attempt, Pay
  <2>2. IsFiniteSet(served')
    BY <1>1, <2>1, FS_AddElement DEF Finite
  <2> QED BY <1>1, <1>4, <2>1, <2>2 DEF TypeOK, Finite
<1>5. ASSUME NEW p \in Posts, DirectPays(p)
      PROVE  Finite'
  <2>1. Attempt(DirectOf[p]) /\ DirectOf[p] \in Requests
    BY <1>5, Parameters DEF DirectPays
  <2>2. Begun' = Begun
    BY <1>5 DEF DirectPays, Begun
  <2> QED BY <1>4, <2>1, <2>2
<1>6. ASSUME NEW p \in Posts, DirectRefused(p)
      PROVE  Finite'
  BY <1>1, <1>6 DEF TypeOK, DirectRefused, Finite, Begun
<1>7. ASSUME NEW p \in Posts, SagaPays(p)
      PROVE  Finite'
  <2>1. Attempt(SagaOf[p]) /\ SagaOf[p] \in Requests
    BY <1>7, Parameters DEF SagaPays
  <2>2. Begun' = Begun
    BY <1>1, <1>7 DEF TypeOK, SagaPays, Begun
  <2> QED BY <1>4, <2>1, <2>2
<1>8. ASSUME NEW p \in Posts, NEW state \in SagaStates \ {"idle"}, saga[p] # "idle",
             saga' = [saga EXCEPT ![p] = state], UNCHANGED <<direct, served, payStatus>>
      PROVE  Finite'
  <2>1. Begun' = Begun
    BY <1>1, <1>8 DEF TypeOK, Begun
  <2> QED BY <1>1, <1>8, <2>1 DEF TypeOK, Finite
<1>9. ASSUME NEW p \in Posts,
             \/ Initiate(p) \/ Deduct(p) \/ RefuseDeduction(p) \/ RecordDeduction(p)
             \/ SagaRefused(p) \/ Refund(p) \/ RecordRefund(p)
      PROVE  Finite'
  <2>1. saga[p] # "idle" /\ UNCHANGED <<direct, served, payStatus>>
    BY <1>9 DEF Initiate, Deduct, RefuseDeduction, RecordDeduction, SagaRefused, Refund,
       RecordRefund, Line
  <2>2. \E state \in SagaStates \ {"idle"} : saga' = [saga EXCEPT ![p] = state]
    BY <1>9 DEF Initiate, Deduct, RefuseDeduction, RecordDeduction, SagaRefused, Refund,
       RecordRefund, SagaStates
  <2> QED BY <1>8, <2>1, <2>2
<1>10. ASSUME NEW p \in Posts, Crash(p)
      PROVE  Finite'
  <2>1. UNCHANGED <<served, payStatus>>
    BY <1>10 DEF Crash
  <2>2. \A q \in Posts : saga'[q] = "idle" <=> saga[q] = "idle"
    BY <1>1, <1>10 DEF TypeOK, Crash, Interrupted
  <2>3. Begun' = Begun
    BY <2>2 DEF Begun
  <2> QED BY <1>1, <2>1, <2>3 DEF Finite
<1>11. ASSUME NEW e \in events, Handler(e)
       PROVE  Finite'
  BY <1>2, <1>11 DEF Handler, CompletePayment, FailPayment, ReadStock, SetStatus
<1>12. ASSUME NEW w \in updates, WriteStock(w)
       PROVE  Finite'
  BY <1>2, <1>12 DEF WriteStock
<1>13. CASE UNCHANGED vars
  BY <1>2, <1>13 DEF vars, sagaVars
<1> QED
  BY <1>3, <1>5, <1>6, <1>7, <1>9, <1>11, <1>12, <1>13, <1>10 DEF Next, Controller, Saga

\* An attempt moves its price from the balance to the completed payments.
LEMMA AttemptMoves ==
    ASSUME SagaInv, MoneyInv, NEW r \in Requests, Attempt(r),
           \A p \in Posts : saga'[p] \in Holding <=> saga[p] \in Holding
    PROVE  MoneyTraceable'
<1> DEFINE c == Caller[r]
<1>1. TypeOK /\ Finite /\ c \in Users
  BY Parameters DEF SagaInv, MoneyInv
<1>2. /\ r \notin served /\ payStatus' = [payStatus EXCEPT ![r] = "COMPLETED"]
      /\ balance' = [balance EXCEPT ![c] = balance[c] - Amount[OrderOf[r]]]
  BY DEF Attempt, Pay, Book
<1>3. /\ PaidBy(c)' = PaidBy(c) \cup {r} /\ r \notin PaidBy(c)
      /\ \A u \in Users \ {c} : PaidBy(u)' = PaidBy(u)
  BY <1>1, <1>2 DEF TypeOK, Finite, PaidBy
<1>4. \A u \in Users : HeldFor(u)' = HeldFor(u)
  BY DEF HeldFor, User
<1>5. Spent(c)' = Spent(c) + Price[r]
  <2>1. IsFiniteSet(PaidBy(c)) /\ \A q \in PaidBy(c) \cup {r} : Price[q] \in Int
    BY <1>1, Sums
  <2> QED BY <1>3, <2>1, TotalWith DEF Spent
<1>6. ASSUME NEW u \in Users
      PROVE  balance'[u] + Spent(u)' + Held(u)' = Balance0[u]
  <2>1. /\ balance[u] \in Int /\ Spent(u) \in Int /\ Held(u) \in Int
        /\ Price[r] \in Int /\ Price[r] = Amount[OrderOf[r]]
    BY <1>1, Sums DEF TypeOK
  <2>2. balance[u] + Spent(u) + Held(u) = Balance0[u] /\ Held(u)' = Held(u)
    BY <1>4 DEF MoneyInv, MoneyTraceable, Held
  <2>3. CASE u = c
    <3>1. balance'[u] = balance[u] - Price[r]
      BY <1>1, <1>2, <2>1, <2>3 DEF TypeOK
    <3> QED BY <1>5, <2>1, <2>2, <2>3, <3>1
  <2>4. CASE u # c
    <3>1. balance'[u] = balance[u] /\ Spent(u)' = Spent(u)
      BY <1>1, <1>2, <1>3, <2>4 DEF TypeOK, Spent
    <3> QED BY <2>2, <3>1
  <2> QED BY <2>3, <2>4
<1> QED BY <1>6 DEF MoneyTraceable

\* A deduction moves it from the balance to the saga.
LEMMA DeductMoves ==
    ASSUME SagaInv, MoneyInv, NEW p \in Posts, Deduct(p)
    PROVE  MoneyTraceable'
<1> DEFINE c == User(p)
<1>1. TypeOK /\ Finite /\ c \in Users
  BY Parameters DEF SagaInv, MoneyInv
<1>2. /\ saga[p] = "deduct" /\ saga' = [saga EXCEPT ![p] = "record"]
      /\ balance' = [balance EXCEPT ![c] = balance[c] - Amount[Order(p)]]
      /\ payStatus' = payStatus
  BY DEF Deduct, Become, Book
<1>3. /\ HeldFor(c)' = HeldFor(c) \cup {p} /\ p \notin HeldFor(c)
      /\ \A u \in Users \ {c} : HeldFor(u)' = HeldFor(u)
  BY <1>1, <1>2 DEF TypeOK, HeldFor, Holding, User
<1>4. \A u \in Users : PaidBy(u)' = PaidBy(u)
  BY <1>2 DEF PaidBy
<1>5. Held(c)' = Held(c) + Deducted[p]
  <2>1. IsFiniteSet(HeldFor(c)) /\ \A q \in HeldFor(c) \cup {p} : Deducted[q] \in Int
    BY <1>1, Sums
  <2> QED BY <1>3, <2>1, TotalWith DEF Held
<1>6. ASSUME NEW u \in Users
      PROVE  balance'[u] + Spent(u)' + Held(u)' = Balance0[u]
  <2>1. /\ balance[u] \in Int /\ Spent(u) \in Int /\ Held(u) \in Int
        /\ Deducted[p] \in Int /\ Deducted[p] = Amount[Order(p)]
    BY <1>1, Sums DEF TypeOK
  <2>2. balance[u] + Spent(u) + Held(u) = Balance0[u] /\ Spent(u)' = Spent(u)
    BY <1>4 DEF MoneyInv, MoneyTraceable, Spent
  <2>3. CASE u = c
    <3>1. balance'[u] = balance[u] - Deducted[p]
      BY <1>1, <1>2, <2>1, <2>3 DEF TypeOK
    <3> QED BY <1>5, <2>1, <2>2, <2>3, <3>1
  <2>4. CASE u # c
    <3>1. balance'[u] = balance[u] /\ Held(u)' = Held(u)
      BY <1>1, <1>2, <1>3, <2>4 DEF TypeOK, Held
    <3> QED BY <2>2, <3>1
  <2> QED BY <2>3, <2>4
<1> QED BY <1>6 DEF MoneyTraceable

\* A refund moves it back; one that fails leaves it with the saga.
LEMMA RefundMoves ==
    ASSUME SagaInv, MoneyInv, NEW p \in Posts, Refund(p)
    PROVE  MoneyTraceable'
<1> DEFINE c == User(p)
<1>1. TypeOK /\ Finite /\ c \in Users
  BY Parameters DEF SagaInv, MoneyInv
<1>2. CASE Become(p, "unrefunded") /\ UNCHANGED ledgerVars
  <2>1. \A q \in Posts : saga'[q] \in Holding <=> saga[q] \in Holding
    BY <1>1, <1>2 DEF TypeOK, Refund, Become, Holding
  <2> QED BY <1>2, <2>1, NoMoneyMoves DEF ledgerVars, rows
<1>3. CASE Credit(c, Amount[Order(p)]) /\ Become(p, "rerecord") /\ UNCHANGED payStatus
  <2>1. /\ saga[p] = "refund" /\ saga' = [saga EXCEPT ![p] = "rerecord"]
        /\ balance' = [balance EXCEPT ![c] = balance[c] + Amount[Order(p)]]
        /\ payStatus' = payStatus
    BY <1>3 DEF Refund, Become, Credit, Book
  <2>2. /\ HeldFor(c)' = HeldFor(c) \ {p} /\ p \in HeldFor(c)
        /\ \A u \in Users \ {c} : HeldFor(u)' = HeldFor(u)
    BY <1>1, <2>1 DEF TypeOK, HeldFor, Holding, User
  <2>3. \A u \in Users : PaidBy(u)' = PaidBy(u)
    BY <2>1 DEF PaidBy
  <2>4. Held(c)' = Held(c) - Deducted[p]
    <3>1. IsFiniteSet(HeldFor(c)) /\ \A q \in HeldFor(c) : Deducted[q] \in Int
      BY <1>1, Sums
    <3> QED BY <2>2, <3>1, TotalWithout DEF Held
  <2>5. ASSUME NEW u \in Users
        PROVE  balance'[u] + Spent(u)' + Held(u)' = Balance0[u]
    <3>1. /\ balance[u] \in Int /\ Spent(u) \in Int /\ Held(u) \in Int
          /\ Deducted[p] \in Int /\ Deducted[p] = Amount[Order(p)]
      BY <1>1, Sums DEF TypeOK
    <3>2. balance[u] + Spent(u) + Held(u) = Balance0[u] /\ Spent(u)' = Spent(u)
      BY <2>3 DEF MoneyInv, MoneyTraceable, Spent
    <3>3. CASE u = c
      <4>1. balance'[u] = balance[u] + Deducted[p]
        BY <1>1, <2>1, <3>1, <3>3 DEF TypeOK
      <4> QED BY <2>4, <3>1, <3>2, <3>3, <4>1
    <3>4. CASE u # c
      <4>1. balance'[u] = balance[u] /\ Held(u)' = Held(u)
        BY <1>1, <2>1, <2>2, <3>4 DEF TypeOK, Held
      <4> QED BY <3>2, <4>1
    <3> QED BY <3>3, <3>4
  <2> QED BY <2>5 DEF MoneyTraceable
<1> QED BY <1>2, <1>3 DEF Refund

LEMMA MoneyStep ==
    ASSUME SagaInv, SagaBegins, MoneyInv, [Next]_vars
    PROVE  MoneyTraceable'
<1> USE DEF ledgerVars, rows, Become, Holding
<1>1. TypeOK /\ Finite
  BY DEF SagaInv, MoneyInv
<1>2. ASSUME NEW p \in Posts, DirectPays(p)
      PROVE  MoneyTraceable'
  BY <1>2, AttemptMoves, Parameters DEF DirectPays
<1>3. ASSUME NEW p \in Posts, SagaPays(p)
      PROVE  MoneyTraceable'
  <2>1. \A q \in Posts : saga'[q] \in Holding <=> saga[q] \in Holding
    BY <1>1, <1>3 DEF TypeOK, SagaPays
  <2> QED BY <1>3, <2>1, AttemptMoves, Parameters DEF SagaPays
<1>4. ASSUME NEW p \in Posts, Request(p) \/ DirectRefused(p)
      PROVE  MoneyTraceable'
  <2>1. \A q \in Posts : saga'[q] \in Holding <=> saga[q] \in Holding
    BY <1>1, <1>4 DEF TypeOK, SagaBegins, Request, DirectRefused
  <2> QED BY <1>4, <2>1, NoMoneyMoves DEF Request, DirectRefused
<1>5. ASSUME NEW p \in Posts,
             Initiate(p) \/ RefuseDeduction(p) \/ RecordDeduction(p) \/ SagaRefused(p)
               \/ RecordRefund(p)
      PROVE  MoneyTraceable'
  <2>1. \A q \in Posts : saga'[q] \in Holding <=> saga[q] \in Holding
    BY <1>1, <1>5 DEF TypeOK, Initiate, RefuseDeduction, RecordDeduction, SagaRefused,
       RecordRefund
  <2>2. UNCHANGED <<balance, payStatus>>
    BY <1>5 DEF Initiate, RefuseDeduction, RecordDeduction, SagaRefused, RecordRefund, Line
  <2> QED BY <2>1, <2>2, NoMoneyMoves
<1>6. ASSUME NEW p \in Posts, Crash(p)
      PROVE  MoneyTraceable'
  <2>1. \A q \in Posts : saga'[q] \in Holding <=> saga[q] \in Holding
    BY <1>1, <1>6 DEF TypeOK, Crash, Interrupted
  <2> QED BY <1>6, <2>1, NoMoneyMoves DEF Crash
<1>7. ASSUME NEW e \in events, Handler(e)
      PROVE  MoneyTraceable'
  BY <1>7, NoMoneyMoves DEF Handler, CompletePayment, FailPayment, ReadStock, SetStatus
<1>8. ASSUME NEW w \in updates, WriteStock(w)
      PROVE  MoneyTraceable'
  BY <1>8, NoMoneyMoves DEF WriteStock
<1>9. CASE UNCHANGED vars
  BY <1>9, NoMoneyMoves DEF vars, sagaVars
<1> QED
  BY <1>2, <1>3, <1>4, <1>5, <1>7, <1>8, <1>9, <1>6, DeductMoves, RefundMoves
     DEF Next, Controller, Saga

\* The orchestrators deduct, pay as well and refund, each in its own transaction
\* and in any order with the others: at every moment the initial balance of a
\* user is what is left, what completed payments took, and what sagas hold.
THEOREM MoneyIsTraceable == Spec => []MoneyTraceable
<1>1. SagaInv /\ SagaBegins /\ MoneyInv /\ [Next]_vars => MoneyInv'
  BY FiniteStep, MoneyStep DEF MoneyInv
<1>2. Spec => []MoneyInv
  BY <1>1, MoneyInit, SagaInvariant, PTL DEF Spec
<1>3. MoneyInv => MoneyTraceable
  BY DEF MoneyInv
<1> QED BY <1>2, <1>3, PTL
=============================================================================
