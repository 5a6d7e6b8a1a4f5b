--------------------------- MODULE PaymentsProofs ---------------------------
(***************************************************************************)
(* Proofs about Payments, for any number of requests, users, orders and    *)
(* variants, and any prices, quantities and initial rows.                  *)
(*                                                                         *)
(* First types; then LocksCover, with one lemma for each of its parts and  *)
(* under it one step per action; then that Payments implements             *)
(* PaymentLedger.  What is said of the rows alone is proved after that,    *)
(* once per step of the ledger and not once per step of the handlers.      *)
(***************************************************************************)
EXTENDS PaymentsInvariant, PaymentAccounts, FiniteSetTheorems, TLAPS

-----------------------------------------------------------------------------
(* The parameters and the two name spaces *)

LEMMA ConstantTypes ==
    \A r \in Requests : /\ Kind[r] \in {"pay", "cancel", "charge", "patch"}
                         /\ Caller[r] \in Users
                         /\ OrderOf[r] \in Orders
                         /\ PaymentOf[r] \in Requests
                         /\ CreditAmount(r) \in Int
                         /\ Amount[OrderOf[r]] \in Int
                         /\ r # None
BY RequestAssumption, RowAssumption DEF Kinds, CreditAmount

LEMMA RowTypes ==
    /\ \A o \in Orders : Row("order", o) \in Rows
    /\ \A v \in Variants : Row("stock", v) \in Rows
    /\ \A u \in Users : Row("balance", u) \in Rows
BY DEF Row, Rows

LEMMA KeyTypes ==
    /\ \A o \in Orders : Key("order", o) \in Keys
    /\ \A p \in Requests : Key("payment", p) \in Keys
    /\ \A v \in Variants : Key("product", v) \in Keys
    /\ \A u \in Users : Key("balance", u) \in Keys
BY DEF Key, Keys

LEMMA OuterKeyType == \A r \in Requests : OuterKey(r) \in Keys
BY KeyTypes, RequestAssumption DEF OuterKey

\* The rows of the three tables are different rows, and so are two of one table.
LEMMA RowsDiffer ==
    /\ \A a, b : Row("order", a) # Row("stock", b)
    /\ \A a, b : Row("order", a) # Row("balance", b)
    /\ \A a, b : Row("stock", a) # Row("balance", b)
    /\ \A a, b, c : Row(c, a) = Row(c, b) => a = b
BY DEF Row

\* An outer key is never an inner one.
LEMMA KeysDiffer ==
    /\ \A r \in Requests : \A a : OuterKey(r) # Key("product", a)
    /\ \A r \in Requests : \A a : OuterKey(r) # Key("balance", a)
BY DEF OuterKey, Key

LEMMA AcquireType ==
    ASSUME TypeOK, NEW r \in Requests, NEW k \in Keys, Acquire(r, k)
    PROVE  lock' \in [Keys -> Requests \cup {None}]
BY DEF TypeOK, Acquire

LEMMA ReleaseType ==
    ASSUME TypeOK, NEW r \in Requests, NEW k, Release(r, k)
    PROVE  lock' \in [Keys -> Requests \cup {None}]
BY DEF TypeOK, Release

LEMMA ReleaseKeeps ==
    ASSUME TypeOK, NEW r \in Requests, NEW k, Release(r, k),
           NEW j \in Keys, lock[j] # r \/ j # k
    PROVE  lock'[j] = lock[j]
BY DEF TypeOK, Release

LEMMA ShareType ==
    ASSUME TypeOK, NEW r \in Requests, NEW w, Share(r, w)
    PROVE  /\ shared' \in [Rows -> SUBSET Requests]
           /\ excl' \in [Rows -> Requests \cup {None}]
BY DEF TypeOK, Share

LEMMA OwnType ==
    ASSUME TypeOK, NEW r \in Requests, NEW w, Own(r, w)
    PROVE  /\ shared' \in [Rows -> SUBSET Requests]
           /\ excl' \in [Rows -> Requests \cup {None}]
BY DEF TypeOK, Own

LEMMA RollbackType ==
    ASSUME TypeOK, NEW r \in Requests, Rollback(r)
    PROVE  /\ shared' \in [Rows -> SUBSET Requests]
           /\ excl' \in [Rows -> Requests \cup {None}]
           /\ stockDraft' \in [Variants -> Int]
           /\ balanceDraft' \in [Users -> Int]
BY DEF TypeOK, Rollback, FreeRows

LEMMA GotoType ==
    ASSUME TypeOK, NEW r \in Requests, NEW label \in Labels, Goto(r, label)
    PROVE  pc' \in [Requests -> Labels]
BY DEF TypeOK, Goto

-----------------------------------------------------------------------------
(* Type correctness *)

LEMMA InitType == Init => TypeOK
BY RequestAssumption, RowAssumption DEF Init, TypeOK, Labels, PaymentStatus

\* What an exception does is the same wherever it is thrown.
LEMMA ThrowType ==
    ASSUME TypeOK, NEW r \in Requests, Throw(r)
    PROVE  TypeOK'
<1>1. /\ tx' \in [Requests -> {"none", "open", "dead"}]
      /\ outcome' \in [Requests -> {"none", "ok", "error"}]
      /\ todo' \in [Requests -> SUBSET Variants]
      /\ cur' \in [Requests -> Variants \cup {None}]
  BY DEF TypeOK, Throw
<1>2. pc' \in [Requests -> Labels]
  BY GotoType DEF Throw, AfterTx, Labels
<1>3. lock' \in [Keys -> Requests \cup {None}]
  BY ReleaseType DEF Throw, ReleaseInner, TypeOK
<1>4. Rollback(r) /\ UNCHANGED rows
  BY DEF Throw
<1> QED BY <1>1, <1>2, <1>3, <1>4, RollbackType DEF TypeOK, rows

LEMMA CommitType ==
    ASSUME TypeOK, NEW r \in Requests, Commit(r)
    PROVE  TypeOK'
<1> DEFINE u == Caller[r]
<1>1. u \in Users /\ PaymentOf[r] \in Requests
  BY RequestAssumption
<1>2. NewEntry(r) \in Entries
  <2>1. Amount[OrderOf[r]] \in Int /\ CreditAmount(r) \in Int
    BY RequestAssumption, RowAssumption DEF CreditAmount
  <2>2. balanceDraft[u] \in Int
    BY <1>1 DEF TypeOK
  <2> QED BY <2>1, <2>2 DEF NewEntry, Entries, EntryType
<1>3. history' \in [Users -> Seq(Entries)]
  BY <1>1, <1>2 DEF TypeOK, Commit
<1>4. /\ stock' \in [Variants -> Int]
      /\ balance' \in [Users -> Int]
      /\ account' \subseteq Users
      /\ tx' \in [Requests -> {"none", "open", "dead"}]
      /\ outcome' \in [Requests -> {"none", "ok", "error"}]
  BY <1>1 DEF TypeOK, Commit
<1>5. /\ payStatus' \in [Requests -> PaymentStatus]
      /\ orderStatus' \in [Orders -> OrderStatus]
  BY <1>1 DEF TypeOK, Commit, WriteStatus, PaymentStatus, OrderStatus
<1>6. /\ shared' \in [Rows -> SUBSET Requests]
      /\ excl' \in [Rows -> Requests \cup {None}]
  BY DEF TypeOK, Commit, FreeRows
<1>7. pc' \in [Requests -> Labels]
  BY GotoType DEF Commit, AfterTx, Labels
<1> QED BY <1>3, <1>4, <1>5, <1>6, <1>7 DEF TypeOK, Commit, drafts

LEMMA StepType == TypeOK /\ [Next]_vars => TypeOK'
<1> SUFFICES ASSUME TypeOK, [Next]_vars
             PROVE  TypeOK'
  OBVIOUS
<1> USE DEF control, locks, drafts, rows
<1>1. ASSUME NEW r \in Requests, TakeOuterLock(r)
      PROVE  TypeOK'
  BY <1>1, OuterKeyType, AcquireType, GotoType DEF TypeOK, TakeOuterLock, Labels
<1>2. ASSUME NEW r \in Requests, StartCharge(r)
      PROVE  TypeOK'
  BY <1>2, GotoType DEF TypeOK, StartCharge, Labels
<1>3. ASSUME NEW r \in Requests, RefuseOuterLock(r)
      PROVE  TypeOK'
  BY <1>3, GotoType DEF TypeOK, RefuseOuterLock, Labels
<1>4. ASSUME NEW r \in Requests, Begin(r)
      PROVE  TypeOK'
  BY <1>4, GotoType DEF TypeOK, Begin, Labels
<1>5. ASSUME NEW r \in Requests, RefuseBegin(r)
      PROVE  TypeOK'
  BY <1>5, GotoType DEF TypeOK, RefuseBegin, AfterTx, Labels
<1>6. ASSUME NEW r \in Requests, ReadRequest(r)
      PROVE  TypeOK'
  BY <1>6, GotoType, RowTypes, ShareType, RequestAssumption
     DEF TypeOK, ReadRequest, Lines, Labels
<1>7. ASSUME NEW r \in Requests, NEW v \in Variants, ReadItem(r, v)
      PROVE  TypeOK'
  BY <1>7, RowTypes, ShareType DEF TypeOK, ReadItem
<1>8. ASSUME NEW r \in Requests, ItemsRead(r)
      PROVE  TypeOK'
  BY <1>8, GotoType DEF TypeOK, ItemsRead, Labels
<1>9. ASSUME NEW r \in Requests, NEW v \in Variants, TakeProductLock(r, v)
      PROVE  TypeOK'
  BY <1>9, KeyTypes, AcquireType, GotoType DEF TypeOK, TakeProductLock, Labels
<1>10. ASSUME NEW r \in Requests, MoveStock(r)
      PROVE  TypeOK'
  <2>1. \A v \in Variants : StockMove(r, v) \in Int
    BY RowAssumption, RequestAssumption DEF StockMove
  <2>2. stockDraft' \in [Variants -> Int]
    <3>1. stockDraft \in [Variants -> Int] /\ cur[r] \in Variants \cup {None}
      BY DEF TypeOK
    <3>2. stockDraft' = [stockDraft EXCEPT ![cur[r]] = @ + StockMove(r, cur[r])]
      BY <1>10 DEF MoveStock
    <3>3. CASE cur[r] \in Variants
      BY <2>1, <3>1, <3>2, <3>3
    <3>4. CASE cur[r] = None
      BY <3>1, <3>2, <3>4, RequestAssumption
    <3> QED BY <3>1, <3>3, <3>4
  <2> QED
    BY <1>10, <2>2, OwnType, ReleaseType, GotoType DEF TypeOK, MoveStock, Labels
<1>11. ASSUME NEW r \in Requests, TakeBalanceLock(r)
      PROVE  TypeOK'
  BY <1>11, KeyTypes, AcquireType, GotoType, RequestAssumption
     DEF TypeOK, TakeBalanceLock, Labels
<1>12. ASSUME NEW r \in Requests, RefuseInnerLock(r)
      PROVE  TypeOK'
  BY <1>12, ThrowType DEF RefuseInnerLock
<1>13. ASSUME NEW r \in Requests, Deduct(r)
      PROVE  TypeOK'
  <2>1. Caller[r] \in Users /\ Amount[OrderOf[r]] \in Int
    BY RowAssumption, RequestAssumption
  <2>2. balanceDraft' \in [Users -> Int]
    BY <1>13, <2>1 DEF TypeOK, Deduct
  <2> QED
    BY <1>13, <2>2, OwnType, ReleaseType, GotoType DEF TypeOK, Deduct, Labels
<1>14. ASSUME NEW r \in Requests, WriteCredit(r)
      PROVE  TypeOK'
  <2>1. Caller[r] \in Users /\ CreditAmount(r) \in Int
    BY RowAssumption, RequestAssumption DEF CreditAmount
  <2>2. balanceDraft' \in [Users -> Int]
    BY <1>14, <2>1 DEF TypeOK, WriteCredit
  <2>3. lock' \in [Keys -> Requests \cup {None}]
    BY <1>14, ReleaseType DEF TypeOK, WriteCredit
  <2> QED
    BY <1>14, <2>2, <2>3, OwnType, GotoType DEF TypeOK, WriteCredit, Labels
<1>15. ASSUME NEW r \in Requests, CreditGap(r)
      PROVE  TypeOK'
  BY <1>15, ShareType, GotoType DEF TypeOK, CreditGap, Labels
<1>16. ASSUME NEW r \in Requests, Record(r)
      PROVE  TypeOK'
  BY <1>16, OwnType, GotoType DEF TypeOK, Record, Labels
<1>17. ASSUME NEW r \in Requests, Commit(r)
      PROVE  TypeOK'
  BY <1>17, CommitType
<1>18. ASSUME NEW r \in Requests, Refuse(r)
      PROVE  TypeOK'
  BY <1>18, ThrowType DEF Refuse
<1>19. ASSUME NEW r \in Requests, NoticeDeath(r)
      PROVE  TypeOK'
  BY <1>19, ThrowType DEF NoticeDeath
<1>20. ASSUME NEW r \in Requests, TxDies(r)
      PROVE  TypeOK'
  BY <1>20, RollbackType DEF TypeOK, TxDies
<1>21. ASSUME NEW r \in Requests, Unlock(r)
      PROVE  TypeOK'
  BY <1>21, ReleaseType, GotoType DEF TypeOK, Unlock, Labels
<1>22. ASSUME NEW r \in Requests, Patch(r)
      PROVE  TypeOK'
  BY <1>22, GotoType, RequestAssumption DEF TypeOK, Patch, Labels
<1>23. ASSUME NEW r \in Requests, Crash(r)
      PROVE  TypeOK'
  BY <1>23, RollbackType, GotoType DEF TypeOK, Crash, Labels
<1>24. ASSUME NEW k \in Keys, LeaseExpires(k)
      PROVE  TypeOK'
  BY <1>24 DEF TypeOK, LeaseExpires, LeaseOver
<1>25. CASE UNCHANGED vars
  BY <1>25 DEF TypeOK, vars
<1> QED
  BY <1>1, <1>2, <1>3, <1>4, <1>5, <1>6, <1>7, <1>8, <1>9, <1>10, <1>11, <1>12, <1>13,
     <1>14, <1>15, <1>16, <1>17, <1>18, <1>19, <1>20, <1>21, <1>22, <1>23, <1>24, <1>25
     DEF Next, Handle, CreditRow, CreditInsert, Finished

\* Every variable keeps its type, whatever requests are made.
THEOREM TypeCorrect == Spec => []TypeOK
BY InitType, StepType, PTL DEF Spec

-----------------------------------------------------------------------------
(* LocksCover is inductive *)

LEMMA InitCovers == Init => LocksCover
<1> SUFFICES ASSUME Init
             PROVE  LocksCover
  OBVIOUS
<1>1. TypeOK
  BY InitType
<1>2. Control /\ KeyHeld /\ Accepted /\ OrderOwned
  BY DEF Init, Control, Working, KeyHeld, Accepted, HasRead, OrderOwned
<1>3. RowLocks
  BY DEF Init, RowLocks
<1>4. StockDrafts
  BY RowTypes, RowAssumption DEF Init, StockDrafts, Handled, HasRead
<1>5. BalanceDrafts
  BY RowTypes, RowAssumption DEF Init, BalanceDrafts, Booked
<1> QED BY <1>1, <1>2, <1>3, <1>4, <1>5 DEF LocksCover

-----------------------------------------------------------------------------
(* The handler's control and its keys *)

\* The places a handler can be in and what it knows there.
LEMMA ControlStep == LocksCover /\ [Next]_vars => Control'
<1> SUFFICES ASSUME LocksCover, [Next]_vars
             PROVE  Control'
  OBVIOUS
<1>1. ASSUME NEW r \in Requests, TakeOuterLock(r)
      PROVE  Control'
  BY <1>1, ConstantTypes
     DEF TakeOuterLock, LocksCover, TypeOK, Control, Goto, locks, drafts,
         rows, Working, Keyed
<1>2. ASSUME NEW r \in Requests, StartCharge(r)
      PROVE  Control'
  BY <1>2, ConstantTypes
     DEF StartCharge, LocksCover, TypeOK, Control, Goto, locks, drafts, rows,
         Working, Keyed
<1>3. ASSUME NEW r \in Requests, RefuseOuterLock(r)
      PROVE  Control'
  BY <1>3, ConstantTypes
     DEF RefuseOuterLock, LocksCover, TypeOK, Control, Goto, locks, drafts,
         rows, Working, Keyed
<1>4. ASSUME NEW r \in Requests, Begin(r)
      PROVE  Control'
  BY <1>4, ConstantTypes
     DEF Begin, LocksCover, TypeOK, Control, Goto, locks, drafts, rows,
         Working, Keyed
<1>5. ASSUME NEW r \in Requests, RefuseBegin(r)
      PROVE  Control'
  BY <1>5, ConstantTypes
     DEF RefuseBegin, LocksCover, TypeOK, Control, Goto, AfterTx, locks,
         drafts, rows, Working, Keyed
<1>6. ASSUME NEW r \in Requests, ReadRequest(r)
      PROVE  Control'
  BY <1>6, ConstantTypes
     DEF ReadRequest, LocksCover, TypeOK, Control, InTx, locks, Goto, drafts,
         rows, Working, Keyed
<1>7. ASSUME NEW r \in Requests, NEW v \in Variants, ReadItem(r, v)
      PROVE  Control'
  BY <1>7, ConstantTypes
     DEF ReadItem, LocksCover, TypeOK, Control, InTx, control, drafts, rows,
         Working, Keyed
<1>8. ASSUME NEW r \in Requests, ItemsRead(r)
      PROVE  Control'
  BY <1>8, ConstantTypes
     DEF ItemsRead, LocksCover, TypeOK, Control, InTx, Goto, locks, drafts,
         rows, Working, Keyed
<1>9. ASSUME NEW r \in Requests, NEW v \in Variants, TakeProductLock(r, v)
      PROVE  Control'
  BY <1>9, ConstantTypes
     DEF TakeProductLock, LocksCover, TypeOK, Control, Goto, locks, drafts,
         rows, Working, Keyed
<1>10. ASSUME NEW r \in Requests, MoveStock(r)
      PROVE  Control'
  BY <1>10, ConstantTypes
     DEF MoveStock, LocksCover, TypeOK, Control, InTx, Goto, rows, Working,
         Keyed
<1>11. ASSUME NEW r \in Requests, TakeBalanceLock(r)
      PROVE  Control'
  BY <1>11, ConstantTypes
     DEF TakeBalanceLock, LocksCover, TypeOK, Control, Goto, locks, drafts,
         rows, Working, Keyed
<1>12. ASSUME NEW r \in Requests, RefuseInnerLock(r)
      PROVE  Control'
  BY <1>12, ConstantTypes
     DEF RefuseInnerLock, LocksCover, TypeOK, Control, Throw, Working, Keyed,
         Goto, AfterTx, rows
<1>13. ASSUME NEW r \in Requests, Deduct(r)
      PROVE  Control'
  BY <1>13, ConstantTypes
     DEF Deduct, LocksCover, TypeOK, Control, InTx, Goto, rows, Working, Keyed
<1>14. ASSUME NEW r \in Requests, CreditRow(r)
      PROVE  Control'
  BY <1>14, ConstantTypes
     DEF CreditRow, LocksCover, TypeOK, Control, InTx, WriteCredit, Working,
         Keyed, Goto, rows
<1>15. ASSUME NEW r \in Requests, CreditGap(r)
      PROVE  Control'
  BY <1>15, ConstantTypes
     DEF CreditGap, LocksCover, TypeOK, Control, InTx, Goto, drafts, rows,
         Working, Keyed
<1>16. ASSUME NEW r \in Requests, CreditInsert(r)
      PROVE  Control'
  BY <1>16, ConstantTypes
     DEF CreditInsert, LocksCover, TypeOK, Control, InTx, WriteCredit,
         Working, Keyed, Goto, rows
<1>17. ASSUME NEW r \in Requests, Record(r)
      PROVE  Control'
  BY <1>17, ConstantTypes
     DEF Record, LocksCover, TypeOK, Control, InTx, Goto, drafts, rows,
         Working, Keyed
<1>18. ASSUME NEW r \in Requests, Commit(r)
      PROVE  Control'
  BY <1>18, ConstantTypes
     DEF Commit, LocksCover, TypeOK, Control, InTx, Goto, AfterTx, drafts,
         Working, Keyed
<1>19. ASSUME NEW r \in Requests, Refuse(r)
      PROVE  Control'
  BY <1>19, ConstantTypes
     DEF Refuse, LocksCover, TypeOK, Control, Throw, Working, Keyed, Goto,
         AfterTx, rows
<1>20. ASSUME NEW r \in Requests, TxDies(r)
      PROVE  Control'
  BY <1>20, ConstantTypes
     DEF TxDies, LocksCover, TypeOK, Control, rows, Working, Keyed
<1>21. ASSUME NEW r \in Requests, NoticeDeath(r)
      PROVE  Control'
  BY <1>21, ConstantTypes
     DEF NoticeDeath, LocksCover, TypeOK, Control, Throw, Working, Keyed,
         Goto, AfterTx, rows
<1>22. ASSUME NEW r \in Requests, Unlock(r)
      PROVE  Control'
  BY <1>22, ConstantTypes
     DEF Unlock, LocksCover, TypeOK, Control, Goto, locks, drafts, rows,
         Working, Keyed
<1>23. ASSUME NEW r \in Requests, Patch(r)
      PROVE  Control'
  BY <1>23, ConstantTypes
     DEF Patch, LocksCover, TypeOK, Control, Goto, locks, drafts, Working,
         Keyed
<1>24. ASSUME NEW r \in Requests, Crash(r)
      PROVE  Control'
  BY <1>24, ConstantTypes
     DEF Crash, LocksCover, TypeOK, Control, Goto, rows, Working, Keyed
<1>25. ASSUME NEW k \in Keys, LeaseExpires(k)
      PROVE  Control'
  BY <1>25, ConstantTypes
     DEF LeaseExpires, LeaseOver, LocksCover, TypeOK, Control, control, locks, drafts,
         rows, Working, Keyed
<1>26. CASE UNCHANGED vars
  BY <1>26
     DEF vars, LocksCover, TypeOK, Control, control, locks, drafts, rows,
         Working, Keyed
<1> QED
  BY <1>1, <1>2, <1>3, <1>4, <1>5, <1>6, <1>7, <1>8, <1>9, <1>10, <1>11,
     <1>12, <1>13, <1>14, <1>15, <1>16, <1>17, <1>18, <1>19, <1>20, <1>21,
     <1>22, <1>23, <1>24, <1>25, <1>26
     DEF Next, Handle, Finished

\* Giving back an inner key takes no outer key from anyone.
LEMMA OuterKeysStay ==
    ASSUME LocksCover, NEW r \in Requests, NEW k, Release(r, k),
           \A s \in Requests : k # OuterKey(s),
           \A s \in Requests : /\ pc'[s] = "begin" => pc[s] = "begin"
                               /\ tx'[s] = "open" => tx[s] = "open"
    PROVE  KeyHeld'
<1>1. \A s \in Requests : lock'[OuterKey(s)] = lock[OuterKey(s)]
  BY OuterKeyType, ReleaseKeeps DEF LocksCover
<1> QED BY <1>1 DEF LocksCover, KeyHeld, Keyed

\* A key is held as long as its holder is at work in the transaction.
LEMMA KeyStep == LocksCover /\ [Next]_vars => KeyHeld'
<1> SUFFICES ASSUME LocksCover, [Next]_vars
             PROVE  KeyHeld'
  OBVIOUS
<1>1. ASSUME NEW r \in Requests, TakeOuterLock(r)
      PROVE  KeyHeld'
  BY <1>1, ConstantTypes, OuterKeyType, KeysDiffer
     DEF TakeOuterLock, LocksCover, TypeOK, KeyHeld, Control, Acquire, Goto,
         locks, drafts, rows, Keyed, Working
<1>2. ASSUME NEW r \in Requests, StartCharge(r)
      PROVE  KeyHeld'
  BY <1>2, ConstantTypes, OuterKeyType, KeysDiffer
     DEF StartCharge, LocksCover, TypeOK, KeyHeld, Control, Goto, locks,
         drafts, rows, Keyed, Working
<1>3. ASSUME NEW r \in Requests, RefuseOuterLock(r)
      PROVE  KeyHeld'
  BY <1>3, ConstantTypes, OuterKeyType, KeysDiffer
     DEF RefuseOuterLock, LocksCover, TypeOK, KeyHeld, Control, Goto, locks,
         drafts, rows, Keyed, Working
<1>4. ASSUME NEW r \in Requests, Begin(r)
      PROVE  KeyHeld'
  BY <1>4, ConstantTypes, OuterKeyType, KeysDiffer
     DEF Begin, LocksCover, TypeOK, KeyHeld, Control, Goto, locks, drafts,
         rows, Keyed, Working
<1>5. ASSUME NEW r \in Requests, RefuseBegin(r)
      PROVE  KeyHeld'
  BY <1>5, ConstantTypes, OuterKeyType, KeysDiffer
     DEF RefuseBegin, LocksCover, TypeOK, KeyHeld, Control, Goto, AfterTx,
         locks, drafts, rows, Keyed, Working
<1>6. ASSUME NEW r \in Requests, ReadRequest(r)
      PROVE  KeyHeld'
  BY <1>6, ConstantTypes, OuterKeyType, KeysDiffer
     DEF ReadRequest, LocksCover, TypeOK, KeyHeld, Control, InTx, locks, Goto,
         drafts, rows, Keyed, Working
<1>7. ASSUME NEW r \in Requests, NEW v \in Variants, ReadItem(r, v)
      PROVE  KeyHeld'
  BY <1>7, ConstantTypes, OuterKeyType, KeysDiffer
     DEF ReadItem, LocksCover, TypeOK, KeyHeld, Control, InTx, control,
         drafts, rows, Keyed, Working
<1>8. ASSUME NEW r \in Requests, ItemsRead(r)
      PROVE  KeyHeld'
  BY <1>8, ConstantTypes, OuterKeyType, KeysDiffer
     DEF ItemsRead, LocksCover, TypeOK, KeyHeld, Control, InTx, Goto, locks,
         drafts, rows, Keyed, Working
<1>9. ASSUME NEW r \in Requests, NEW v \in Variants, TakeProductLock(r, v)
      PROVE  KeyHeld'
  BY <1>9, ConstantTypes, OuterKeyType, KeysDiffer
     DEF TakeProductLock, LocksCover, TypeOK, KeyHeld, Control, Acquire, Goto,
         locks, drafts, rows, Keyed, Working
<1>10. ASSUME NEW r \in Requests, MoveStock(r)
      PROVE  KeyHeld'
  BY <1>10, ConstantTypes, OuterKeyType, KeysDiffer
     DEF MoveStock, LocksCover, TypeOK, KeyHeld, Control, InTx, Release, Goto,
         rows, Keyed, Working
<1>11. ASSUME NEW r \in Requests, TakeBalanceLock(r)
      PROVE  KeyHeld'
  BY <1>11, ConstantTypes, OuterKeyType, KeysDiffer
     DEF TakeBalanceLock, LocksCover, TypeOK, KeyHeld, Control, Acquire, Goto,
         locks, drafts, rows, Keyed, Working
<1>12. ASSUME NEW r \in Requests, RefuseInnerLock(r)
      PROVE  KeyHeld'
  BY <1>12, ConstantTypes, OuterKeyType, KeysDiffer
     DEF RefuseInnerLock, LocksCover, TypeOK, KeyHeld, Control, Throw, Keyed,
         Working, ReleaseInner, Goto, AfterTx, rows, Release
<1>13. ASSUME NEW r \in Requests, Deduct(r)
      PROVE  KeyHeld'
  <2>1. Release(r, Key("balance", Caller[r]))
    BY <1>13 DEF Deduct
  <2>2. \A s \in Requests : /\ pc'[s] = "begin" => pc[s] = "begin"
                            /\ tx'[s] = "open" => tx[s] = "open"
    BY <1>13 DEF LocksCover, TypeOK, Deduct, InTx, Goto
  <2> QED BY <2>1, <2>2, KeysDiffer, OuterKeysStay
<1>14. ASSUME NEW r \in Requests, CreditRow(r)
      PROVE  KeyHeld'
  <2>1. \A s \in Requests : /\ pc'[s] = "begin" => pc[s] = "begin"
                            /\ tx'[s] = "open" => tx[s] = "open"
    BY <1>14 DEF LocksCover, TypeOK, CreditRow, WriteCredit, InTx, Goto
  <2>2. CASE Kind[r] = "charge"
    BY <1>14, <2>1, <2>2 DEF LocksCover, KeyHeld, CreditRow, WriteCredit
  <2>3. CASE Kind[r] # "charge"
    <3>1. Release(r, Key("balance", Caller[r]))
      BY <1>14, <2>3 DEF CreditRow, WriteCredit
    <3> QED BY <2>1, <3>1, KeysDiffer, OuterKeysStay
  <2> QED BY <2>2, <2>3
<1>15. ASSUME NEW r \in Requests, CreditGap(r)
      PROVE  KeyHeld'
  BY <1>15, ConstantTypes, OuterKeyType, KeysDiffer
     DEF CreditGap, LocksCover, TypeOK, KeyHeld, Control, InTx, Goto, drafts,
         rows, Keyed, Working
<1>16. ASSUME NEW r \in Requests, CreditInsert(r)
      PROVE  KeyHeld'
  <2>1. \A s \in Requests : /\ pc'[s] = "begin" => pc[s] = "begin"
                            /\ tx'[s] = "open" => tx[s] = "open"
    BY <1>16 DEF LocksCover, TypeOK, CreditInsert, WriteCredit, InTx, Goto
  <2>2. CASE Kind[r] = "charge"
    BY <1>16, <2>1, <2>2 DEF LocksCover, KeyHeld, CreditInsert, WriteCredit
  <2>3. CASE Kind[r] # "charge"
    <3>1. Release(r, Key("balance", Caller[r]))
      BY <1>16, <2>3 DEF CreditInsert, WriteCredit
    <3> QED BY <2>1, <3>1, KeysDiffer, OuterKeysStay
  <2> QED BY <2>2, <2>3
<1>17. ASSUME NEW r \in Requests, Record(r)
      PROVE  KeyHeld'
  BY <1>17, ConstantTypes, OuterKeyType, KeysDiffer
     DEF Record, LocksCover, TypeOK, KeyHeld, Control, InTx, Goto, drafts,
         rows, Keyed, Working
<1>18. ASSUME NEW r \in Requests, Commit(r)
      PROVE  KeyHeld'
  BY <1>18, ConstantTypes, OuterKeyType, KeysDiffer
     DEF Commit, LocksCover, TypeOK, KeyHeld, Control, InTx, Goto, AfterTx,
         drafts, Keyed, Working
<1>19. ASSUME NEW r \in Requests, Refuse(r)
      PROVE  KeyHeld'
  BY <1>19, ConstantTypes, OuterKeyType, KeysDiffer
     DEF Refuse, LocksCover, TypeOK, KeyHeld, Control, Throw, Keyed, Working,
         ReleaseInner, Goto, AfterTx, rows, Release
<1>20. ASSUME NEW r \in Requests, TxDies(r)
      PROVE  KeyHeld'
  BY <1>20, ConstantTypes, OuterKeyType, KeysDiffer
     DEF TxDies, LocksCover, TypeOK, KeyHeld, Control, rows, Keyed, Working
<1>21. ASSUME NEW r \in Requests, NoticeDeath(r)
      PROVE  KeyHeld'
  BY <1>21, ConstantTypes, OuterKeyType, KeysDiffer
     DEF NoticeDeath, LocksCover, TypeOK, KeyHeld, Control, Throw, Keyed,
         Working, ReleaseInner, Goto, AfterTx, rows, Release
<1>22. ASSUME NEW r \in Requests, Unlock(r)
      PROVE  KeyHeld'
  <2>1. /\ tx' = tx /\ tx[r] = "none"
        /\ \A s \in Requests \ {r} : pc'[s] = pc[s]
        /\ pc'[r] = "done"
    BY <1>22 DEF LocksCover, TypeOK, Control, Working, Unlock, Goto
  <2>2. \A s \in Requests \ {r} :
            lock[OuterKey(s)] = s => lock'[OuterKey(s)] = s
    BY <1>22, OuterKeyType, ReleaseKeeps DEF LocksCover, Unlock
  <2> QED BY <2>1, <2>2 DEF LocksCover, KeyHeld
<1>23. ASSUME NEW r \in Requests, Patch(r)
      PROVE  KeyHeld'
  BY <1>23, ConstantTypes, OuterKeyType, KeysDiffer
     DEF Patch, LocksCover, TypeOK, KeyHeld, Control, Goto, locks, drafts,
         Keyed, Working
<1>24. ASSUME NEW r \in Requests, Crash(r)
      PROVE  KeyHeld'
  BY <1>24, ConstantTypes, OuterKeyType, KeysDiffer
     DEF Crash, LocksCover, TypeOK, KeyHeld, Control, Goto, rows, Keyed,
         Working
<1>25. ASSUME NEW k \in Keys, LeaseExpires(k)
      PROVE  KeyHeld'
  BY <1>25, ConstantTypes, OuterKeyType, KeysDiffer
     DEF LeaseExpires, LeaseOver, LocksCover, TypeOK, KeyHeld, Control, control, locks,
         drafts, rows, Keyed, Working
<1>26. CASE UNCHANGED vars
  BY <1>26
     DEF vars, LocksCover, TypeOK, KeyHeld, Control, control, locks, drafts,
         rows, Keyed, Working
<1> QED
  BY <1>1, <1>2, <1>3, <1>4, <1>5, <1>6, <1>7, <1>8, <1>9, <1>10, <1>11,
     <1>12, <1>13, <1>14, <1>15, <1>16, <1>17, <1>18, <1>19, <1>20, <1>21,
     <1>22, <1>23, <1>24, <1>25, <1>26
     DEF Next, Handle, Finished

-----------------------------------------------------------------------------
(* Row locks, and what they protect *)

\* Row locks exclude one another and end with the transaction.
LEMMA RowStep == LocksCover /\ [Next]_vars => RowLocks'
<1> SUFFICES ASSUME LocksCover, [Next]_vars
             PROVE  RowLocks'
  OBVIOUS
<1>1. ASSUME NEW r \in Requests, TakeOuterLock(r)
      PROVE  RowLocks'
  BY <1>1, ConstantTypes, RowTypes
     DEF TakeOuterLock, LocksCover, TypeOK, RowLocks, Control, Goto, locks,
         drafts, rows, Working, Keyed
<1>2. ASSUME NEW r \in Requests, StartCharge(r)
      PROVE  RowLocks'
  BY <1>2, ConstantTypes, RowTypes
     DEF StartCharge, LocksCover, TypeOK, RowLocks, Control, Goto, locks,
         drafts, rows, Working, Keyed
<1>3. ASSUME NEW r \in Requests, RefuseOuterLock(r)
      PROVE  RowLocks'
  BY <1>3, ConstantTypes, RowTypes
     DEF RefuseOuterLock, LocksCover, TypeOK, RowLocks, Control, Goto, locks,
         drafts, rows, Working, Keyed
<1>4. ASSUME NEW r \in Requests, Begin(r)
      PROVE  RowLocks'
  BY <1>4, ConstantTypes, RowTypes
     DEF Begin, LocksCover, TypeOK, RowLocks, Control, Goto, locks, drafts,
         rows, Working, Keyed
<1>5. ASSUME NEW r \in Requests, RefuseBegin(r)
      PROVE  RowLocks'
  BY <1>5, ConstantTypes, RowTypes
     DEF RefuseBegin, LocksCover, TypeOK, RowLocks, Control, Goto, AfterTx,
         locks, drafts, rows, Working, Keyed
<1>6. ASSUME NEW r \in Requests, ReadRequest(r)
      PROVE  RowLocks'
  <2>1. CASE Kind[r] = "pay"
    <3> DEFINE w == Row("order", OrderOf[r])
    <3>1. /\ w \in Rows /\ excl[w] \in {None, r} /\ tx[r] = "open"
          /\ shared' = [shared EXCEPT ![w] = @ \cup {r}]
          /\ excl' = excl /\ tx' = tx
      BY <1>6, <2>1, ConstantTypes, RowTypes DEF ReadRequest, InTx, Share, CanShare
    <3> QED BY <3>1 DEF LocksCover, TypeOK, RowLocks
  <2>2. CASE Kind[r] # "pay"
    BY <1>6, <2>2 DEF LocksCover, RowLocks, ReadRequest, locks
  <2> QED BY <2>1, <2>2
<1>7. ASSUME NEW r \in Requests, NEW v \in Variants, ReadItem(r, v)
      PROVE  RowLocks'
  BY <1>7, ConstantTypes, RowTypes
     DEF ReadItem, LocksCover, TypeOK, RowLocks, Control, InTx, Share,
         control, drafts, rows, Working, Keyed, CanShare
<1>8. ASSUME NEW r \in Requests, ItemsRead(r)
      PROVE  RowLocks'
  BY <1>8, ConstantTypes, RowTypes
     DEF ItemsRead, LocksCover, TypeOK, RowLocks, Control, InTx, Goto, locks,
         drafts, rows, Working, Keyed
<1>9. ASSUME NEW r \in Requests, NEW v \in Variants, TakeProductLock(r, v)
      PROVE  RowLocks'
  BY <1>9, ConstantTypes, RowTypes
     DEF TakeProductLock, LocksCover, TypeOK, RowLocks, Control, Goto, locks,
         drafts, rows, Working, Keyed
<1>10. ASSUME NEW r \in Requests, MoveStock(r)
      PROVE  RowLocks'
  BY <1>10, ConstantTypes, RowTypes
     DEF MoveStock, LocksCover, TypeOK, RowLocks, Control, InTx, Own, Goto,
         rows, Working, Keyed, CanOwn, CanShare
<1>11. ASSUME NEW r \in Requests, TakeBalanceLock(r)
      PROVE  RowLocks'
  BY <1>11, ConstantTypes, RowTypes
     DEF TakeBalanceLock, LocksCover, TypeOK, RowLocks, Control, Goto, locks,
         drafts, rows, Working, Keyed
<1>12. ASSUME NEW r \in Requests, RefuseInnerLock(r)
      PROVE  RowLocks'
  BY <1>12, ConstantTypes, RowTypes
     DEF RefuseInnerLock, LocksCover, TypeOK, RowLocks, Control, Throw,
         Working, Keyed, Rollback, Goto, AfterTx, rows, FreeRows
<1>13. ASSUME NEW r \in Requests, Deduct(r)
      PROVE  RowLocks'
  BY <1>13, ConstantTypes, RowTypes
     DEF Deduct, LocksCover, TypeOK, RowLocks, Control, InTx, Own, Goto, rows,
         Working, Keyed, CanOwn, CanShare
<1>14. ASSUME NEW r \in Requests, CreditRow(r)
      PROVE  RowLocks'
  BY <1>14, ConstantTypes, RowTypes
     DEF CreditRow, LocksCover, TypeOK, RowLocks, Control, InTx, WriteCredit,
         Working, Keyed, Own, Goto, rows, CanOwn, CanShare
<1>15. ASSUME NEW r \in Requests, CreditGap(r)
      PROVE  RowLocks'
  BY <1>15, ConstantTypes, RowTypes
     DEF CreditGap, LocksCover, TypeOK, RowLocks, Control, InTx, Share, Goto,
         drafts, rows, Working, Keyed, CanShare
<1>16. ASSUME NEW r \in Requests, CreditInsert(r)
      PROVE  RowLocks'
  BY <1>16, ConstantTypes, RowTypes
     DEF CreditInsert, LocksCover, TypeOK, RowLocks, Control, InTx,
         WriteCredit, Working, Keyed, Own, Goto, rows, CanOwn, CanShare
<1>17. ASSUME NEW r \in Requests, Record(r)
      PROVE  RowLocks'
  BY <1>17, ConstantTypes, RowTypes
     DEF Record, LocksCover, TypeOK, RowLocks, Control, InTx, Own, Goto,
         drafts, rows, Working, Keyed, CanOwn, CanShare
<1>18. ASSUME NEW r \in Requests, Commit(r)
      PROVE  RowLocks'
  BY <1>18, ConstantTypes, RowTypes
     DEF Commit, LocksCover, TypeOK, RowLocks, Control, InTx, FreeRows, Goto,
         AfterTx, drafts, Working, Keyed
<1>19. ASSUME NEW r \in Requests, Refuse(r)
      PROVE  RowLocks'
  BY <1>19, ConstantTypes, RowTypes
     DEF Refuse, LocksCover, TypeOK, RowLocks, Control, Throw, Working, Keyed,
         Rollback, Goto, AfterTx, rows, FreeRows
<1>20. ASSUME NEW r \in Requests, TxDies(r)
      PROVE  RowLocks'
  BY <1>20, ConstantTypes, RowTypes
     DEF TxDies, LocksCover, TypeOK, RowLocks, Control, Rollback, rows,
         Working, Keyed, FreeRows
<1>21. ASSUME NEW r \in Requests, NoticeDeath(r)
      PROVE  RowLocks'
  BY <1>21, ConstantTypes, RowTypes
     DEF NoticeDeath, LocksCover, TypeOK, RowLocks, Control, Throw, Working,
         Keyed, Rollback, Goto, AfterTx, rows, FreeRows
<1>22. ASSUME NEW r \in Requests, Unlock(r)
      PROVE  RowLocks'
  BY <1>22, ConstantTypes, RowTypes
     DEF Unlock, LocksCover, TypeOK, RowLocks, Control, Goto, locks, drafts,
         rows, Working, Keyed
<1>23. ASSUME NEW r \in Requests, Patch(r)
      PROVE  RowLocks'
  BY <1>23, ConstantTypes, RowTypes
     DEF Patch, LocksCover, TypeOK, RowLocks, Control, CanOwn, Goto, locks,
         drafts, Working, Keyed, CanShare
<1>24. ASSUME NEW r \in Requests, Crash(r)
      PROVE  RowLocks'
  BY <1>24, ConstantTypes, RowTypes
     DEF Crash, LocksCover, TypeOK, RowLocks, Control, Goto, Rollback, rows,
         Working, Keyed, FreeRows
<1>25. ASSUME NEW k \in Keys, LeaseExpires(k)
      PROVE  RowLocks'
  BY <1>25, ConstantTypes, RowTypes
     DEF LeaseExpires, LeaseOver, LocksCover, TypeOK, RowLocks, Control, control, locks,
         drafts, rows, Working, Keyed
<1>26. CASE UNCHANGED vars
  BY <1>26
     DEF vars, LocksCover, TypeOK, RowLocks, Control, control, locks, drafts,
         rows, Working, Keyed
<1> QED
  BY <1>1, <1>2, <1>3, <1>4, <1>5, <1>6, <1>7, <1>8, <1>9, <1>10, <1>11,
     <1>12, <1>13, <1>14, <1>15, <1>16, <1>17, <1>18, <1>19, <1>20, <1>21,
     <1>22, <1>23, <1>24, <1>25, <1>26
     DEF Next, Handle, Finished

\* No other request changes the status a request has been accepted on.
LEMMA AcceptedStep == LocksCover /\ [Next]_vars => Accepted'
<1> SUFFICES ASSUME LocksCover, [Next]_vars
             PROVE  Accepted'
  OBVIOUS
<1>1. ASSUME NEW r \in Requests, TakeOuterLock(r)
      PROVE  Accepted'
  BY <1>1, ConstantTypes, RowTypes, RowsDiffer
     DEF TakeOuterLock, LocksCover, TypeOK, Accepted, Control, RowLocks, Goto,
         locks, drafts, rows, HasRead, Ready, Working, Keyed
<1>2. ASSUME NEW r \in Requests, StartCharge(r)
      PROVE  Accepted'
  BY <1>2, ConstantTypes, RowTypes, RowsDiffer
     DEF StartCharge, LocksCover, TypeOK, Accepted, Control, RowLocks, Goto,
         locks, drafts, rows, HasRead, Ready, Working, Keyed
<1>3. ASSUME NEW r \in Requests, RefuseOuterLock(r)
      PROVE  Accepted'
  BY <1>3, ConstantTypes, RowTypes, RowsDiffer
     DEF RefuseOuterLock, LocksCover, TypeOK, Accepted, Control, RowLocks,
         Goto, locks, drafts, rows, HasRead, Ready, Working, Keyed
<1>4. ASSUME NEW r \in Requests, Begin(r)
      PROVE  Accepted'
  BY <1>4, ConstantTypes, RowTypes, RowsDiffer
     DEF Begin, LocksCover, TypeOK, Accepted, Control, RowLocks, Goto, locks,
         drafts, rows, HasRead, Ready, Working, Keyed
<1>5. ASSUME NEW r \in Requests, RefuseBegin(r)
      PROVE  Accepted'
  BY <1>5, ConstantTypes, RowTypes, RowsDiffer
     DEF RefuseBegin, LocksCover, TypeOK, Accepted, Control, RowLocks, Goto,
         AfterTx, locks, drafts, rows, HasRead, Ready, Working, Keyed
<1>6. ASSUME NEW r \in Requests, ReadRequest(r)
      PROVE  Accepted'
  <2>1. CASE Kind[r] = "pay"
    <3>1. /\ shared' = [shared EXCEPT ![Row("order", OrderOf[r])] = @ \cup {r}]
          /\ Row("order", OrderOf[r]) \in Rows
      BY <1>6, <2>1, ConstantTypes, RowTypes DEF ReadRequest, Share
    <3>2. \A w \in Rows : shared[w] \subseteq shared'[w]
      BY <3>1 DEF LocksCover, TypeOK
    <3>3. r \in shared'[Row("order", OrderOf[r])]
      BY <3>1 DEF LocksCover, TypeOK
    <3> QED
      BY <1>6, <3>2, <3>3, ConstantTypes, RowTypes
         DEF LocksCover, TypeOK, Accepted, HasRead, Keyed, Ready, ReadRequest, Goto, rows
  <2>2. CASE Kind[r] # "pay"
    BY <1>6, <2>2
       DEF LocksCover, TypeOK, Accepted, HasRead, Keyed, Ready, ReadRequest, Goto,
           locks, rows
  <2> QED BY <2>1, <2>2
<1>7. ASSUME NEW r \in Requests, NEW v \in Variants, ReadItem(r, v)
      PROVE  Accepted'
  BY <1>7, ConstantTypes, RowTypes, RowsDiffer
     DEF ReadItem, LocksCover, TypeOK, Accepted, Control, RowLocks, InTx,
         Share, control, drafts, rows, HasRead, Ready, Working, Keyed,
         CanShare
<1>8. ASSUME NEW r \in Requests, ItemsRead(r)
      PROVE  Accepted'
  BY <1>8, ConstantTypes, RowTypes, RowsDiffer
     DEF ItemsRead, LocksCover, TypeOK, Accepted, Control, RowLocks, InTx,
         Goto, locks, drafts, rows, HasRead, Ready, Working, Keyed
<1>9. ASSUME NEW r \in Requests, NEW v \in Variants, TakeProductLock(r, v)
      PROVE  Accepted'
  BY <1>9, ConstantTypes, RowTypes, RowsDiffer
     DEF TakeProductLock, LocksCover, TypeOK, Accepted, Control, RowLocks,
         Goto, locks, drafts, rows, HasRead, Ready, Working, Keyed
<1>10. ASSUME NEW r \in Requests, MoveStock(r)
      PROVE  Accepted'
  BY <1>10, ConstantTypes, RowTypes, RowsDiffer
     DEF MoveStock, LocksCover, TypeOK, Accepted, Control, RowLocks, InTx,
         Own, Goto, rows, HasRead, Ready, Working, Keyed, CanOwn, CanShare
<1>11. ASSUME NEW r \in Requests, TakeBalanceLock(r)
      PROVE  Accepted'
  BY <1>11, ConstantTypes, RowTypes, RowsDiffer
     DEF TakeBalanceLock, LocksCover, TypeOK, Accepted, Control, RowLocks,
         Goto, locks, drafts, rows, HasRead, Ready, Working, Keyed
<1>12. ASSUME NEW r \in Requests, RefuseInnerLock(r)
      PROVE  Accepted'
  BY <1>12, ConstantTypes, RowTypes, RowsDiffer
     DEF RefuseInnerLock, LocksCover, TypeOK, Accepted, Control, RowLocks,
         Throw, HasRead, Ready, Working, Keyed, Rollback, Goto, AfterTx, rows,
         FreeRows
<1>13. ASSUME NEW r \in Requests, Deduct(r)
      PROVE  Accepted'
  BY <1>13, ConstantTypes, RowTypes, RowsDiffer
     DEF Deduct, LocksCover, TypeOK, Accepted, Control, RowLocks, InTx, Own,
         Goto, rows, HasRead, Ready, Working, Keyed, CanOwn, CanShare
<1>14. ASSUME NEW r \in Requests, CreditRow(r)
      PROVE  Accepted'
  BY <1>14, ConstantTypes, RowTypes, RowsDiffer
     DEF CreditRow, LocksCover, TypeOK, Accepted, Control, RowLocks, InTx,
         WriteCredit, HasRead, Ready, Working, Keyed, Own, Goto, rows, CanOwn,
         CanShare
<1>15. ASSUME NEW r \in Requests, CreditGap(r)
      PROVE  Accepted'
  BY <1>15, ConstantTypes, RowTypes, RowsDiffer
     DEF CreditGap, LocksCover, TypeOK, Accepted, Control, RowLocks, InTx,
         Share, Goto, drafts, rows, HasRead, Ready, Working, Keyed, CanShare
<1>16. ASSUME NEW r \in Requests, CreditInsert(r)
      PROVE  Accepted'
  BY <1>16, ConstantTypes, RowTypes, RowsDiffer
     DEF CreditInsert, LocksCover, TypeOK, Accepted, Control, RowLocks, InTx,
         WriteCredit, HasRead, Ready, Working, Keyed, Own, Goto, rows, CanOwn,
         CanShare
<1>17. ASSUME NEW r \in Requests, Record(r)
      PROVE  Accepted'
  BY <1>17, ConstantTypes, RowTypes, RowsDiffer
     DEF Record, LocksCover, TypeOK, Accepted, Control, RowLocks, InTx, Own,
         Goto, drafts, rows, HasRead, Ready, Working, Keyed, CanOwn, CanShare
<1>18. ASSUME NEW r \in Requests, Commit(r)
      PROVE  Accepted'
  <2> DEFINE o == OrderOf[r]
  <2> SUFFICES ASSUME NEW s \in Requests, HasRead(s)'
               PROVE  /\ Ready(s)'
                      /\ Kind[s] = "pay" => s \in shared'[Row("order", OrderOf[s])]
    BY DEF Accepted
  <2>1. /\ s # r /\ HasRead(s) /\ Ready(s)
        /\ Kind[s] = "pay" => s \in shared[Row("order", OrderOf[s])]
    BY <1>18 DEF LocksCover, TypeOK, Accepted, HasRead, Keyed, Commit, InTx, Goto
  <2>2. CASE Kind[s] = "pay"
    <3>1. s \in shared'[Row("order", OrderOf[s])]
      BY <1>18, <2>1, <2>2, ConstantTypes, RowTypes DEF LocksCover, TypeOK, Commit, FreeRows
    <3>2. CASE Kind[r] = "charge"
      BY <1>18, <2>1, <2>2, <3>1, <3>2 DEF Ready, Commit, WriteStatus
    <3>3. CASE Kind[r] # "charge"
      <4>1. excl[Row("order", o)] = r
        BY <1>18, <3>3, ConstantTypes
           DEF LocksCover, Control, Working, OrderOwned, Owns, Keyed, Commit, InTx
      <4>2. shared[Row("order", o)] \subseteq {r}
        BY <4>1, ConstantTypes, RowTypes DEF LocksCover, RowLocks
      <4>3. OrderOf[s] # o
        BY <2>1, <2>2, <4>2
      <4>4. orderStatus'[OrderOf[s]] = orderStatus[OrderOf[s]]
        BY <1>18, <4>3, ConstantTypes DEF LocksCover, TypeOK, Commit, WriteStatus
      <4> QED BY <2>1, <2>2, <3>1, <4>4 DEF Ready
    <3> QED BY <3>2, <3>3
  <2>3. CASE Kind[s] # "pay"
    <3>1. payStatus[PaymentOf[s]] = "COMPLETED" /\ Kind[s] = "cancel"
      BY <2>1, <2>3 DEF Ready, HasRead, Keyed
    <3>2. Kind[r] = "cancel" => PaymentOf[s] # PaymentOf[r]
      BY <1>18, <2>1, <3>1
         DEF LocksCover, KeyHeld, Keyed, HasRead, OuterKey, Commit, InTx
    <3>3. payStatus'[PaymentOf[s]] = "COMPLETED"
      BY <1>18, <3>1, <3>2, ConstantTypes DEF LocksCover, TypeOK, Commit, WriteStatus
    <3> QED BY <2>1, <2>3, <3>3 DEF Ready
  <2> QED BY <2>2, <2>3
<1>19. ASSUME NEW r \in Requests, Refuse(r)
      PROVE  Accepted'
  BY <1>19, ConstantTypes, RowTypes, RowsDiffer
     DEF Refuse, LocksCover, TypeOK, Accepted, Control, RowLocks, Throw,
         HasRead, Ready, Working, Keyed, Rollback, Goto, AfterTx, rows,
         FreeRows
<1>20. ASSUME NEW r \in Requests, TxDies(r)
      PROVE  Accepted'
  BY <1>20, ConstantTypes, RowTypes, RowsDiffer
     DEF TxDies, LocksCover, TypeOK, Accepted, Control, RowLocks, Rollback,
         rows, HasRead, Ready, Working, Keyed, FreeRows
<1>21. ASSUME NEW r \in Requests, NoticeDeath(r)
      PROVE  Accepted'
  BY <1>21, ConstantTypes, RowTypes, RowsDiffer
     DEF NoticeDeath, LocksCover, TypeOK, Accepted, Control, RowLocks, Throw,
         HasRead, Ready, Working, Keyed, Rollback, Goto, AfterTx, rows,
         FreeRows
<1>22. ASSUME NEW r \in Requests, Unlock(r)
      PROVE  Accepted'
  BY <1>22, ConstantTypes, RowTypes, RowsDiffer
     DEF Unlock, LocksCover, TypeOK, Accepted, Control, RowLocks, Goto, locks,
         drafts, rows, HasRead, Ready, Working, Keyed
<1>23. ASSUME NEW r \in Requests, Patch(r)
      PROVE  Accepted'
  BY <1>23, ConstantTypes, RowTypes, RowsDiffer
     DEF Patch, LocksCover, TypeOK, Accepted, Control, RowLocks, CanOwn, Goto,
         locks, drafts, HasRead, Ready, Working, Keyed, CanShare
<1>24. ASSUME NEW r \in Requests, Crash(r)
      PROVE  Accepted'
  BY <1>24, ConstantTypes, RowTypes, RowsDiffer
     DEF Crash, LocksCover, TypeOK, Accepted, Control, RowLocks, Goto,
         Rollback, rows, HasRead, Ready, Working, Keyed, FreeRows
<1>25. ASSUME NEW k \in Keys, LeaseExpires(k)
      PROVE  Accepted'
  BY <1>25, ConstantTypes, RowTypes, RowsDiffer
     DEF LeaseExpires, LeaseOver, LocksCover, TypeOK, Accepted, Control, RowLocks,
         control, locks, drafts, rows, HasRead, Ready, Working, Keyed
<1>26. CASE UNCHANGED vars
  BY <1>26
     DEF vars, LocksCover, TypeOK, Accepted, Control, RowLocks, control,
         locks, drafts, rows, HasRead, Ready, Working, Keyed
<1> QED
  BY <1>1, <1>2, <1>3, <1>4, <1>5, <1>6, <1>7, <1>8, <1>9, <1>10, <1>11,
     <1>12, <1>13, <1>14, <1>15, <1>16, <1>17, <1>18, <1>19, <1>20, <1>21,
     <1>22, <1>23, <1>24, <1>25, <1>26
     DEF Next, Handle, Finished

\* A stock row is drafted by the one request that has handled its line.
LEMMA StockStep == LocksCover /\ [Next]_vars => StockDrafts'
<1> SUFFICES ASSUME LocksCover, [Next]_vars
             PROVE  StockDrafts'
  OBVIOUS
<1>1. ASSUME NEW r \in Requests, TakeOuterLock(r)
      PROVE  StockDrafts'
  BY <1>1, ConstantTypes, RowTypes, RowsDiffer
     DEF TakeOuterLock, LocksCover, TypeOK, StockDrafts, Control, Goto, locks,
         drafts, rows, Handled, StockMove, Working, Keyed, HasRead
<1>2. ASSUME NEW r \in Requests, StartCharge(r)
      PROVE  StockDrafts'
  BY <1>2, ConstantTypes, RowTypes, RowsDiffer
     DEF StartCharge, LocksCover, TypeOK, StockDrafts, Control, Goto, locks,
         drafts, rows, Handled, StockMove, Working, Keyed, HasRead
<1>3. ASSUME NEW r \in Requests, RefuseOuterLock(r)
      PROVE  StockDrafts'
  BY <1>3, ConstantTypes, RowTypes, RowsDiffer
     DEF RefuseOuterLock, LocksCover, TypeOK, StockDrafts, Control, Goto,
         locks, drafts, rows, Handled, StockMove, Working, Keyed, HasRead
<1>4. ASSUME NEW r \in Requests, Begin(r)
      PROVE  StockDrafts'
  <2>1. \A s \in Requests : Handled(s)' = Handled(s)
    <3>1. Handled(r) = {} /\ Handled(r)' = {}
      <4>1. ~HasRead(r)
        BY <1>4 DEF LocksCover, Control, Working, HasRead, Begin
      <4>2. Keyed(r) => pc'[r] = "read"
        BY <1>4 DEF LocksCover, TypeOK, Keyed, Begin, Goto
      <4> QED BY <4>1, <4>2 DEF Handled, HasRead, Keyed
    <3>2. ASSUME NEW s \in Requests, s # r
          PROVE  Handled(s)' = Handled(s)
      BY <1>4, <3>2 DEF LocksCover, TypeOK, Handled, HasRead, Begin, Goto
    <3> QED BY <3>1, <3>2
  <2> QED
    BY <1>4, <2>1, RowTypes
       DEF LocksCover, TypeOK, StockDrafts, StockMove, Begin, locks, drafts, rows
<1>5. ASSUME NEW r \in Requests, RefuseBegin(r)
      PROVE  StockDrafts'
  BY <1>5, ConstantTypes, RowTypes, RowsDiffer
     DEF RefuseBegin, LocksCover, TypeOK, StockDrafts, Control, Goto, AfterTx,
         locks, drafts, rows, Handled, StockMove, Working, Keyed, HasRead
<1>6. ASSUME NEW r \in Requests, ReadRequest(r)
      PROVE  StockDrafts'
  BY <1>6, ConstantTypes, RowTypes, RowsDiffer
     DEF ReadRequest, LocksCover, TypeOK, StockDrafts, Control, InTx, Share,
         locks, Goto, drafts, rows, Handled, StockMove, Working, Keyed,
         CanShare, HasRead
<1>7. ASSUME NEW r \in Requests, NEW v \in Variants, ReadItem(r, v)
      PROVE  StockDrafts'
  BY <1>7, ConstantTypes, RowTypes, RowsDiffer
     DEF ReadItem, LocksCover, TypeOK, StockDrafts, Control, InTx, Share,
         control, drafts, rows, Handled, StockMove, Working, Keyed, CanShare,
         HasRead
<1>8. ASSUME NEW r \in Requests, ItemsRead(r)
      PROVE  StockDrafts'
  <2>1. \A s \in Requests : Handled(s)' = Handled(s)
    <3>1. Handled(r) = {} /\ Handled(r)' = {}
      BY <1>8 DEF LocksCover, TypeOK, Control, Handled, HasRead, ItemsRead, InTx, Goto
    <3>2. ASSUME NEW s \in Requests, s # r
          PROVE  Handled(s)' = Handled(s)
      BY <1>8, <3>2 DEF LocksCover, TypeOK, Handled, HasRead, ItemsRead, Goto
    <3> QED BY <3>1, <3>2
  <2> QED
    BY <1>8, <2>1, RowTypes
       DEF LocksCover, TypeOK, StockDrafts, StockMove, ItemsRead, locks, drafts, rows
<1>9. ASSUME NEW r \in Requests, NEW v \in Variants, TakeProductLock(r, v)
      PROVE  StockDrafts'
  BY <1>9, ConstantTypes, RowTypes, RowsDiffer
     DEF TakeProductLock, LocksCover, TypeOK, StockDrafts, Control, Goto,
         locks, drafts, rows, Handled, StockMove, Working, Keyed, HasRead
<1>10. ASSUME NEW r \in Requests, MoveStock(r)
      PROVE  StockDrafts'
  <2>1. PICK v \in Variants :
            /\ v = cur[r] /\ v \in todo[r] /\ v \in Lines(OrderOf[r])
            /\ Keyed(r) /\ HasRead(r) /\ pc[r] = "stock"
    BY <1>10 DEF LocksCover, TypeOK, Control, HasRead, MoveStock, InTx, Lines
  <2> DEFINE w(x) == Row("stock", x)
  <2>2. excl[w(v)] = None /\ stockDraft[v] = stock[v] /\ stock[v] >= 0
    <3>1. v \notin Handled(r)
      BY <2>1 DEF Handled
    <3>2. excl[w(v)] \in {None, r}
      BY <1>10, <2>1 DEF MoveStock, Own, CanOwn, CanShare
    <3> QED BY <2>1, <3>1, <3>2, ConstantTypes DEF LocksCover, StockDrafts
  <2>3. /\ excl' = [excl EXCEPT ![w(v)] = r]
        /\ stockDraft' = [stockDraft EXCEPT ![v] = @ + StockMove(r, v)]
        /\ stock' = stock
    BY <1>10, <2>1 DEF MoveStock, Own, rows
  <2>4. /\ \A s \in Requests \ {r} : Handled(s)' = Handled(s)
        /\ Handled(r)' = Handled(r) \cup {v}
    BY <1>10, <2>1
       DEF LocksCover, TypeOK, Handled, HasRead, Keyed, MoveStock, InTx, Goto
  <2>5. excl'[w(v)] = r /\ \A x \in Variants \ {v} : excl'[w(x)] = excl[w(x)]
    BY <2>1, <2>3, RowTypes, RowsDiffer DEF LocksCover, TypeOK
  <2>6. stockDraft'[v] = stock[v] + StockMove(r, v) /\ stockDraft'[v] >= 0
    <3>1. Qty[OrderOf[r]][v] \in Nat /\ stock[v] \in Int
      BY <2>1, ConstantTypes, RowAssumption DEF LocksCover, TypeOK
    <3>2. stockDraft'[v] = stock[v] + StockMove(r, v)
      BY <2>1, <2>2, <2>3 DEF LocksCover, TypeOK
    <3>3. Kind[r] = "pay" => stock[v] >= Qty[OrderOf[r]][v]
      BY <1>10, <2>1, <2>2 DEF MoveStock, InStock
    <3> QED BY <2>2, <3>1, <3>2, <3>3 DEF StockMove
  <2>7. \A x \in Variants \ {v} : stockDraft'[x] = stockDraft[x]
    BY <2>1, <2>3 DEF LocksCover, TypeOK
  <2>8. \A s \in Requests : v \in Handled(s)' => s = r
    BY <2>1, <2>2, <2>4, ConstantTypes DEF LocksCover, StockDrafts
  <2> SUFFICES ASSUME NEW x \in Variants
               PROVE  /\ stock'[x] >= 0
                      /\ excl'[w(x)] = None => stockDraft'[x] = stock'[x]
                      /\ \A s \in Requests : excl'[w(x)] = s =>
                            /\ x \in Handled(s)'
                            /\ stockDraft'[x] = stock'[x] + StockMove(s, x)
                            /\ stockDraft'[x] >= 0
                      /\ \A s \in Requests : x \in Handled(s)' => excl'[w(x)] = s
    <3>1. \A x \in Variants : excl'[w(x)] \in Requests \cup {None}
      BY <2>3, RowTypes DEF LocksCover, TypeOK
    <3> QED BY <3>1 DEF StockDrafts, StockMove
  <2>9. CASE x = v
    BY <2>2, <2>3, <2>4, <2>5, <2>6, <2>8, <2>9, ConstantTypes
  <2>10. CASE x # v
    <3>1. \A s \in Requests : x \in Handled(s)' => x \in Handled(s)
      BY <2>4, <2>10
    <3>2. \A s \in Requests : x \in Handled(s) => x \in Handled(s)'
      BY <2>4, <2>10
    <3>3. /\ stock[x] >= 0
          /\ excl[w(x)] = None => stockDraft[x] = stock[x]
          /\ \A s \in Requests : excl[w(x)] = s => /\ x \in Handled(s)
                                                /\ stockDraft[x] = stock[x] + StockMove(s, x)
                                                /\ stockDraft[x] >= 0
          /\ \A s \in Requests : x \in Handled(s) => excl[w(x)] = s
      BY ConstantTypes DEF LocksCover, StockDrafts, StockMove
    <3>4. excl'[w(x)] = excl[w(x)] /\ stockDraft'[x] = stockDraft[x]
      BY <2>5, <2>7, <2>10
    <3> QED BY <2>3, <3>1, <3>2, <3>3, <3>4
  <2> QED BY <2>9, <2>10
<1>11. ASSUME NEW r \in Requests, TakeBalanceLock(r)
      PROVE  StockDrafts'
  BY <1>11, ConstantTypes, RowTypes, RowsDiffer
     DEF TakeBalanceLock, LocksCover, TypeOK, StockDrafts, Control, Goto,
         locks, drafts, rows, Handled, StockMove, Working, Keyed, HasRead
<1>12. ASSUME NEW r \in Requests, RefuseInnerLock(r)
      PROVE  StockDrafts'
  BY <1>12, ConstantTypes, RowTypes, RowsDiffer
     DEF RefuseInnerLock, LocksCover, TypeOK, StockDrafts, Control, Throw,
         Handled, StockMove, Working, Keyed, Rollback, Goto, AfterTx, rows,
         HasRead, FreeRows, Owns
<1>13. ASSUME NEW r \in Requests, Deduct(r)
      PROVE  StockDrafts'
  BY <1>13, ConstantTypes, RowTypes, RowsDiffer
     DEF Deduct, LocksCover, TypeOK, StockDrafts, Control, InTx, Own, Goto,
         rows, Handled, StockMove, Working, Keyed, CanOwn, HasRead, CanShare
<1>14. ASSUME NEW r \in Requests, CreditRow(r)
      PROVE  StockDrafts'
  BY <1>14, ConstantTypes, RowTypes, RowsDiffer
     DEF CreditRow, LocksCover, TypeOK, StockDrafts, Control, InTx,
         WriteCredit, Handled, StockMove, Working, Keyed, Own, Goto, rows,
         HasRead, CanOwn, CanShare
<1>15. ASSUME NEW r \in Requests, CreditGap(r)
      PROVE  StockDrafts'
  BY <1>15, ConstantTypes, RowTypes, RowsDiffer
     DEF CreditGap, LocksCover, TypeOK, StockDrafts, Control, InTx, Share,
         Goto, drafts, rows, Handled, StockMove, Working, Keyed, CanShare,
         HasRead
<1>16. ASSUME NEW r \in Requests, CreditInsert(r)
      PROVE  StockDrafts'
  BY <1>16, ConstantTypes, RowTypes, RowsDiffer
     DEF CreditInsert, LocksCover, TypeOK, StockDrafts, Control, InTx,
         WriteCredit, Handled, StockMove, Working, Keyed, Own, Goto, rows,
         HasRead, CanOwn, CanShare
<1>17. ASSUME NEW r \in Requests, Record(r)
      PROVE  StockDrafts'
  BY <1>17, ConstantTypes, RowTypes, RowsDiffer
     DEF Record, LocksCover, TypeOK, StockDrafts, Control, InTx, Own, Goto,
         drafts, rows, Handled, StockMove, Working, Keyed, CanOwn, HasRead,
         CanShare
<1>18. ASSUME NEW r \in Requests, Commit(r)
      PROVE  StockDrafts'
  BY <1>18, ConstantTypes, RowTypes, RowsDiffer
     DEF Commit, LocksCover, TypeOK, StockDrafts, Control, InTx, Owns,
         FreeRows, Goto, AfterTx, drafts, Handled, StockMove, Working, Keyed,
         HasRead
<1>19. ASSUME NEW r \in Requests, Refuse(r)
      PROVE  StockDrafts'
  BY <1>19, ConstantTypes, RowTypes, RowsDiffer
     DEF Refuse, LocksCover, TypeOK, StockDrafts, Control, Throw, Handled,
         StockMove, Working, Keyed, Rollback, Goto, AfterTx, rows, HasRead,
         FreeRows, Owns
<1>20. ASSUME NEW r \in Requests, TxDies(r)
      PROVE  StockDrafts'
  BY <1>20, ConstantTypes, RowTypes, RowsDiffer
     DEF TxDies, LocksCover, TypeOK, StockDrafts, Control, Rollback, rows,
         Handled, StockMove, Working, Keyed, FreeRows, Owns, HasRead
<1>21. ASSUME NEW r \in Requests, NoticeDeath(r)
      PROVE  StockDrafts'
  BY <1>21, ConstantTypes, RowTypes, RowsDiffer
     DEF NoticeDeath, LocksCover, TypeOK, StockDrafts, Control, Throw,
         Handled, StockMove, Working, Keyed, Rollback, Goto, AfterTx, rows,
         HasRead, FreeRows, Owns
<1>22. ASSUME NEW r \in Requests, Unlock(r)
      PROVE  StockDrafts'
  BY <1>22, ConstantTypes, RowTypes, RowsDiffer
     DEF Unlock, LocksCover, TypeOK, StockDrafts, Control, Goto, locks,
         drafts, rows, Handled, StockMove, Working, Keyed, HasRead
<1>23. ASSUME NEW r \in Requests, Patch(r)
      PROVE  StockDrafts'
  BY <1>23, ConstantTypes, RowTypes, RowsDiffer
     DEF Patch, LocksCover, TypeOK, StockDrafts, Control, CanOwn, Goto, locks,
         drafts, Handled, StockMove, Working, Keyed, CanShare, HasRead
<1>24. ASSUME NEW r \in Requests, Crash(r)
      PROVE  StockDrafts'
  BY <1>24, ConstantTypes, RowTypes, RowsDiffer
     DEF Crash, LocksCover, TypeOK, StockDrafts, Control, Goto, Rollback,
         rows, Handled, StockMove, Working, Keyed, FreeRows, Owns, HasRead
<1>25. ASSUME NEW k \in Keys, LeaseExpires(k)
      PROVE  StockDrafts'
  BY <1>25, ConstantTypes, RowTypes, RowsDiffer
     DEF LeaseExpires, LeaseOver, LocksCover, TypeOK, StockDrafts, Control, control,
         locks, drafts, rows, Handled, StockMove, Working, Keyed, HasRead
<1>26. CASE UNCHANGED vars
  BY <1>26
     DEF vars, LocksCover, TypeOK, StockDrafts, Control, control, locks,
         drafts, rows, Handled, StockMove, Working, Keyed, HasRead
<1> QED
  BY <1>1, <1>2, <1>3, <1>4, <1>5, <1>6, <1>7, <1>8, <1>9, <1>10, <1>11,
     <1>12, <1>13, <1>14, <1>15, <1>16, <1>17, <1>18, <1>19, <1>20, <1>21,
     <1>22, <1>23, <1>24, <1>25, <1>26
     DEF Next, Handle, Finished

\* A request that has taken effect stays so, and what it withdrew with it.
LEMMA WithdrewStays ==
    ASSUME LocksCover, [Next]_vars
    PROVE  \A u \in Users : Withdrew(u) => Withdrew(u)'
<1>1. ASSUME NEW r \in Requests, Handle(r) \/ Crash(r)
      PROVE  \A s \in Requests : outcome[s] = "ok" => outcome'[s] = "ok"
  BY <1>1
     DEF LocksCover, TypeOK, Control, Working, Handle, TakeOuterLock, StartCharge,
         RefuseOuterLock, Begin, RefuseBegin, ReadRequest, ReadItem, ItemsRead,
         TakeProductLock, MoveStock, TakeBalanceLock, RefuseInnerLock, Deduct,
         CreditRow, CreditGap, CreditInsert, WriteCredit, Record, Commit, Refuse,
         TxDies, NoticeDeath, Unlock, Patch, Throw, Crash, InTx
<1>2. ASSUME NEW k \in Keys, LeaseExpires(k)
      PROVE  outcome' = outcome
  BY <1>2 DEF LeaseExpires
<1>3. UNCHANGED vars => outcome' = outcome
  BY DEF vars
<1>4. \A s \in Requests : outcome[s] = "ok" => outcome'[s] = "ok"
  BY <1>1, <1>2, <1>3 DEF Next, Finished
<1> QED BY <1>4 DEF Withdrew, CreditAmount

\* A balance row is drafted by the one request that has booked on it.
LEMMA BalanceStep == LocksCover /\ [Next]_vars => BalanceDrafts'
<1> SUFFICES ASSUME LocksCover, [Next]_vars
             PROVE  BalanceDrafts'
  OBVIOUS
<1>1. ASSUME NEW r \in Requests, TakeOuterLock(r)
      PROVE  BalanceDrafts'
  BY <1>1, ConstantTypes, RowTypes, RowsDiffer, WithdrewStays
     DEF TakeOuterLock, LocksCover, TypeOK, BalanceDrafts, Control, Goto,
         locks, drafts, rows, Booked, Booking, Working, Keyed
<1>2. ASSUME NEW r \in Requests, StartCharge(r)
      PROVE  BalanceDrafts'
  BY <1>2, ConstantTypes, RowTypes, RowsDiffer, WithdrewStays
     DEF StartCharge, LocksCover, TypeOK, BalanceDrafts, Control, Goto, locks,
         drafts, rows, Booked, Booking, Working, Keyed
<1>3. ASSUME NEW r \in Requests, RefuseOuterLock(r)
      PROVE  BalanceDrafts'
  BY <1>3, ConstantTypes, RowTypes, RowsDiffer, WithdrewStays
     DEF RefuseOuterLock, LocksCover, TypeOK, BalanceDrafts, Control, Goto,
         locks, drafts, rows, Booked, Booking, Working, Keyed
<1>4. ASSUME NEW r \in Requests, Begin(r)
      PROVE  BalanceDrafts'
  BY <1>4, ConstantTypes, RowTypes, RowsDiffer, WithdrewStays
     DEF Begin, LocksCover, TypeOK, BalanceDrafts, Control, Goto, locks,
         drafts, rows, Booked, Booking, Working, Keyed
<1>5. ASSUME NEW r \in Requests, RefuseBegin(r)
      PROVE  BalanceDrafts'
  BY <1>5, ConstantTypes, RowTypes, RowsDiffer, WithdrewStays
     DEF RefuseBegin, LocksCover, TypeOK, BalanceDrafts, Control, Goto,
         AfterTx, locks, drafts, rows, Booked, Booking, Working, Keyed
<1>6. ASSUME NEW r \in Requests, ReadRequest(r)
      PROVE  BalanceDrafts'
  BY <1>6, ConstantTypes, RowTypes, RowsDiffer, WithdrewStays
     DEF ReadRequest, LocksCover, TypeOK, BalanceDrafts, Control, InTx, Share,
         locks, Goto, drafts, rows, Booked, Booking, Working, Keyed, CanShare
<1>7. ASSUME NEW r \in Requests, NEW v \in Variants, ReadItem(r, v)
      PROVE  BalanceDrafts'
  BY <1>7, ConstantTypes, RowTypes, RowsDiffer, WithdrewStays
     DEF ReadItem, LocksCover, TypeOK, BalanceDrafts, Control, InTx, Share,
         control, drafts, rows, Booked, Booking, Working, Keyed, CanShare
<1>8. ASSUME NEW r \in Requests, ItemsRead(r)
      PROVE  BalanceDrafts'
  BY <1>8, ConstantTypes, RowTypes, RowsDiffer, WithdrewStays
     DEF ItemsRead, LocksCover, TypeOK, BalanceDrafts, Control, InTx, Goto,
         locks, drafts, rows, Booked, Booking, Working, Keyed
<1>9. ASSUME NEW r \in Requests, NEW v \in Variants, TakeProductLock(r, v)
      PROVE  BalanceDrafts'
  BY <1>9, ConstantTypes, RowTypes, RowsDiffer, WithdrewStays
     DEF TakeProductLock, LocksCover, TypeOK, BalanceDrafts, Control, Goto,
         locks, drafts, rows, Booked, Booking, Working, Keyed
<1>10. ASSUME NEW r \in Requests, MoveStock(r)
      PROVE  BalanceDrafts'
  BY <1>10, ConstantTypes, RowTypes, RowsDiffer, WithdrewStays
     DEF MoveStock, LocksCover, TypeOK, BalanceDrafts, Control, InTx, Own,
         Goto, rows, Booked, Booking, Working, Keyed, CanOwn, CanShare
<1>11. ASSUME NEW r \in Requests, TakeBalanceLock(r)
      PROVE  BalanceDrafts'
  BY <1>11, ConstantTypes, RowTypes, RowsDiffer, WithdrewStays
     DEF TakeBalanceLock, LocksCover, TypeOK, BalanceDrafts, Control, Goto,
         locks, drafts, rows, Booked, Booking, Working, Keyed
<1>12. ASSUME NEW r \in Requests, RefuseInnerLock(r)
      PROVE  BalanceDrafts'
  BY <1>12, ConstantTypes, RowTypes, RowsDiffer, WithdrewStays
     DEF RefuseInnerLock, LocksCover, TypeOK, BalanceDrafts, Control, Throw,
         Booked, Booking, Working, Keyed, Rollback, Goto, AfterTx, rows,
         FreeRows, Owns
<1>13. ASSUME NEW r \in Requests, Deduct(r)
      PROVE  BalanceDrafts'
  <2> DEFINE c == Caller[r]
             row == Row("balance", c)
  <2>1. /\ c \in Users /\ c \in account /\ row \in Rows /\ Amount[OrderOf[r]] \in Int
        /\ ~Booked(r) /\ excl[row] \in {None, r} /\ balanceDraft[c] >= Amount[OrderOf[r]]
        /\ Kind[r] = "pay"
    BY <1>13, ConstantTypes, RowTypes DEF Deduct, InTx, Booked, Own, CanOwn, CanShare, CanAfford
  <2>2. /\ excl' = [excl EXCEPT ![row] = r]
        /\ balanceDraft' = [balanceDraft EXCEPT ![c] = balanceDraft[c] - Amount[OrderOf[r]]]
        /\ pc' = [pc EXCEPT ![r] = "record"] /\ UNCHANGED <<tx, balance, account>>
    BY <1>13 DEF Deduct, Own, Goto, rows
  <2>3. excl[row] = None /\ balanceDraft[c] = balance[c]
    BY <2>1 DEF LocksCover, BalanceDrafts
  <2>4. Booked(r)' /\ \A s \in Requests \ {r} : Booked(s)' = Booked(s)
    BY <1>13, <2>2 DEF LocksCover, TypeOK, Booked, Deduct, InTx
  <2>5. ASSUME NEW u \in Users \ {c}
        PROVE  excl'[Row("balance", u)] = excl[Row("balance", u)]
    BY <2>2, RowsDiffer, RowTypes DEF LocksCover, TypeOK
  <2>6. \A s \in Requests : Booked(s) /\ c = Caller[s] => FALSE
    BY <2>1, <2>3, ConstantTypes DEF LocksCover, BalanceDrafts
  <2>7. \A u \in Users : balance'[u] >= 0 \/ Withdrew(u)'
    BY <2>2, WithdrewStays DEF LocksCover, BalanceDrafts
  <2>8. excl'[row] = r /\ balanceDraft'[c] = balance'[c] + Booking(r) /\ balanceDraft'[c] >= 0
    BY <2>1, <2>2, <2>3 DEF LocksCover, TypeOK, Booking
  <2>9. \A u \in Users \ {c} : balanceDraft'[u] = balanceDraft[u]
    BY <2>2 DEF LocksCover, TypeOK
  <2>10. ASSUME NEW u \in Users, NEW holder, holder = excl'[Row("balance", u)]
         PROVE  /\ holder = None => balanceDraft'[u] = balance'[u]
                /\ holder # None => /\ Booked(holder)' /\ u = Caller[holder]
                                    /\ balanceDraft'[u] = balance'[u] + Booking(holder)
                                    /\ Kind[holder] = "pay" => u \in account' /\ balanceDraft'[u] >= 0
                /\ \A s \in Requests : Booked(s)' /\ u = Caller[s] => holder = s
    <3>1. CASE u = c
      BY <2>1, <2>2, <2>4, <2>6, <2>8, <2>10, <3>1, ConstantTypes
    <3>2. CASE u # c
      <4>1. holder = excl[Row("balance", u)] /\ balanceDraft'[u] = balanceDraft[u]
        BY <2>5, <2>9, <2>10, <3>2
      <4>2. /\ holder = None => balanceDraft[u] = balance[u]
            /\ holder # None => /\ Booked(holder) /\ u = Caller[holder]
                                /\ balanceDraft[u] = balance[u] + Booking(holder)
                                /\ Kind[holder] = "pay" => u \in account /\ balanceDraft[u] >= 0
            /\ \A s \in Requests : Booked(s) /\ u = Caller[s] => holder = s
        BY <4>1 DEF LocksCover, BalanceDrafts
      <4>3. holder # None => holder \in Requests \ {r}
        BY <2>1, <4>1, <4>2, RowTypes DEF LocksCover, TypeOK
      <4>4. \A s \in Requests : Booked(s)' /\ u = Caller[s] => holder = s
        BY <2>4, <3>2, <4>2
      <4>5. holder # None => Booked(holder)'
        BY <2>4, <4>2, <4>3
      <4> QED BY <2>2, <4>1, <4>2, <4>4, <4>5
    <3> QED BY <3>1, <3>2
  <2> QED BY <2>7, <2>10 DEF BalanceDrafts, Booking, CreditAmount
<1>14. ASSUME NEW r \in Requests, CreditRow(r)
      PROVE  BalanceDrafts'
  BY <1>14, ConstantTypes, RowTypes, RowsDiffer, WithdrewStays
     DEF CreditRow, LocksCover, TypeOK, BalanceDrafts, Control, InTx,
         WriteCredit, Booked, Booking, Working, Keyed, Own, Goto, rows,
         CanOwn, CanShare
<1>15. ASSUME NEW r \in Requests, CreditGap(r)
      PROVE  BalanceDrafts'
  BY <1>15, ConstantTypes, RowTypes, RowsDiffer, WithdrewStays
     DEF CreditGap, LocksCover, TypeOK, BalanceDrafts, Control, InTx, Share,
         Goto, drafts, rows, Booked, Booking, Working, Keyed, CanShare
<1>16. ASSUME NEW r \in Requests, CreditInsert(r)
      PROVE  BalanceDrafts'
  BY <1>16, ConstantTypes, RowTypes, RowsDiffer, WithdrewStays
     DEF CreditInsert, LocksCover, TypeOK, BalanceDrafts, Control, InTx,
         WriteCredit, Booked, Booking, Working, Keyed, Own, Goto, rows,
         CanOwn, CanShare
<1>17. ASSUME NEW r \in Requests, Record(r)
      PROVE  BalanceDrafts'
  BY <1>17, ConstantTypes, RowTypes, RowsDiffer, WithdrewStays
     DEF Record, LocksCover, TypeOK, BalanceDrafts, Control, InTx, Own, Goto,
         drafts, rows, Booked, Booking, Working, Keyed, CanOwn, CanShare
<1>18. ASSUME NEW r \in Requests, Commit(r)
      PROVE  BalanceDrafts'
  <2> DEFINE c == Caller[r]
  <2>1. /\ c \in Users /\ Booked(r) /\ excl[Row("balance", c)] = r
        /\ balanceDraft[c] = balance[c] + Booking(r)
        /\ Kind[r] = "pay" => balanceDraft[c] >= 0
        /\ Kind[r] \in {"pay", "cancel", "charge"}
    BY <1>18, ConstantTypes DEF Commit, InTx, LocksCover, Control, BalanceDrafts, Booked
  <2>2. /\ balance' = [balance EXCEPT ![c] = balanceDraft[c]]
        /\ outcome' = [outcome EXCEPT ![r] = "ok"]
    BY <1>18 DEF Commit
  <2>3. ASSUME NEW u \in Users
        PROVE  balance'[u] >= 0 \/ Withdrew(u)'
    <3>1. CASE u # c
      BY <2>1, <2>2, <3>1, WithdrewStays DEF LocksCover, TypeOK, BalanceDrafts
    <3>2. CASE u = c /\ Kind[r] = "pay"
      BY <2>1, <2>2, <3>2 DEF LocksCover, TypeOK
    <3>3. CASE u = c /\ Kind[r] # "pay" /\ CreditAmount(r) < 0
      BY <2>1, <2>2, <3>3 DEF LocksCover, TypeOK, Withdrew, CreditAmount
    <3>4. CASE u = c /\ Kind[r] # "pay" /\ CreditAmount(r) >= 0
      BY <2>1, <2>2, <3>4, ConstantTypes, WithdrewStays
         DEF LocksCover, TypeOK, BalanceDrafts, Booking
    <3> QED BY <3>1, <3>2, <3>3, <3>4, ConstantTypes
  <2>4. ASSUME NEW u \in Users, NEW holder, holder = excl'[Row("balance", u)]
        PROVE  /\ holder = None => balanceDraft'[u] = balance'[u]
               /\ holder # None => /\ Booked(holder)' /\ u = Caller[holder]
                                   /\ balanceDraft'[u] = balance'[u] + Booking(holder)
                                   /\ Kind[holder] = "pay" => u \in account' /\ balanceDraft'[u] >= 0
               /\ \A s \in Requests : Booked(s)' /\ u = Caller[s] => holder = s
    <3>1. /\ excl' = [w \in Rows |-> IF excl[w] = r THEN None ELSE excl[w]]
          /\ UNCHANGED balanceDraft
          /\ pc' = [pc EXCEPT ![r] = AfterTx(r)] /\ tx' = [tx EXCEPT ![r] = "none"]
          /\ account' = account \cup {c}
      BY <1>18 DEF Commit, FreeRows, Goto, drafts
    <3>2. CASE u = c
      BY <2>1, <2>2, <2>4, <3>1, <3>2, RowTypes DEF LocksCover, TypeOK, BalanceDrafts, Booked, AfterTx
    <3>3. CASE u # c
      <4>1. excl[Row("balance", u)] # r
        BY <2>1, <3>3, ConstantTypes DEF LocksCover, BalanceDrafts
      <4> QED
        BY <2>1, <2>2, <2>4, <3>1, <3>3, <4>1, RowTypes, ConstantTypes
           DEF LocksCover, TypeOK, BalanceDrafts, Booked, AfterTx
    <3> QED BY <3>2, <3>3
  <2> QED BY <2>3, <2>4 DEF BalanceDrafts, Booking, CreditAmount
<1>19. ASSUME NEW r \in Requests, Refuse(r)
      PROVE  BalanceDrafts'
  BY <1>19, ConstantTypes, RowTypes, RowsDiffer, WithdrewStays
     DEF Refuse, LocksCover, TypeOK, BalanceDrafts, Control, Throw, Booked,
         Booking, Working, Keyed, Rollback, Goto, AfterTx, rows, FreeRows,
         Owns
<1>20. ASSUME NEW r \in Requests, TxDies(r)
      PROVE  BalanceDrafts'
  BY <1>20, ConstantTypes, RowTypes, RowsDiffer, WithdrewStays
     DEF TxDies, LocksCover, TypeOK, BalanceDrafts, Control, Rollback, rows,
         Booked, Booking, Working, Keyed, FreeRows, Owns
<1>21. ASSUME NEW r \in Requests, NoticeDeath(r)
      PROVE  BalanceDrafts'
  BY <1>21, ConstantTypes, RowTypes, RowsDiffer, WithdrewStays
     DEF NoticeDeath, LocksCover, TypeOK, BalanceDrafts, Control, Throw,
         Booked, Booking, Working, Keyed, Rollback, Goto, AfterTx, rows,
         FreeRows, Owns
<1>22. ASSUME NEW r \in Requests, Unlock(r)
      PROVE  BalanceDrafts'
  BY <1>22, ConstantTypes, RowTypes, RowsDiffer, WithdrewStays
     DEF Unlock, LocksCover, TypeOK, BalanceDrafts, Control, Goto, locks,
         drafts, rows, Booked, Booking, Working, Keyed
<1>23. ASSUME NEW r \in Requests, Patch(r)
      PROVE  BalanceDrafts'
  BY <1>23, ConstantTypes, RowTypes, RowsDiffer, WithdrewStays
     DEF Patch, LocksCover, TypeOK, BalanceDrafts, Control, CanOwn, Goto,
         locks, drafts, Booked, Booking, Working, Keyed, CanShare
<1>24. ASSUME NEW r \in Requests, Crash(r)
      PROVE  BalanceDrafts'
  BY <1>24, ConstantTypes, RowTypes, RowsDiffer, WithdrewStays
     DEF Crash, LocksCover, TypeOK, BalanceDrafts, Control, Goto, Rollback,
         rows, Booked, Booking, Working, Keyed, FreeRows, Owns
<1>25. ASSUME NEW k \in Keys, LeaseExpires(k)
      PROVE  BalanceDrafts'
  BY <1>25, ConstantTypes, RowTypes, RowsDiffer, WithdrewStays
     DEF LeaseExpires, LeaseOver, LocksCover, TypeOK, BalanceDrafts, Control, control,
         locks, drafts, rows, Booked, Booking, Working, Keyed
<1>26. CASE UNCHANGED vars
  BY <1>26, WithdrewStays
     DEF vars, LocksCover, TypeOK, BalanceDrafts, Control, control, locks,
         drafts, rows, Booked, Booking, Working, Keyed
<1> QED
  BY <1>1, <1>2, <1>3, <1>4, <1>5, <1>6, <1>7, <1>8, <1>9, <1>10, <1>11,
     <1>12, <1>13, <1>14, <1>15, <1>16, <1>17, <1>18, <1>19, <1>20, <1>21,
     <1>22, <1>23, <1>24, <1>25, <1>26
     DEF Next, Handle, Finished

\* The order row stays with the request that is about to commit.
LEMMA OwnedStep == LocksCover /\ [Next]_vars => OrderOwned'
<1> SUFFICES ASSUME LocksCover, [Next]_vars
             PROVE  OrderOwned'
  OBVIOUS
<1>1. ASSUME NEW r \in Requests, TakeOuterLock(r)
      PROVE  OrderOwned'
  BY <1>1, ConstantTypes, RowTypes, RowsDiffer
     DEF TakeOuterLock, LocksCover, TypeOK, OrderOwned, Control, RowLocks,
         Goto, locks, drafts, rows, Keyed, Owns, Working
<1>2. ASSUME NEW r \in Requests, StartCharge(r)
      PROVE  OrderOwned'
  BY <1>2, ConstantTypes, RowTypes, RowsDiffer
     DEF StartCharge, LocksCover, TypeOK, OrderOwned, Control, RowLocks, Goto,
         locks, drafts, rows, Keyed, Owns, Working
<1>3. ASSUME NEW r \in Requests, RefuseOuterLock(r)
      PROVE  OrderOwned'
  BY <1>3, ConstantTypes, RowTypes, RowsDiffer
     DEF RefuseOuterLock, LocksCover, TypeOK, OrderOwned, Control, RowLocks,
         Goto, locks, drafts, rows, Keyed, Owns, Working
<1>4. ASSUME NEW r \in Requests, Begin(r)
      PROVE  OrderOwned'
  BY <1>4, ConstantTypes, RowTypes, RowsDiffer
     DEF Begin, LocksCover, TypeOK, OrderOwned, Control, RowLocks, Goto,
         locks, drafts, rows, Keyed, Owns, Working
<1>5. ASSUME NEW r \in Requests, RefuseBegin(r)
      PROVE  OrderOwned'
  BY <1>5, ConstantTypes, RowTypes, RowsDiffer
     DEF RefuseBegin, LocksCover, TypeOK, OrderOwned, Control, RowLocks, Goto,
         AfterTx, locks, drafts, rows, Keyed, Owns, Working
<1>6. ASSUME NEW r \in Requests, ReadRequest(r)
      PROVE  OrderOwned'
  BY <1>6, ConstantTypes, RowTypes, RowsDiffer
     DEF ReadRequest, LocksCover, TypeOK, OrderOwned, Control, RowLocks, InTx,
         Share, locks, Goto, drafts, rows, Keyed, Owns, Working, CanShare
<1>7. ASSUME NEW r \in Requests, NEW v \in Variants, ReadItem(r, v)
      PROVE  OrderOwned'
  BY <1>7, ConstantTypes, RowTypes, RowsDiffer
     DEF ReadItem, LocksCover, TypeOK, OrderOwned, Control, RowLocks, InTx,
         Share, control, drafts, rows, Keyed, Owns, Working, CanShare
<1>8. ASSUME NEW r \in Requests, ItemsRead(r)
      PROVE  OrderOwned'
  BY <1>8, ConstantTypes, RowTypes, RowsDiffer
     DEF ItemsRead, LocksCover, TypeOK, OrderOwned, Control, RowLocks, InTx,
         Goto, locks, drafts, rows, Keyed, Owns, Working
<1>9. ASSUME NEW r \in Requests, NEW v \in Variants, TakeProductLock(r, v)
      PROVE  OrderOwned'
  BY <1>9, ConstantTypes, RowTypes, RowsDiffer
     DEF TakeProductLock, LocksCover, TypeOK, OrderOwned, Control, RowLocks,
         Goto, locks, drafts, rows, Keyed, Owns, Working
<1>10. ASSUME NEW r \in Requests, MoveStock(r)
      PROVE  OrderOwned'
  BY <1>10, ConstantTypes, RowTypes, RowsDiffer
     DEF MoveStock, LocksCover, TypeOK, OrderOwned, Control, RowLocks, InTx,
         Own, Goto, rows, Keyed, Owns, Working, CanOwn, CanShare
<1>11. ASSUME NEW r \in Requests, TakeBalanceLock(r)
      PROVE  OrderOwned'
  BY <1>11, ConstantTypes, RowTypes, RowsDiffer
     DEF TakeBalanceLock, LocksCover, TypeOK, OrderOwned, Control, RowLocks,
         Goto, locks, drafts, rows, Keyed, Owns, Working
<1>12. ASSUME NEW r \in Requests, RefuseInnerLock(r)
      PROVE  OrderOwned'
  BY <1>12, ConstantTypes, RowTypes, RowsDiffer
     DEF RefuseInnerLock, LocksCover, TypeOK, OrderOwned, Control, RowLocks,
         Throw, Keyed, Owns, Working, Rollback, Goto, AfterTx, rows, FreeRows
<1>13. ASSUME NEW r \in Requests, Deduct(r)
      PROVE  OrderOwned'
  BY <1>13, ConstantTypes, RowTypes, RowsDiffer
     DEF Deduct, LocksCover, TypeOK, OrderOwned, Control, RowLocks, InTx, Own,
         Goto, rows, Keyed, Owns, Working, CanOwn, CanShare
<1>14. ASSUME NEW r \in Requests, CreditRow(r)
      PROVE  OrderOwned'
  BY <1>14, ConstantTypes, RowTypes, RowsDiffer
     DEF CreditRow, LocksCover, TypeOK, OrderOwned, Control, RowLocks, InTx,
         WriteCredit, Keyed, Owns, Working, Own, Goto, rows, CanOwn, CanShare
<1>15. ASSUME NEW r \in Requests, CreditGap(r)
      PROVE  OrderOwned'
  BY <1>15, ConstantTypes, RowTypes, RowsDiffer
     DEF CreditGap, LocksCover, TypeOK, OrderOwned, Control, RowLocks, InTx,
         Share, Goto, drafts, rows, Keyed, Owns, Working, CanShare
<1>16. ASSUME NEW r \in Requests, CreditInsert(r)
      PROVE  OrderOwned'
  BY <1>16, ConstantTypes, RowTypes, RowsDiffer
     DEF CreditInsert, LocksCover, TypeOK, OrderOwned, Control, RowLocks,
         InTx, WriteCredit, Keyed, Owns, Working, Own, Goto, rows, CanOwn,
         CanShare
<1>17. ASSUME NEW r \in Requests, Record(r)
      PROVE  OrderOwned'
  BY <1>17, ConstantTypes, RowTypes, RowsDiffer
     DEF Record, LocksCover, TypeOK, OrderOwned, Control, RowLocks, InTx, Own,
         Goto, drafts, rows, Keyed, Owns, Working, CanOwn, CanShare
<1>18. ASSUME NEW r \in Requests, Commit(r)
      PROVE  OrderOwned'
  BY <1>18, ConstantTypes, RowTypes, RowsDiffer
     DEF Commit, LocksCover, TypeOK, OrderOwned, Control, RowLocks, InTx,
         Owns, FreeRows, Goto, AfterTx, drafts, Keyed, Working
<1>19. ASSUME NEW r \in Requests, Refuse(r)
      PROVE  OrderOwned'
  BY <1>19, ConstantTypes, RowTypes, RowsDiffer
     DEF Refuse, LocksCover, TypeOK, OrderOwned, Control, RowLocks, Throw,
         Keyed, Owns, Working, Rollback, Goto, AfterTx, rows, FreeRows
<1>20. ASSUME NEW r \in Requests, TxDies(r)
      PROVE  OrderOwned'
  BY <1>20, ConstantTypes, RowTypes, RowsDiffer
     DEF TxDies, LocksCover, TypeOK, OrderOwned, Control, RowLocks, Rollback,
         rows, Keyed, Owns, Working, FreeRows
<1>21. ASSUME NEW r \in Requests, NoticeDeath(r)
      PROVE  OrderOwned'
  BY <1>21, ConstantTypes, RowTypes, RowsDiffer
     DEF NoticeDeath, LocksCover, TypeOK, OrderOwned, Control, RowLocks,
         Throw, Keyed, Owns, Working, Rollback, Goto, AfterTx, rows, FreeRows
<1>22. ASSUME NEW r \in Requests, Unlock(r)
      PROVE  OrderOwned'
  BY <1>22, ConstantTypes, RowTypes, RowsDiffer
     DEF Unlock, LocksCover, TypeOK, OrderOwned, Control, RowLocks, Goto,
         locks, drafts, rows, Keyed, Owns, Working
<1>23. ASSUME NEW r \in Requests, Patch(r)
      PROVE  OrderOwned'
  BY <1>23, ConstantTypes, RowTypes, RowsDiffer
     DEF Patch, LocksCover, TypeOK, OrderOwned, Control, RowLocks, CanOwn,
         Goto, locks, drafts, Keyed, Owns, Working, CanShare
<1>24. ASSUME NEW r \in Requests, Crash(r)
      PROVE  OrderOwned'
  BY <1>24, ConstantTypes, RowTypes, RowsDiffer
     DEF Crash, LocksCover, TypeOK, OrderOwned, Control, RowLocks, Goto,
         Rollback, rows, Keyed, Owns, Working, FreeRows
<1>25. ASSUME NEW k \in Keys, LeaseExpires(k)
      PROVE  OrderOwned'
  BY <1>25, ConstantTypes, RowTypes, RowsDiffer
     DEF LeaseExpires, LeaseOver, LocksCover, TypeOK, OrderOwned, Control, RowLocks,
         control, locks, drafts, rows, Keyed, Owns, Working
<1>26. CASE UNCHANGED vars
  BY <1>26
     DEF vars, LocksCover, TypeOK, OrderOwned, Control, RowLocks, control,
         locks, drafts, rows, Keyed, Owns, Working
<1> QED
  BY <1>1, <1>2, <1>3, <1>4, <1>5, <1>6, <1>7, <1>8, <1>9, <1>10, <1>11,
     <1>12, <1>13, <1>14, <1>15, <1>16, <1>17, <1>18, <1>19, <1>20, <1>21,
     <1>22, <1>23, <1>24, <1>25, <1>26
     DEF Next, Handle, Finished

-----------------------------------------------------------------------------
(* The invariant and what follows from it *)

\* At every moment the locks a request holds cover what it has read and what it
\* has drafted, whatever instances die and whatever leases run out.
THEOREM Covered == Spec => []LocksCover
<1>1. LocksCover /\ [Next]_vars => LocksCover'
  BY StepType, ControlStep, KeyStep, RowStep, AcceptedStep, StockStep, BalanceStep, OwnedStep
     DEF LocksCover
<1> QED BY InitCovers, <1>1, PTL DEF Spec

\* Transactions of two payments of one order, or of two cancellations of one
\* payment, are never open together.
THEOREM OneInSection == Spec => []CriticalSection
<1>1. LocksCover => CriticalSection
  BY DEF LocksCover, KeyHeld, Keyed, CriticalSection
<1> QED BY Covered, <1>1, PTL

\* No variant is ever oversold and no balance overdrawn.
THEOREM NeverBelowZero == Spec => []NeverNegative
<1>1. LocksCover => NeverNegative
  BY DEF LocksCover, StockDrafts, BalanceDrafts, NeverNegative
<1> QED BY Covered, <1>1, PTL

-----------------------------------------------------------------------------
(* The steps of the ledger *)

Served == {r \in Requests : outcome[r] = "ok"}

\* The steps that write no row and answer nobody with success are stutters.
LEMMA StutterStep ==
    ASSUME UNCHANGED rows, \A r \in Requests : outcome'[r] = "ok" <=> outcome[r] = "ok"
    PROVE  UNCHANGED Ledger!ledgerVars
<1>1. Served' = Served
  BY DEF Served
<1> QED BY <1>1 DEF Served, rows, Ledger!ledgerVars, Ledger!rows

\* An exception is not a success, and comes before any.
LEMMA ThrowStutters ==
    ASSUME LocksCover, NEW r \in Requests, pc[r] \in Working, Throw(r)
    PROVE  UNCHANGED Ledger!ledgerVars
<1>1. outcome[r] = "none"
  BY DEF LocksCover, TypeOK, Control, Working
<1>2. \A s \in Requests : outcome'[s] = "ok" <=> outcome[s] = "ok"
  BY <1>1 DEF LocksCover, TypeOK, Throw
<1> QED BY <1>2, StutterStep DEF Throw

-----------------------------------------------------------------------------
(* The commit *)

\* What the locks of r guarantee when it commits: it is the first time, its
\* drafts are the rows plus its own moves, and no other request's rows change.
LEMMA CommitRows ==
    ASSUME LocksCover, NEW r \in Requests, Commit(r)
    PROVE  /\ outcome[r] = "none" /\ Served' = Served \cup {r}
           /\ Kind[r] # "patch"
           /\ Kind[r] = "charge" => stock' = stock
           /\ Keyed(r) => /\ Ready(r)
                          /\ stock' = [v \in Variants |-> stock[v] + StockMove(r, v)]
                          /\ Kind[r] = "pay" => \A v \in Variants : stock[v] >= Qty[OrderOf[r]][v]
           /\ balanceDraft[Caller[r]] = balance[Caller[r]] + Booking(r)
           /\ Kind[r] = "pay" => Caller[r] \in account /\ balanceDraft[Caller[r]] >= 0
<1> DEFINE o == OrderOf[r]
           u == Caller[r]
<1>1. pc[r] = "commit" /\ tx[r] = "open"
  BY DEF Commit, InTx
<1>2. outcome[r] = "none" /\ Kind[r] # "patch" /\ todo[r] = {}
  BY <1>1 DEF LocksCover, TypeOK, Control
<1>3. Served' = Served \cup {r}
  BY DEF LocksCover, TypeOK, Served, Commit
<1>4. \A v \in Variants : excl[Row("stock", v)] = r <=> Keyed(r) /\ v \in Lines(o)
  <2>1. ASSUME NEW v \in Variants, excl[Row("stock", v)] = r
        PROVE  Keyed(r) /\ v \in Lines(o)
    BY <2>1, ConstantTypes DEF LocksCover, StockDrafts, Handled, HasRead
  <2>2. ASSUME NEW v \in Variants, Keyed(r), v \in Lines(o)
        PROVE  excl[Row("stock", v)] = r
    BY <1>1, <1>2, <2>2 DEF LocksCover, StockDrafts, Handled, HasRead
  <2> QED BY <2>1, <2>2
<1>5. stock' = [v \in Variants |-> IF excl[Row("stock", v)] = r THEN stockDraft[v] ELSE stock[v]]
  BY DEF Commit, Owns
<1>6. ASSUME Kind[r] = "charge"
      PROVE  stock' = stock
  BY <1>4, <1>5, <1>6 DEF Keyed, LocksCover, TypeOK
<1>7. ASSUME Keyed(r)
      PROVE  /\ Ready(r)
             /\ stock' = [v \in Variants |-> stock[v] + StockMove(r, v)]
             /\ Kind[r] = "pay" => \A v \in Variants : stock[v] >= Qty[o][v]
  <2>1. Ready(r)
    BY <1>1, <1>7 DEF LocksCover, Accepted, HasRead
  <2>2. \A v \in Lines(o) : /\ excl[Row("stock", v)] = r
                            /\ stockDraft[v] = stock[v] + StockMove(r, v)
                            /\ stockDraft[v] >= 0
    BY <1>4, <1>7, ConstantTypes DEF LocksCover, StockDrafts, Lines
  <2>3. \A v \in Variants : Qty[o][v] \in Nat /\ stock[v] \in Int /\ stock[v] >= 0
    BY ConstantTypes, RowAssumption DEF LocksCover, TypeOK, StockDrafts
  <2>4. \A v \in Variants \ Lines(o) : Qty[o][v] = 0 /\ excl[Row("stock", v)] # r
    BY <1>4, <2>3 DEF Lines
  <2>5. \A v \in Variants :
            (IF excl[Row("stock", v)] = r THEN stockDraft[v] ELSE stock[v])
              = stock[v] + StockMove(r, v)
    BY <2>2, <2>3, <2>4 DEF StockMove
  <2>6. Kind[r] = "pay" => \A v \in Variants : stock[v] >= Qty[o][v]
    BY <2>2, <2>3, <2>4 DEF StockMove, Lines
  <2> QED BY <1>5, <2>1, <2>5, <2>6
<1>8. excl[Row("balance", u)] = r
  BY <1>1, ConstantTypes DEF LocksCover, BalanceDrafts, Booked
<1>9. /\ balanceDraft[u] = balance[u] + Booking(r)
      /\ Kind[r] = "pay" => u \in account /\ balanceDraft[u] >= 0
  BY <1>8, ConstantTypes DEF LocksCover, BalanceDrafts
<1> QED BY <1>2, <1>3, <1>6, <1>7, <1>9

\* A commit is one step of the ledger: the request is served, whole.
LEMMA CommitStep ==
    ASSUME LocksCover, NEW r \in Requests, Commit(r)
    PROVE  Ledger!LedgerNext
<1> DEFINE o == OrderOf[r]
           u == Caller[r]
<1>1. r \notin Served /\ Served' = Served \cup {r}
  BY CommitRows DEF Served
<1>2. /\ balance' = [balance EXCEPT ![u] = balanceDraft[u]]
      /\ account' = account \cup {u}
      /\ history' = [history EXCEPT ![u] = Append(@, NewEntry(r))]
      /\ WriteStatus(r)
  BY DEF Commit
<1>3. /\ balanceDraft[u] = balance[u] + Booking(r)
      /\ balance[u] \in Int /\ balanceDraft[u] \in Int
      /\ Kind[r] = "pay" => balanceDraft[u] >= 0
      /\ Amount[o] \in Int /\ CreditAmount(r) \in Int
      /\ stock \in [Variants -> Int]
      /\ \A v \in Variants : Qty[o][v] \in Nat
  BY CommitRows, ConstantTypes, RowAssumption DEF LocksCover, TypeOK
<1>4. Kind[r] \in {"pay", "cancel", "charge"}
  BY CommitRows, ConstantTypes
<1>5. CASE Kind[r] = "pay"
  <2>1. /\ Ready(r) /\ u \in account
        /\ stock' = [v \in Variants |-> stock[v] + StockMove(r, v)]
        /\ \A v \in Variants : stock[v] >= Qty[o][v]
    BY <1>5, CommitRows DEF Keyed
  <2>2. stock' = [v \in Variants |-> stock[v] - Qty[o][v]]
    BY <1>3, <1>5, <2>1 DEF StockMove
  <2>3. balanceDraft[u] = balance[u] - Amount[o] /\ balance[u] >= Amount[o]
    BY <1>3, <1>5 DEF Booking
  <2>4. NewEntry(r) = Ledger!Entry("USE", Amount[o], balance[u] - Amount[o])
    BY <1>5, <2>3 DEF NewEntry, Ledger!Entry
  <2>5. Ledger!Book(u, balance[u] - Amount[o], "USE", Amount[o])
    BY <1>2, <2>3, <2>4 DEF Ledger!Book
  <2>6. account' = account
    BY <1>2, <2>1
  <2>7. Ledger!Pay(r)
    BY <1>2, <1>5, <2>1, <2>2, <2>3, <2>5, <2>6
       DEF Ledger!Pay, Ledger!Payable, Payable, Ready, WriteStatus
  <2> QED BY <1>1, <2>7 DEF Ledger!LedgerNext, Ledger!Serve, Served
<1>6. CASE Kind[r] = "cancel"
  <2>1. Ready(r) /\ stock' = [v \in Variants |-> stock[v] + StockMove(r, v)]
    BY <1>6, CommitRows DEF Keyed
  <2>2. stock' = [v \in Variants |-> stock[v] + Qty[o][v]]
    BY <1>6, <2>1 DEF StockMove
  <2>3. balanceDraft[u] = balance[u] + Amount[o] /\ CreditAmount(r) = Amount[o]
    BY <1>3, <1>6 DEF Booking, CreditAmount
  <2>4. Ledger!Credit(u, Amount[o])
    BY <1>2, <1>6, <2>3 DEF Ledger!Credit, Ledger!Book, Ledger!Entry, NewEntry
  <2>5. Ledger!Cancel(r)
    BY <1>2, <1>6, <2>1, <2>2, <2>4 DEF Ledger!Cancel, Ready, WriteStatus
  <2> QED BY <1>1, <2>5 DEF Ledger!LedgerNext, Ledger!Serve, Served
<1>7. CASE Kind[r] = "charge"
  <2>1. stock' = stock
    BY <1>7, CommitRows
  <2>2. balanceDraft[u] = balance[u] + ChargeOf[r] /\ CreditAmount(r) = ChargeOf[r]
    BY <1>3, <1>7 DEF Booking, CreditAmount
  <2>3. Ledger!Credit(u, ChargeOf[r])
    BY <1>2, <1>7, <2>2 DEF Ledger!Credit, Ledger!Book, Ledger!Entry, NewEntry
  <2>4. Ledger!Charge(r)
    BY <1>2, <1>7, <2>1, <2>3 DEF Ledger!Charge, WriteStatus
  <2> QED BY <1>1, <2>4 DEF Ledger!LedgerNext, Ledger!Serve, Served
<1> QED BY <1>4, <1>5, <1>6, <1>7

-----------------------------------------------------------------------------
(* Refinement *)

LEMMA LedgerStep == LocksCover /\ [Next]_vars => [Ledger!LedgerNext]_Ledger!ledgerVars
<1> SUFFICES ASSUME LocksCover, [Next]_vars
             PROVE  Ledger!LedgerNext \/ UNCHANGED Ledger!ledgerVars
  OBVIOUS
<1>1. ASSUME NEW r \in Requests, TakeOuterLock(r)
      PROVE  UNCHANGED Ledger!ledgerVars
  BY <1>1, StutterStep DEF TakeOuterLock, rows
<1>2. ASSUME NEW r \in Requests, StartCharge(r)
      PROVE  UNCHANGED Ledger!ledgerVars
  BY <1>2, StutterStep DEF StartCharge, rows
<1>3. ASSUME NEW r \in Requests, Begin(r)
      PROVE  UNCHANGED Ledger!ledgerVars
  BY <1>3, StutterStep DEF Begin, rows
<1>4. ASSUME NEW r \in Requests, ReadRequest(r)
      PROVE  UNCHANGED Ledger!ledgerVars
  BY <1>4, StutterStep DEF ReadRequest, rows
<1>5. ASSUME NEW r \in Requests, ItemsRead(r)
      PROVE  UNCHANGED Ledger!ledgerVars
  BY <1>5, StutterStep DEF ItemsRead, rows
<1>6. ASSUME NEW r \in Requests, MoveStock(r)
      PROVE  UNCHANGED Ledger!ledgerVars
  BY <1>6, StutterStep DEF MoveStock, rows
<1>7. ASSUME NEW r \in Requests, TakeBalanceLock(r)
      PROVE  UNCHANGED Ledger!ledgerVars
  BY <1>7, StutterStep DEF TakeBalanceLock, rows
<1>8. ASSUME NEW r \in Requests, Deduct(r)
      PROVE  UNCHANGED Ledger!ledgerVars
  BY <1>8, StutterStep DEF Deduct, rows
<1>9. ASSUME NEW r \in Requests, CreditRow(r)
      PROVE  UNCHANGED Ledger!ledgerVars
  BY <1>9, StutterStep DEF CreditRow, rows, WriteCredit
<1>10. ASSUME NEW r \in Requests, CreditGap(r)
      PROVE  UNCHANGED Ledger!ledgerVars
  BY <1>10, StutterStep DEF CreditGap, rows
<1>11. ASSUME NEW r \in Requests, CreditInsert(r)
      PROVE  UNCHANGED Ledger!ledgerVars
  BY <1>11, StutterStep DEF CreditInsert, rows, WriteCredit
<1>12. ASSUME NEW r \in Requests, Record(r)
      PROVE  UNCHANGED Ledger!ledgerVars
  BY <1>12, StutterStep DEF Record, rows
<1>13. ASSUME NEW r \in Requests, TxDies(r)
      PROVE  UNCHANGED Ledger!ledgerVars
  BY <1>13, StutterStep DEF TxDies, rows
<1>14. ASSUME NEW r \in Requests, Unlock(r)
      PROVE  UNCHANGED Ledger!ledgerVars
  BY <1>14, StutterStep DEF Unlock, rows
<1>15. ASSUME NEW r \in Requests, Crash(r)
      PROVE  UNCHANGED Ledger!ledgerVars
  BY <1>15, StutterStep DEF Crash, rows
<1>16. ASSUME NEW r \in Requests, NEW v \in Variants, ReadItem(r, v)
      PROVE  UNCHANGED Ledger!ledgerVars
  BY <1>16, StutterStep DEF ReadItem, rows
<1>17. ASSUME NEW r \in Requests, NEW v \in Variants, TakeProductLock(r, v)
      PROVE  UNCHANGED Ledger!ledgerVars
  BY <1>17, StutterStep DEF TakeProductLock, rows
<1>18. ASSUME NEW r \in Requests, RefuseOuterLock(r)
      PROVE  UNCHANGED Ledger!ledgerVars
  <2>1. outcome[r] = "none"
    BY <1>18 DEF LocksCover, TypeOK, Control, RefuseOuterLock
  <2> QED BY <1>18, <2>1, StutterStep DEF LocksCover, TypeOK, RefuseOuterLock, rows
<1>19. ASSUME NEW r \in Requests, RefuseBegin(r)
      PROVE  UNCHANGED Ledger!ledgerVars
  <2>1. outcome[r] = "none"
    BY <1>19 DEF LocksCover, TypeOK, Control, RefuseBegin
  <2> QED BY <1>19, <2>1, StutterStep DEF LocksCover, TypeOK, RefuseBegin, rows
<1>20. ASSUME NEW r \in Requests, Refuse(r)
      PROVE  UNCHANGED Ledger!ledgerVars
  BY <1>20, ThrowStutters DEF LocksCover, Control, Refuse
<1>21. ASSUME NEW r \in Requests, RefuseInnerLock(r)
      PROVE  UNCHANGED Ledger!ledgerVars
  BY <1>21, ThrowStutters DEF RefuseInnerLock, Working
<1>22. ASSUME NEW r \in Requests, NoticeDeath(r)
      PROVE  UNCHANGED Ledger!ledgerVars
  BY <1>22, ThrowStutters DEF LocksCover, Control, NoticeDeath
<1>23. ASSUME NEW r \in Requests, Commit(r)
      PROVE  Ledger!LedgerNext
  BY <1>23, CommitStep
<1>24. ASSUME NEW r \in Requests, Patch(r)
      PROVE  Ledger!LedgerNext
  <2>1. r \notin Served /\ Served' = Served \cup {r}
    BY <1>24 DEF LocksCover, TypeOK, Control, Patch, Served
  <2>2. Ledger!Patch(r)
    BY <1>24 DEF Ledger!Patch, Patch
  <2> QED BY <2>1, <2>2 DEF Ledger!LedgerNext, Ledger!Serve, Served
<1>25. ASSUME NEW k \in Keys, LeaseExpires(k)
      PROVE  UNCHANGED Ledger!ledgerVars
  BY <1>25, StutterStep DEF LeaseExpires, LeaseOver
<1>26. CASE UNCHANGED vars
  BY <1>26, StutterStep DEF vars
<1> QED
  BY <1>1, <1>2, <1>3, <1>4, <1>5, <1>6, <1>7, <1>8, <1>9, <1>10, <1>11,
     <1>12, <1>13, <1>14, <1>15, <1>16, <1>17, <1>18, <1>19, <1>20, <1>21,
     <1>22, <1>23, <1>24, <1>25, <1>26
     DEF Next, Handle, Finished

\* Every behaviour of the handlers, whatever crashes, timeouts and refusals it
\* has, is one of the ledger: each request takes effect once, whole, on the rows
\* as they are when it commits, or not at all.
THEOREM Refines == Spec => ImplementsLedger
<1>1. Init => Ledger!LedgerInit
  BY DEF Init, Ledger!LedgerInit
<1>2. LocksCover /\ [Next]_vars => [Ledger!LedgerNext]_Ledger!ledgerVars
  BY LedgerStep
<1> QED BY <1>1, <1>2, Covered, PTL DEF Spec, ImplementsLedger, Ledger!LedgerSpec

-----------------------------------------------------------------------------
(* The balance history *)

\* A booking of the difference between two balances prolongs the chain.
LEMMA BookChains ==
    ASSUME TypeOK, HistoryChains, NEW u \in Users, NEW b \in Int,
           NEW type, NEW amount \in Int, Ledger!Book(u, b, type, amount),
           b = balance[u] + Signed(Ledger!Entry(type, amount, b))
    PROVE  HistoryChains'
<1> DEFINE e == Ledger!Entry(type, amount, b)
<1>1. /\ balance' = [balance EXCEPT ![u] = b]
      /\ history' = [history EXCEPT ![u] = Append(@, e)]
      /\ history \in [Users -> Seq(Entries)] /\ balance \in [Users -> Int]
  BY DEF TypeOK, Ledger!Book
<1>2. ASSUME NEW x \in Users, x # u
      PROVE  /\ \A i \in 1 .. Len(history'[x]) :
                   history'[x][i].after = Before(x, i)' + Signed(history'[x][i])
             /\ balance'[x] = Before(x, Len(history[x]) + 1)'
  <2>1. history'[x] = history[x] /\ balance'[x] = balance[x]
    BY <1>1, <1>2
  <2> QED BY <2>1 DEF HistoryChains, Before
<1>3. PICK n \in Nat : n = Len(history[u])
  BY <1>1
<1>4. /\ Len(history'[u]) = n + 1
      /\ \A i \in 1 .. n : history'[u][i] = history[u][i]
      /\ history'[u][n + 1] = e
  BY <1>1, <1>3
<1>5. \A i \in 1 .. n + 1 : Before(u, i)' = Before(u, i)
  <2> SUFFICES ASSUME NEW i \in 1 .. n + 1
               PROVE  Before(u, i)' = Before(u, i)
    OBVIOUS
  <2>1. CASE i = 1
    BY <2>1 DEF Before
  <2>2. CASE i # 1
    <3>1. i - 1 \in 1 .. n
      BY <1>3, <2>2
    <3> QED BY <1>4, <2>2, <3>1 DEF Before
  <2> QED BY <2>1, <2>2
<1>6. \A i \in 1 .. n : history'[u][i].after = Before(u, i)' + Signed(history'[u][i])
  <2> SUFFICES ASSUME NEW i \in 1 .. n
               PROVE  history'[u][i].after = Before(u, i)' + Signed(history'[u][i])
    OBVIOUS
  <2>1. history[u][i].after = Before(u, i) + Signed(history[u][i])
    BY <1>3 DEF HistoryChains
  <2>2. i \in 1 .. n + 1
    BY <1>3
  <2>3. Before(u, i)' = Before(u, i)
    BY <1>5, <2>2
  <2> QED BY <1>4, <2>1, <2>3
<1>7. e.after = b /\ b = Before(u, n + 1)' + Signed(e)
  <2>1. balance[u] = Before(u, n + 1)
    BY <1>3 DEF HistoryChains
  <2>2. Before(u, n + 1)' = Before(u, n + 1)
    BY <1>3, <1>5
  <2> QED BY <2>1, <2>2 DEF Ledger!Entry
<1>8. balance'[u] = Before(u, n + 2)'
  <2>1. n + 2 # 1 /\ (n + 2) - 1 = n + 1
    BY <1>3
  <2>2. Before(u, n + 2)' = history'[u][n + 1].after
    BY <2>1 DEF Before
  <2> QED BY <1>1, <1>4, <1>7, <2>2
<1>9. \A i \in 1 .. Len(history'[u]) :
          history'[u][i].after = Before(u, i)' + Signed(history'[u][i])
  <2> SUFFICES ASSUME NEW i \in 1 .. n + 1
               PROVE  history'[u][i].after = Before(u, i)' + Signed(history'[u][i])
    BY <1>4
  <2>1. CASE i \in 1 .. n
    BY <1>6, <2>1
  <2>2. CASE i = n + 1
    BY <1>4, <1>7, <2>2
  <2> QED BY <1>3, <2>1, <2>2
<1>10. ASSUME NEW x \in Users
       PROVE  /\ \A i \in 1 .. Len(history'[x]) :
                    history'[x][i].after = Before(x, i)' + Signed(history'[x][i])
              /\ balance'[x] = Before(x, Len(history[x]) + 1)'
  <2>1. CASE x = u
    <3>1. Len(history'[u]) + 1 = n + 2
      BY <1>3, <1>4
    <3> QED BY <1>8, <1>9, <2>1, <3>1
  <2> QED BY <1>2, <2>1
<1> QED BY <1>10 DEF HistoryChains

LEMMA ChainStep ==
    ASSUME TypeOK, HistoryChains, [Ledger!LedgerNext]_Ledger!ledgerVars
    PROVE  HistoryChains'
<1>1. ASSUME NEW r \in Requests, Ledger!Serve(r)
      PROVE  HistoryChains'
  <2> DEFINE u == Caller[r]
             o == OrderOf[r]
  <2>1. /\ u \in Users /\ balance[u] \in Int
        /\ Amount[o] \in Int /\ ChargeOf[r] \in Int
    BY ConstantTypes, RequestAssumption DEF TypeOK
  <2>2. CASE Ledger!Pay(r)
    <3>1. Ledger!Book(u, balance[u] - Amount[o], "USE", Amount[o])
      BY <2>2 DEF Ledger!Pay
    <3> QED BY <2>1, <3>1, BookChains DEF Signed, Ledger!Entry
  <2>3. ASSUME NEW amount \in Int, Ledger!Credit(u, amount)
        PROVE  HistoryChains'
    <3>1. Ledger!Book(u, balance[u] + amount, "REFUND", amount)
      BY <2>3 DEF Ledger!Credit
    <3> QED BY <2>1, <3>1, BookChains DEF Signed, Ledger!Entry
  <2>4. CASE Ledger!Cancel(r)
    BY <2>1, <2>3, <2>4 DEF Ledger!Cancel
  <2>5. CASE Ledger!Charge(r)
    BY <2>1, <2>3, <2>5 DEF Ledger!Charge
  <2>6. CASE Ledger!Patch(r)
    BY <2>6 DEF Ledger!Patch, HistoryChains, Before
  <2> QED BY <1>1, <2>2, <2>4, <2>5, <2>6 DEF Ledger!Serve
<1>2. CASE UNCHANGED Ledger!ledgerVars
  BY <1>2 DEF Ledger!ledgerVars, Ledger!rows, HistoryChains, Before
<1> QED BY <1>1, <1>2 DEF Ledger!LedgerNext

\* Through any interleaving of payments, refunds and top-ups, and any failure,
\* each line of a user's balance history continues the one before it, and the
\* last one shows the balance.
THEOREM HistoryUnbroken == Spec => []HistoryChains
<1>1. Init => HistoryChains
  BY DEF Init, HistoryChains, Before
<1>2. LocksCover /\ HistoryChains /\ [Next]_vars => HistoryChains'
  <2> SUFFICES ASSUME LocksCover, HistoryChains, [Next]_vars
               PROVE  HistoryChains'
    OBVIOUS
  <2>1. [Ledger!LedgerNext]_Ledger!ledgerVars
    BY LedgerStep
  <2> QED BY <2>1, ChainStep DEF LocksCover
<1> QED BY <1>1, <1>2, Covered, PTL DEF Spec

-----------------------------------------------------------------------------
(* One payment per order *)

\* Whoever overwrites a status by hand only closes orders.
PatchesClose == \A r \in Requests : Kind[r] = "patch" => ~Payable(StatusOf[r])

\* The order of a completed payment cannot be paid.
PaidIsClosed ==
    \A p \in Requests : payStatus[p] = "COMPLETED" => ~Payable(orderStatus[OrderOf[p]])

OnceAndClosed == OnePaymentPerOrder /\ PaidIsClosed

LEMMA OnceStep ==
    ASSUME TypeOK, PatchesClose, OnceAndClosed, [Ledger!LedgerNext]_Ledger!ledgerVars
    PROVE  OnceAndClosed'
<1> USE DEF Payable, Ledger!Payable
<1>1. ASSUME NEW r \in Requests, Ledger!Serve(r)
      PROVE  OnceAndClosed'
  <2> DEFINE o == OrderOf[r]
             p == PaymentOf[r]
  <2>1. /\ o \in Orders /\ p \in Requests
        /\ \A q \in Requests : OrderOf[q] \in Orders
    BY ConstantTypes
  <2>2. CASE Ledger!Pay(r)
    <3>1. /\ payStatus' = [payStatus EXCEPT ![r] = "COMPLETED"]
          /\ orderStatus' = [orderStatus EXCEPT ![o] = "PAID"]
          /\ Payable(orderStatus[o])
      BY <2>2 DEF Ledger!Pay
    <3>2. \A q \in Requests : OrderOf[q] = o => payStatus[q] # "COMPLETED"
      BY <2>1, <3>1 DEF OnceAndClosed, PaidIsClosed
    <3>3. OnePaymentPerOrder'
      BY <3>1, <3>2 DEF TypeOK, OnceAndClosed, OnePaymentPerOrder
    <3>4. PaidIsClosed'
      BY <2>1, <3>1 DEF TypeOK, OnceAndClosed, PaidIsClosed
    <3> QED BY <3>3, <3>4 DEF OnceAndClosed
  <2>3. CASE Ledger!Cancel(r)
    BY <2>1, <2>3
       DEF Ledger!Cancel, TypeOK, OnceAndClosed, OnePaymentPerOrder, PaidIsClosed
  <2>4. CASE Ledger!Charge(r)
    BY <2>4 DEF Ledger!Charge, OnceAndClosed, OnePaymentPerOrder, PaidIsClosed
  <2>5. CASE Ledger!Patch(r)
    <3>1. /\ orderStatus' = [orderStatus EXCEPT ![o] = StatusOf[r]]
          /\ ~Payable(StatusOf[r]) /\ UNCHANGED payStatus
      BY <2>5, PatchesClose DEF Ledger!Patch, PatchesClose
    <3> QED
      BY <2>1, <3>1 DEF TypeOK, OnceAndClosed, OnePaymentPerOrder, PaidIsClosed
  <2> QED BY <1>1, <2>2, <2>3, <2>4, <2>5 DEF Ledger!Serve
<1>2. CASE UNCHANGED Ledger!ledgerVars
  BY <1>2 DEF Ledger!ledgerVars, Ledger!rows, OnceAndClosed, OnePaymentPerOrder, PaidIsClosed
<1> QED BY <1>1, <1>2 DEF Ledger!LedgerNext

\* No order ever has two completed payments, whatever its requests and whatever
\* fails, unless somebody patches a paid order's status back to one that can be paid.
THEOREM PaidOnce ==
    ASSUME PatchesClose
    PROVE  Spec => []OnePaymentPerOrder
<1>1. Init => OnceAndClosed
  BY DEF Init, OnceAndClosed, OnePaymentPerOrder, PaidIsClosed
<1>2. LocksCover /\ OnceAndClosed /\ [Next]_vars => OnceAndClosed'
  <2> SUFFICES ASSUME LocksCover, OnceAndClosed, [Next]_vars
               PROVE  OnceAndClosed'
    OBVIOUS
  <2>1. [Ledger!LedgerNext]_Ledger!ledgerVars
    BY LedgerStep
  <2> QED BY <2>1, PatchesClose, OnceStep DEF LocksCover
<1>3. OnceAndClosed => OnePaymentPerOrder
  BY DEF OnceAndClosed
<1> QED BY <1>1, <1>2, <1>3, Covered, PTL DEF Spec

-----------------------------------------------------------------------------
(* PAID and paid *)

\* Order statuses change by payments and cancellations only, and no order is
\* PAID before its first payment.
NoPatch == \A r \in Requests : Kind[r] # "patch"
NonePaid == \A o \in Orders : Order0[o] # "PAID"

OnceAndMarked == OnePaymentPerOrder /\ PaidIffPayment

LEMMA MarkedStep ==
    ASSUME TypeOK, NoPatch, OnceAndMarked, [Ledger!LedgerNext]_Ledger!ledgerVars
    PROVE  OnceAndMarked'
<1>1. ASSUME NEW r \in Requests, Ledger!Serve(r)
      PROVE  OnceAndMarked'
  <2> DEFINE o == OrderOf[r]
             p == PaymentOf[r]
  <2>1. /\ o \in Orders /\ p \in Requests
        /\ \A q \in Requests : OrderOf[q] \in Orders
    BY ConstantTypes
  <2>2. CASE Ledger!Pay(r)
    <3>1. /\ payStatus' = [payStatus EXCEPT ![r] = "COMPLETED"]
          /\ orderStatus' = [orderStatus EXCEPT ![o] = "PAID"]
          /\ orderStatus[o] # "PAID"
      BY <2>2 DEF Ledger!Pay, Ledger!Payable
    <3>2. \A q \in Requests : OrderOf[q] = o => payStatus[q] # "COMPLETED"
      BY <2>1, <3>1 DEF OnceAndMarked, PaidIffPayment
    <3>3. OnePaymentPerOrder'
      BY <3>1, <3>2 DEF TypeOK, OnceAndMarked, OnePaymentPerOrder
    <3>4. PaidIffPayment'
      BY <2>1, <3>1, <3>2 DEF TypeOK, OnceAndMarked, PaidIffPayment
    <3> QED BY <3>3, <3>4 DEF OnceAndMarked
  <2>3. CASE Ledger!Cancel(r)
    <3>1. /\ payStatus' = [payStatus EXCEPT ![p] = "CANCELLED"]
          /\ orderStatus' = [orderStatus EXCEPT ![o] = "CANCELLED"]
          /\ payStatus[p] = "COMPLETED" /\ OrderOf[p] = o
      BY <2>3, PaymentAssumption DEF Ledger!Cancel
    <3>2. \A q \in Requests : OrderOf[q] = o /\ q # p => payStatus[q] # "COMPLETED"
      BY <2>1, <3>1 DEF OnceAndMarked, OnePaymentPerOrder
    <3>3. OnePaymentPerOrder'
      BY <2>1, <3>1 DEF TypeOK, OnceAndMarked, OnePaymentPerOrder
    <3>4. PaidIffPayment'
      BY <2>1, <3>1, <3>2 DEF TypeOK, OnceAndMarked, PaidIffPayment
    <3> QED BY <3>3, <3>4 DEF OnceAndMarked
  <2>4. CASE Ledger!Charge(r)
    BY <2>4 DEF Ledger!Charge, OnceAndMarked, OnePaymentPerOrder, PaidIffPayment
  <2> QED BY <1>1, <2>2, <2>3, <2>4 DEF Ledger!Serve, Ledger!Patch, NoPatch
<1>2. CASE UNCHANGED Ledger!ledgerVars
  BY <1>2 DEF Ledger!ledgerVars, Ledger!rows, OnceAndMarked, OnePaymentPerOrder, PaidIffPayment
<1> QED BY <1>1, <1>2 DEF Ledger!LedgerNext

\* As long as updateOrderStatus is not called, an order is PAID exactly while it has
\* a completed payment.
THEOREM PaidMeansPayment ==
    ASSUME NoPatch, NonePaid
    PROVE  Spec => []PaidIffPayment
<1>1. Init => OnceAndMarked
  BY ConstantTypes, NonePaid
     DEF Init, OnceAndMarked, OnePaymentPerOrder, PaidIffPayment, NonePaid
<1>2. LocksCover /\ OnceAndMarked /\ [Next]_vars => OnceAndMarked'
  <2> SUFFICES ASSUME LocksCover, OnceAndMarked, [Next]_vars
               PROVE  OnceAndMarked'
    OBVIOUS
  <2>1. [Ledger!LedgerNext]_Ledger!ledgerVars
    BY LedgerStep
  <2> QED BY <2>1, NoPatch, MarkedStep DEF LocksCover
<1>3. OnceAndMarked => PaidIffPayment
  BY DEF OnceAndMarked
<1> QED BY <1>1, <1>2, <1>3, Covered, PTL DEF Spec

-----------------------------------------------------------------------------
(* Cancelled for good *)

\* Whoever overwrites a status by hand cancels the order.
PatchesCancel == \A r \in Requests : Kind[r] = "patch" => StatusOf[r] = "CANCELLED"

\* A payment row is created by the request that is answered with it.
OwnPayment == \A p \in Requests : payStatus[p] # "NONE" => p \in Served

Final ==
    /\ \A p \in Requests : payStatus[p] = "CANCELLED" => payStatus'[p] = "CANCELLED"
    /\ \A o \in Orders : orderStatus[o] = "CANCELLED" => orderStatus'[o] = "CANCELLED"

LEMMA FinalStep ==
    ASSUME TypeOK, PatchesCancel, OwnPayment, [Ledger!LedgerNext]_Ledger!ledgerVars
    PROVE  OwnPayment' /\ Final
<1>1. ASSUME NEW r \in Requests, Ledger!Serve(r)
      PROVE  OwnPayment' /\ Final
  <2>1. /\ OrderOf[r] \in Orders /\ PaymentOf[r] \in Requests
        /\ r \notin Served /\ Served' = Served \cup {r}
    BY <1>1, ConstantTypes DEF Ledger!Serve, Served
  <2>2. CASE Ledger!Pay(r)
    <3>1. /\ payStatus' = [payStatus EXCEPT ![r] = "COMPLETED"]
          /\ orderStatus' = [orderStatus EXCEPT ![OrderOf[r]] = "PAID"]
          /\ orderStatus[OrderOf[r]] # "CANCELLED"
      BY <2>2 DEF Ledger!Pay, Ledger!Payable
    <3>2. payStatus[r] = "NONE"
      BY <2>1 DEF OwnPayment
    <3> QED BY <2>1, <3>1, <3>2 DEF TypeOK, OwnPayment, Final
  <2>3. CASE Ledger!Cancel(r)
    <3>1. /\ payStatus' = [payStatus EXCEPT ![PaymentOf[r]] = "CANCELLED"]
          /\ orderStatus' = [orderStatus EXCEPT ![OrderOf[r]] = "CANCELLED"]
          /\ payStatus[PaymentOf[r]] = "COMPLETED"
      BY <2>3 DEF Ledger!Cancel
    <3> QED BY <2>1, <3>1 DEF TypeOK, OwnPayment, Final
  <2>4. CASE Ledger!Charge(r)
    BY <2>1, <2>4 DEF Ledger!Charge, OwnPayment, Final
  <2>5. CASE Ledger!Patch(r)
    <3>1. /\ orderStatus' = [orderStatus EXCEPT ![OrderOf[r]] = "CANCELLED"]
          /\ UNCHANGED payStatus
      BY <2>5, PatchesCancel DEF Ledger!Patch, PatchesCancel
    <3> QED BY <2>1, <3>1 DEF TypeOK, OwnPayment, Final
  <2> QED BY <1>1, <2>2, <2>3, <2>4, <2>5 DEF Ledger!Serve
<1>2. CASE UNCHANGED Ledger!ledgerVars
  BY <1>2 DEF Ledger!ledgerVars, Ledger!rows, OwnPayment, Final, Served
<1> QED BY <1>1, <1>2 DEF Ledger!LedgerNext

\* As long as updateOrderStatus only cancels, a cancelled payment stays cancelled,
\* and a cancelled order stays cancelled and is not paid again.
THEOREM CancelledForGood ==
    ASSUME PatchesCancel
    PROVE  Spec => CancelIsFinal
<1>1. Init => OwnPayment
  BY DEF Init, OwnPayment
<1>2. LocksCover /\ OwnPayment /\ [Next]_vars => OwnPayment' /\ Final
  <2> SUFFICES ASSUME LocksCover, OwnPayment, [Next]_vars
               PROVE  OwnPayment' /\ Final
    OBVIOUS
  <2>1. [Ledger!LedgerNext]_Ledger!ledgerVars
    BY LedgerStep
  <2> QED BY <2>1, PatchesCancel, FinalStep DEF LocksCover
<1>3. Final => [Final]_<<payStatus, orderStatus>>
  OBVIOUS
<1>4. Spec => [][Final]_<<payStatus, orderStatus>>
  BY <1>1, <1>2, <1>3, Covered, PTL DEF Spec
<1> QED BY <1>4 DEF CancelIsFinal, Final

-----------------------------------------------------------------------------
(* Totals *)

LEMMA NoUnits ==
    ASSUME NEW value
    PROVE  Total(value, {}) = 0
<1>1. Units(value, {}) = {} /\ Missing(value, {}) = {}
  BY DEF Units, Missing
<1>2. Cardinality({}) = 0
  BY FS_EmptySet
<1>3. Cardinality(Units(value, {})) = 0 /\ Cardinality(Missing(value, {})) = 0
  BY <1>1, <1>2
<1>4. 0 - 0 = 0
  OBVIOUS
<1> QED BY <1>3, <1>4 DEF Total

\* One row has as many units as it is worth.
LEMMA RowUnits ==
    ASSUME NEW x, NEW n \in Int
    PROVE  /\ IsFiniteSet({x} \X (1 .. n))
           /\ Cardinality({x} \X (1 .. n)) = IF n > 0 THEN n ELSE 0
<1> DEFINE N == 1 .. n
<1>1. IsFiniteSet({x}) /\ Cardinality({x}) = 1
  BY FS_Singleton
<1>2. IsFiniteSet(N) /\ Cardinality(N) = IF 1 > n THEN 0 ELSE n - 1 + 1
  BY FS_Interval
<1>3. Cardinality(N) = IF n > 0 THEN n ELSE 0
  BY <1>2
<1>4. Cardinality(N) \in Nat
  BY <1>3
<1> HIDE DEF N
<1>5. IsFiniteSet({x} \X N) /\ Cardinality({x} \X N) = 1 * Cardinality(N)
  BY <1>1, <1>2, FS_Product
<1>6. Cardinality({x} \X N) = Cardinality(N)
  BY <1>4, <1>5
<1> QED BY <1>3, <1>5, <1>6 DEF N

\* A finite table has finitely many units.
LEMMA UnitsFinite ==
    ASSUME NEW S, IsFiniteSet(S), NEW value, \A x \in S : value[x] \in Int
    PROVE  IsFiniteSet(Units(value, S)) /\ Cardinality(Units(value, S)) \in Nat
<1> DEFINE units(x) == {x} \X (1 .. value[x])
           T == {units(x) : x \in S}
           g == [x \in S |-> units(x)]
<1>1. g \in Surjection(S, T)
  BY DEF Surjection
<1>2. IsFiniteSet(T)
  BY <1>1, FS_Surjection
<1>3. ASSUME NEW x \in S
      PROVE  IsFiniteSet(units(x))
  BY <1>3, RowUnits
<1>4. IsFiniteSet(UNION T)
  BY <1>2, <1>3, FS_UNION
<1> QED BY <1>4, FS_CardinalityType DEF Units

LEMMA UnitsWith ==
    ASSUME NEW S, IsFiniteSet(S), NEW e, e \notin S,
           NEW value, \A x \in S \cup {e} : value[x] \in Int
    PROVE  Cardinality(Units(value, S \cup {e})) =
             Cardinality(Units(value, S)) + (IF value[e] > 0 THEN value[e] ELSE 0)
<1> DEFINE U == Units(value, S)
           V == {e} \X (1 .. value[e])
<1>1. Units(value, S \cup {e}) = U \cup V
  BY DEF Units
<1>2. U \cap V = {}
  BY DEF Units
<1>3. IsFiniteSet(U) /\ Cardinality(U) \in Nat
  BY UnitsFinite
<1>4. IsFiniteSet(V) /\ Cardinality(V) = IF value[e] > 0 THEN value[e] ELSE 0
  BY RowUnits
<1>5. Cardinality(U \cup V) = Cardinality(U) + Cardinality(V) - Cardinality(U \cap V)
  BY <1>3, <1>4, FS_Union
<1>6. Cardinality(U \cap V) = 0
  BY <1>2, FS_EmptySet
<1> HIDE DEF U, V
<1>7. Cardinality(U \cup V) = Cardinality(U) + Cardinality(V)
  BY <1>3, <1>4, <1>5, <1>6
<1> QED BY <1>1, <1>4, <1>7 DEF U

\* Missing units are the units of the opposite values.
LEMMA MissingUnits ==
    ASSUME NEW S, NEW T, S \subseteq T, NEW value
    PROVE  Missing(value, S) = Units([x \in T |-> -value[x]], S)
BY DEF Missing, Units

LEMMA TotalType ==
    ASSUME NEW S, IsFiniteSet(S), NEW value, \A x \in S : value[x] \in Int
    PROVE  Total(value, S) \in Int
<1> DEFINE opposite == [x \in S |-> -value[x]]
<1>1. Cardinality(Units(value, S)) \in Nat
  BY UnitsFinite
<1>2. \A x \in S : opposite[x] \in Int
  OBVIOUS
<1>3. Missing(value, S) = Units(opposite, S)
  BY MissingUnits
<1> HIDE DEF opposite
<1>4. Cardinality(Units(opposite, S)) \in Nat
  BY <1>2, UnitsFinite
<1> QED BY <1>1, <1>3, <1>4 DEF Total

\* A row that comes adds its value.
LEMMA TotalWith ==
    ASSUME NEW S, IsFiniteSet(S), NEW e, e \notin S,
           NEW value, \A x \in S \cup {e} : value[x] \in Int
    PROVE  Total(value, S \cup {e}) = Total(value, S) + value[e]
<1> DEFINE T == S \cup {e}
           opposite == [x \in T |-> -value[x]]
           gain == IF value[e] > 0 THEN value[e] ELSE 0
           loss == IF opposite[e] > 0 THEN opposite[e] ELSE 0
<1>1. \A x \in T : opposite[x] \in Int
  OBVIOUS
<1>2. Missing(value, S) = Units(opposite, S) /\ Missing(value, T) = Units(opposite, T)
  BY MissingUnits
<1>3. gain \in Int /\ loss \in Int /\ gain - loss = value[e]
  OBVIOUS
<1> HIDE DEF opposite
<1>4. /\ Cardinality(Units(value, S)) \in Nat
      /\ Cardinality(Units(value, T)) = Cardinality(Units(value, S)) + gain
  BY UnitsFinite, UnitsWith
<1>5. /\ Cardinality(Units(opposite, S)) \in Nat
      /\ Cardinality(Units(opposite, T)) = Cardinality(Units(opposite, S)) + loss
  BY <1>1, UnitsFinite, UnitsWith
<1> HIDE DEF T, gain, loss
<1>6. Total(value, T) = Total(value, S) + value[e]
  BY <1>2, <1>3, <1>4, <1>5 DEF Total
<1> QED BY <1>6 DEF T

\* A row that goes takes it away.
LEMMA TotalWithout ==
    ASSUME NEW S, IsFiniteSet(S), NEW e \in S,
           NEW value, \A x \in S : value[x] \in Int
    PROVE  Total(value, S \ {e}) = Total(value, S) - value[e]
<1>1. IsFiniteSet(S \ {e}) /\ e \notin S \ {e} /\ (S \ {e}) \cup {e} = S
  BY FS_RemoveElement
<1>2. Total(value, S) = Total(value, S \ {e}) + value[e]
  BY <1>1, TotalWith
<1>3. Total(value, S \ {e}) \in Int /\ value[e] \in Int
  BY <1>1, TotalType
<1> QED BY <1>2, <1>3

-----------------------------------------------------------------------------
(* Stock and money *)

\* Rows are written by requests that are answered with them, and finitely many
\* have been.
Answered == OwnPayment /\ IsFiniteSet(Served)

Accounted == Answered /\ StockAccounted /\ MoneyAccounted

LEMMA AccountTypes ==
    /\ \A v \in Variants, p \in Requests : /\ Pieces(v)[p] = Qty[OrderOf[p]][v]
                                         /\ Pieces(v)[p] \in Nat
    /\ \A p \in Requests : Price[p] = Amount[OrderOf[p]] /\ Price[p] \in Int
    /\ \A r \in Requests : ChargeOf[r] \in Int
    /\ Stock0 \in [Variants -> Nat] /\ Balance0 \in [Users -> Nat]
BY RequestAssumption, RowAssumption DEF Pieces, Price

\* What has been paid and charged so far is finite, and each sum a number.
LEMMA AccountsFinite ==
    ASSUME Answered
    PROVE  /\ IsFiniteSet(Completed)
           /\ \A u \in Users : IsFiniteSet(CompletedBy(u)) /\ IsFiniteSet(ChargesOf(u))
           /\ \A v \in Variants : Sold(v) \in Int
           /\ \A u \in Users : Spent(u) \in Int /\ Charged(u) \in Int
<1>1. Completed \subseteq Served /\ IsFiniteSet(Served)
  BY DEF Answered, OwnPayment, Completed
<1>2. \A u \in Users : CompletedBy(u) \subseteq Served /\ ChargesOf(u) \subseteq Served
  BY <1>1 DEF CompletedBy, ChargesOf, Served
<1>3. IsFiniteSet(Completed)
  BY <1>1, FS_Subset
<1>4. \A u \in Users : IsFiniteSet(CompletedBy(u)) /\ IsFiniteSet(ChargesOf(u))
  BY <1>1, <1>2, FS_Subset
<1>5. ASSUME NEW v \in Variants
      PROVE  Sold(v) \in Int
  <2>1. \A p \in Completed : Pieces(v)[p] \in Int
    BY AccountTypes DEF Completed
  <2> QED BY <1>3, <2>1, TotalType DEF Sold
<1>6. ASSUME NEW u \in Users
      PROVE  Spent(u) \in Int /\ Charged(u) \in Int
  <2>1. /\ \A p \in CompletedBy(u) : Price[p] \in Int
        /\ \A r \in ChargesOf(u) : ChargeOf[r] \in Int
    BY AccountTypes DEF CompletedBy, Completed, ChargesOf
  <2> QED BY <1>4, <2>1, TotalType DEF Spent, Charged
<1> QED BY <1>3, <1>4, <1>5, <1>6

LEMMA AnsweredStep ==
    ASSUME TypeOK, Answered, [Ledger!LedgerNext]_Ledger!ledgerVars
    PROVE  Answered'
<1>1. ASSUME NEW r \in Requests, Ledger!Serve(r)
      PROVE  Answered'
  <2>1. Served' = Served \cup {r} /\ PaymentOf[r] \in Requests
    BY <1>1, ConstantTypes DEF Ledger!Serve, Served
  <2>2. IsFiniteSet(Served')
    BY <2>1, FS_AddElement DEF Answered
  <2>3. CASE Ledger!Pay(r)
    BY <2>1, <2>2, <2>3 DEF TypeOK, Ledger!Pay, Answered, OwnPayment
  <2>4. CASE Ledger!Cancel(r)
    BY <2>1, <2>2, <2>4 DEF TypeOK, Ledger!Cancel, Answered, OwnPayment
  <2>5. CASE UNCHANGED payStatus
    BY <2>1, <2>2, <2>5 DEF Answered, OwnPayment
  <2> QED BY <1>1, <2>3, <2>4, <2>5 DEF Ledger!Serve, Ledger!Charge, Ledger!Patch
<1>2. CASE UNCHANGED Ledger!ledgerVars
  BY <1>2 DEF Ledger!ledgerVars, Ledger!rows, Answered, OwnPayment, Served
<1> QED BY <1>1, <1>2 DEF Ledger!LedgerNext

\* A payment adds its pieces and its price.
LEMMA PayAccounts ==
    ASSUME TypeOK, Accounted, NEW r \in Requests, Ledger!Serve(r), Ledger!Pay(r)
    PROVE  StockAccounted' /\ MoneyAccounted'
<1> DEFINE o == OrderOf[r]
           c == Caller[r]
<1>1. /\ r \notin Served /\ Served' = Served \cup {r}
      /\ Kind[r] = "pay" /\ c \in Users
  BY ConstantTypes DEF Ledger!Serve, Ledger!Pay, Served
<1>2. /\ stock' = [v \in Variants |-> stock[v] - Qty[o][v]]
      /\ balance' = [balance EXCEPT ![c] = balance[c] - Amount[o]]
      /\ payStatus' = [payStatus EXCEPT ![r] = "COMPLETED"]
  BY DEF Ledger!Pay, Ledger!Book
<1>3. r \notin Completed
  BY <1>1 DEF Accounted, Answered, OwnPayment, Completed
<1>4. Completed' = Completed \cup {r}
  BY <1>2 DEF TypeOK, Completed
<1>5. /\ CompletedBy(c)' = CompletedBy(c) \cup {r} /\ r \notin CompletedBy(c)
      /\ \A u \in Users \ {c} : CompletedBy(u)' = CompletedBy(u)
      /\ \A u \in Users : CompletedBy(u) \subseteq Requests
  BY <1>3, <1>4 DEF CompletedBy, Completed
<1>6. \A u \in Users : ChargesOf(u)' = ChargesOf(u)
  BY <1>1 DEF ChargesOf, Served
<1>7. \A u \in Users : Charged(u)' = Charged(u)
  BY <1>6 DEF Charged
<1>8. Answered
  BY DEF Accounted
<1>9. ASSUME NEW v \in Variants
      PROVE  stock'[v] + Sold(v)' = Stock0[v]
  <2>1. \A p \in Completed \cup {r} : Pieces(v)[p] \in Int
    BY AccountTypes DEF Completed
  <2>2. Sold(v)' = Sold(v) + Pieces(v)[r]
    BY <1>3, <1>4, <1>8, <2>1, AccountsFinite, TotalWith DEF Sold
  <2>3. /\ stock'[v] = stock[v] - Pieces(v)[r]
        /\ stock[v] \in Int /\ Pieces(v)[r] \in Nat /\ Sold(v) \in Int
    BY <1>2, <1>8, AccountTypes, AccountsFinite DEF TypeOK
  <2>4. stock[v] + Sold(v) = Stock0[v]
    BY DEF Accounted, StockAccounted
  <2> QED BY <2>2, <2>3, <2>4
<1>10. Spent(c)' = Spent(c) + Price[r]
  <2>1. \A p \in CompletedBy(c) \cup {r} : Price[p] \in Int
    BY <1>1, <1>5, AccountTypes
  <2> QED BY <1>1, <1>5, <1>8, <2>1, AccountsFinite, TotalWith DEF Spent
<1>11. \A u \in Users \ {c} : Spent(u)' = Spent(u)
  BY <1>5 DEF Spent
<1>12. ASSUME NEW u \in Users
       PROVE  balance'[u] + Spent(u)' = Balance0[u] + Charged(u)'
  <2>1. /\ balance[u] \in Int /\ Price[r] \in Int /\ Price[r] = Amount[o]
        /\ Spent(u) \in Int /\ Charged(u) \in Int
    BY <1>8, AccountTypes, AccountsFinite DEF TypeOK
  <2>2. balance[u] + Spent(u) = Balance0[u] + Charged(u)
    BY DEF Accounted, MoneyAccounted
  <2>3. CASE u = c
    <3>1. balance'[u] = balance[u] - Price[r]
      BY <1>1, <1>2, <2>1, <2>3 DEF TypeOK
    <3> QED BY <1>7, <1>10, <2>1, <2>2, <2>3, <3>1
  <2>4. CASE u # c
    <3>1. balance'[u] = balance[u]
      BY <1>1, <1>2, <2>4 DEF TypeOK
    <3> QED BY <1>7, <1>11, <2>2, <2>4, <3>1
  <2> QED BY <2>3, <2>4
<1> QED BY <1>9, <1>12 DEF StockAccounted, MoneyAccounted

\* A cancellation takes them back: its order is that of the payment.
LEMMA CancelAccounts ==
    ASSUME TypeOK, Accounted, NEW r \in Requests, Ledger!Serve(r), Ledger!Cancel(r)
    PROVE  StockAccounted' /\ MoneyAccounted'
<1> DEFINE o == OrderOf[r]
           c == Caller[r]
           p == PaymentOf[r]
<1>1. /\ Served' = Served \cup {r}
      /\ Kind[r] = "cancel" /\ c \in Users /\ p \in Requests
      /\ OrderOf[p] = o /\ Caller[p] = c
  BY ConstantTypes, PaymentAssumption DEF Ledger!Serve, Ledger!Cancel, Served
<1>2. /\ stock' = [v \in Variants |-> stock[v] + Qty[o][v]]
      /\ balance' = [balance EXCEPT ![c] = balance[c] + Amount[o]]
      /\ payStatus' = [payStatus EXCEPT ![p] = "CANCELLED"]
      /\ payStatus[p] = "COMPLETED"
  BY DEF Ledger!Cancel, Ledger!Credit, Ledger!Book
<1>3. p \in Completed
  BY <1>1, <1>2 DEF Completed
<1>4. Completed' = Completed \ {p}
  BY <1>1, <1>2 DEF TypeOK, Completed
<1>5. /\ CompletedBy(c)' = CompletedBy(c) \ {p} /\ p \in CompletedBy(c)
      /\ \A u \in Users \ {c} : CompletedBy(u)' = CompletedBy(u)
      /\ \A u \in Users : CompletedBy(u) \subseteq Requests
  BY <1>1, <1>3, <1>4 DEF CompletedBy, Completed
<1>6. \A u \in Users : ChargesOf(u)' = ChargesOf(u)
  BY <1>1 DEF ChargesOf, Served
<1>7. \A u \in Users : Charged(u)' = Charged(u)
  BY <1>6 DEF Charged
<1>8. Answered
  BY DEF Accounted
<1>9. ASSUME NEW v \in Variants
      PROVE  stock'[v] + Sold(v)' = Stock0[v]
  <2>1. \A q \in Completed : Pieces(v)[q] \in Int
    BY AccountTypes DEF Completed
  <2>2. Sold(v)' = Sold(v) - Pieces(v)[p]
    BY <1>3, <1>4, <1>8, <2>1, AccountsFinite, TotalWithout DEF Sold
  <2>3. /\ stock'[v] = stock[v] + Pieces(v)[p]
        /\ stock[v] \in Int /\ Pieces(v)[p] \in Nat /\ Sold(v) \in Int
    BY <1>1, <1>2, <1>8, AccountTypes, AccountsFinite DEF TypeOK
  <2>4. stock[v] + Sold(v) = Stock0[v]
    BY DEF Accounted, StockAccounted
  <2> QED BY <2>2, <2>3, <2>4
<1>10. Spent(c)' = Spent(c) - Price[p]
  <2>1. \A q \in CompletedBy(c) : Price[q] \in Int
    BY <1>1, <1>5, AccountTypes
  <2> QED BY <1>1, <1>5, <1>8, <2>1, AccountsFinite, TotalWithout DEF Spent
<1>11. \A u \in Users \ {c} : Spent(u)' = Spent(u)
  BY <1>5 DEF Spent
<1>12. ASSUME NEW u \in Users
       PROVE  balance'[u] + Spent(u)' = Balance0[u] + Charged(u)'
  <2>1. /\ balance[u] \in Int /\ Price[p] \in Int /\ Price[p] = Amount[o]
        /\ Spent(u) \in Int /\ Charged(u) \in Int
    BY <1>1, <1>8, AccountTypes, AccountsFinite DEF TypeOK
  <2>2. balance[u] + Spent(u) = Balance0[u] + Charged(u)
    BY DEF Accounted, MoneyAccounted
  <2>3. CASE u = c
    <3>1. balance'[u] = balance[u] + Price[p]
      BY <1>1, <1>2, <2>1, <2>3 DEF TypeOK
    <3> QED BY <1>7, <1>10, <2>1, <2>2, <2>3, <3>1
  <2>4. CASE u # c
    <3>1. balance'[u] = balance[u]
      BY <1>1, <1>2, <2>4 DEF TypeOK
    <3> QED BY <1>7, <1>11, <2>2, <2>4, <3>1
  <2> QED BY <2>3, <2>4
<1> QED BY <1>9, <1>12 DEF StockAccounted, MoneyAccounted

\* A top-up is charged once, when it is answered.
LEMMA ChargeAccounts ==
    ASSUME TypeOK, Accounted, NEW r \in Requests, Ledger!Serve(r), Ledger!Charge(r)
    PROVE  StockAccounted' /\ MoneyAccounted'
<1> DEFINE c == Caller[r]
<1>1. /\ r \notin Served /\ Served' = Served \cup {r}
      /\ Kind[r] = "charge" /\ c \in Users /\ ChargeOf[r] \in Int
  BY ConstantTypes, AccountTypes DEF Ledger!Serve, Ledger!Charge, Served
<1>2. /\ balance' = [balance EXCEPT ![c] = balance[c] + ChargeOf[r]]
      /\ UNCHANGED <<stock, payStatus>>
  BY DEF Ledger!Charge, Ledger!Credit, Ledger!Book
<1>3. Completed' = Completed /\ \A u \in Users : CompletedBy(u)' = CompletedBy(u)
  BY <1>2 DEF Completed, CompletedBy
<1>4. /\ \A v \in Variants : Sold(v)' = Sold(v)
      /\ \A u \in Users : Spent(u)' = Spent(u)
  BY <1>3 DEF Sold, Spent
<1>5. /\ ChargesOf(c)' = ChargesOf(c) \cup {r} /\ r \notin ChargesOf(c)
      /\ \A u \in Users \ {c} : ChargesOf(u)' = ChargesOf(u)
      /\ \A u \in Users : ChargesOf(u) \subseteq Requests
  BY <1>1 DEF ChargesOf, Served
<1>6. Answered
  BY DEF Accounted
<1>7. Charged(c)' = Charged(c) + ChargeOf[r]
  <2>1. \A q \in ChargesOf(c) \cup {r} : ChargeOf[q] \in Int
    BY <1>1, <1>5, AccountTypes
  <2> QED BY <1>1, <1>5, <1>6, <2>1, AccountsFinite, TotalWith DEF Charged
<1>8. \A u \in Users \ {c} : Charged(u)' = Charged(u)
  BY <1>5 DEF Charged
<1>9. ASSUME NEW u \in Users
      PROVE  balance'[u] + Spent(u)' = Balance0[u] + Charged(u)'
  <2>1. /\ balance[u] \in Int /\ Balance0[u] \in Nat
        /\ Spent(u) \in Int /\ Charged(u) \in Int
    BY <1>6, AccountTypes, AccountsFinite DEF TypeOK
  <2>2. balance[u] + Spent(u) = Balance0[u] + Charged(u)
    BY DEF Accounted, MoneyAccounted
  <2>3. CASE u = c
    <3>1. balance'[u] = balance[u] + ChargeOf[r]
      BY <1>1, <1>2, <2>3 DEF TypeOK
    <3> QED BY <1>1, <1>4, <1>7, <2>1, <2>2, <2>3, <3>1
  <2>4. CASE u # c
    <3>1. balance'[u] = balance[u]
      BY <1>1, <1>2, <2>4 DEF TypeOK
    <3> QED BY <1>4, <1>8, <2>2, <2>4, <3>1
  <2> QED BY <2>3, <2>4
<1> QED BY <1>2, <1>4, <1>9 DEF Accounted, StockAccounted, MoneyAccounted

LEMMA AccountsStep ==
    ASSUME TypeOK, Accounted, [Ledger!LedgerNext]_Ledger!ledgerVars
    PROVE  Accounted'
<1>1. Answered'
  BY AnsweredStep DEF Accounted
<1>2. ASSUME NEW r \in Requests, Ledger!Serve(r)
      PROVE  StockAccounted' /\ MoneyAccounted'
  <2>1. CASE Ledger!Pay(r)
    BY <1>2, <2>1, PayAccounts
  <2>2. CASE Ledger!Cancel(r)
    BY <1>2, <2>2, CancelAccounts
  <2>3. CASE Ledger!Charge(r)
    BY <1>2, <2>3, ChargeAccounts
  <2>4. CASE Ledger!Patch(r)
    <3>1. /\ UNCHANGED <<stock, balance, payStatus>>
          /\ Served' = Served \cup {r} /\ Kind[r] = "patch"
      BY <1>2, <2>4 DEF Ledger!Serve, Ledger!Patch, Served
    <3>2. /\ Completed' = Completed
          /\ \A u \in Users : CompletedBy(u)' = CompletedBy(u) /\ ChargesOf(u)' = ChargesOf(u)
      BY <3>1 DEF Completed, CompletedBy, ChargesOf, Served
    <3> QED
      BY <3>1, <3>2
         DEF Accounted, StockAccounted, MoneyAccounted, Sold, Spent, Charged
  <2> QED BY <1>2, <2>1, <2>2, <2>3, <2>4 DEF Ledger!Serve
<1>3. CASE UNCHANGED Ledger!ledgerVars
  <2>1. UNCHANGED <<stock, balance, payStatus>> /\ Served' = Served
    BY <1>3 DEF Ledger!ledgerVars, Ledger!rows, Served
  <2>2. /\ Completed' = Completed
        /\ \A u \in Users : CompletedBy(u)' = CompletedBy(u) /\ ChargesOf(u)' = ChargesOf(u)
    BY <2>1 DEF Completed, CompletedBy, ChargesOf, Served
  <2> QED
    BY <1>1, <2>1, <2>2 DEF Accounted, StockAccounted, MoneyAccounted, Sold, Spent, Charged
<1> QED BY <1>1, <1>2, <1>3 DEF Accounted, Ledger!LedgerNext

LEMMA InitAccounts == Init => Accounted
<1> SUFFICES ASSUME Init
             PROVE  Accounted
  OBVIOUS
<1>1. Served = {} /\ Completed = {}
  BY DEF Init, Served, Completed
<1>2. \A u \in Users : CompletedBy(u) = {} /\ ChargesOf(u) = {}
  BY <1>1 DEF CompletedBy, ChargesOf, Served
<1>3. /\ \A v \in Variants : Sold(v) = 0
      /\ \A u \in Users : Spent(u) = 0 /\ Charged(u) = 0
  BY <1>1, <1>2, NoUnits DEF Sold, Spent, Charged
<1>4. Answered
  BY <1>1, FS_EmptySet DEF Init, Answered, OwnPayment
<1>5. StockAccounted /\ MoneyAccounted
  BY <1>3, AccountTypes DEF Init, StockAccounted, MoneyAccounted
<1> QED BY <1>4, <1>5 DEF Accounted

LEMMA AccountsHold == Spec => []Accounted
<1>1. LocksCover /\ Accounted /\ [Next]_vars => Accounted'
  <2> SUFFICES ASSUME LocksCover, Accounted, [Next]_vars
               PROVE  Accounted'
    OBVIOUS
  <2>1. [Ledger!LedgerNext]_Ledger!ledgerVars
    BY LedgerStep
  <2> QED BY <2>1, AccountsStep DEF LocksCover
<1> QED BY <1>1, InitAccounts, Covered, PTL DEF Spec

\* With any number of requests, any quantities, and whatever fails half way: the
\* stock of a variant and what was sold of it add up to the initial stock.
THEOREM NothingLost == Spec => []StockAccounted
<1>1. Accounted => StockAccounted
  BY DEF Accounted
<1> QED BY <1>1, AccountsHold, PTL

\* In the same way a user's balance and completed payments add up to the initial
\* balance and the top-ups: no top-up is lost, no payment or refund comes twice.
THEOREM NoMoneyLost == Spec => []MoneyAccounted
<1>1. Accounted => MoneyAccounted
  BY DEF Accounted
<1> QED BY <1>1, AccountsHold, PTL
=============================================================================
