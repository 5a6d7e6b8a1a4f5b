------------------------------ MODULE CartProofs ------------------------------
(***************************************************************************)
(* No row of a cart vanishes unannounced and none is removed twice, for    *)
(* any number of users, rows and requests.                                 *)
(***************************************************************************)
EXTENDS Cart, TLAPS

\* The inductive part.  A checkout has removals only for what it has read, and none
\* before it has.  Whoever is past its find names a row of its own user, and a row
\* that a removal was successful for is gone, by that removal alone.
RowsInv ==
    /\ GoneIsAnnounced
    /\ RemovedOnce
    /\ \A a, r \in Adds : task[<<a, r>>] # "idle" =>
           r \in basket[a] /\ checkout[a] \in {"announced", "over"}
    /\ \A t \in Tasks : task[t] \in {"write", "ok"} => UserOf[t[1]] = UserOf[t[2]]
    /\ \A r \in Adds : Removers(r) # {} => row[r] = "gone"
    /\ \A r \in Adds : pc[r] # "added" => row[r] = "none" /\ checkout[r] = "none"

CartInv == TypeOK /\ RowsInv

\* A task names a request and a row.
LEMMA TaskNames ==
    ASSUME NEW t \in Tasks
    PROVE  /\ t[1] \in Requests /\ t[2] \in Adds /\ t = <<t[1], t[2]>>
           /\ t[1] \in Adds \/ (t[1] \in Updates \cup Removals /\ t[2] = RowOf[t[1]])
BY CartAssumption DEF Tasks, Requests

LEMMA InvInit == Init => CartInv
<1> SUFFICES ASSUME Init PROVE CartInv
  OBVIOUS
<1>1. TypeOK
  BY CartAssumption DEF Init, TypeOK
<1>2. \A r \in Adds : Removers(r) = {}
  BY DEF Init, Removers
<1>3. GoneIsAnnounced /\ RemovedOnce
  BY <1>2 DEF Init, GoneIsAnnounced, RemovedOnce
<1>4. \A a, r \in Adds : task[<<a, r>>] = "idle"
  BY DEF Init, Tasks
<1> QED
  BY <1>1, <1>2, <1>3, <1>4 DEF Init, CartInv, RowsInv

\* Steps that leave rows, tasks and baskets alone.
LEMMA RowsStay ==
    ASSUME RowsInv, row' = row, basket' = basket, task' = task,
           \A a \in Adds : checkout[a] \in {"announced", "over"} =>
                               checkout'[a] \in {"announced", "over"},
           \A a \in Adds : pc'[a] # "added" => checkout'[a] = "none",
           \A r \in Adds : pc[r] = "added" => pc'[r] = "added"
    PROVE  RowsInv'
<1>1. \A r \in Adds : Removers(r)' = Removers(r)
  BY DEF Removers
<1>2. GoneIsAnnounced' /\ RemovedOnce'
  BY <1>1 DEF RowsInv, GoneIsAnnounced, RemovedOnce
<1> QED
  BY <1>1, <1>2 DEF RowsInv

LEMMA AddKeeps ==
    ASSUME CartInv, NEW a \in Adds, Post(a) \/ AddStep(a)
    PROVE  CartInv'
<1> USE CartAssumption DEF Goto
<1>1. CASE Post(a) \/ Hit(a) \/ Miss(a) \/ Fetch(a) \/ Fill(a) \/ RefuseRow(a)
  <2>1. TypeOK'
    BY <1>1 DEF CartInv, RowsInv, TypeOK, Post, Hit, Miss, Fetch, Fill, RefuseRow
  <2>2. row' = row /\ basket' = basket /\ task' = task /\ checkout' = checkout
    BY <1>1 DEF Post, Hit, Miss, Fetch, Fill, RefuseRow
  <2>3. \A r \in Adds : pc[r] = "added" => pc'[r] = "added"
    BY <1>1 DEF CartInv, RowsInv, TypeOK, Post, Hit, Miss, Fetch, Fill, RefuseRow
  <2>4. /\ \A c \in Adds : checkout[c] \in {"announced", "over"} => checkout'[c] \in {"announced", "over"}
        /\ \A c \in Adds : pc'[c] # "added" => checkout'[c] = "none"
    BY <2>2, <2>3 DEF CartInv, RowsInv
  <2> QED
    BY <2>1, <2>2, <2>3, <2>4, RowsStay DEF CartInv
<1>2. CASE AddRow(a)
  <2>1. TypeOK'
    BY <1>2 DEF CartInv, RowsInv, TypeOK, AddRow
  <2>2. \A r \in Adds : Removers(r)' = Removers(r)
    BY <1>2 DEF AddRow, Removers
  <2>3. /\ row[a] = "none" /\ checkout[a] = "none" /\ row' = [row EXCEPT ![a] = "in"]
        /\ UNCHANGED <<basket, task>> /\ pc' = [pc EXCEPT ![a] = "added"]
        /\ checkout' = [checkout EXCEPT ![a] = "asked"]
    BY <1>2 DEF CartInv, RowsInv, AddRow
  <2>4. Removers(a) = {}
    BY <2>3 DEF CartInv, RowsInv
  <2>5. GoneIsAnnounced' /\ RemovedOnce'
    BY <2>2, <2>3 DEF CartInv, RowsInv, TypeOK, GoneIsAnnounced, RemovedOnce
  <2> QED
    BY <2>1, <2>2, <2>3, <2>4, <2>5 DEF CartInv, RowsInv, TypeOK
<1> QED
  BY <1>1, <1>2 DEF AddStep

LEMMA ReadKeeps ==
    ASSUME CartInv, NEW a \in Adds, ReadCart(a)
    PROVE  CartInv'
<1> DEFINE items == InCart(UserOf[a])
<1>1. /\ checkout[a] = "asked" /\ items \subseteq Adds
      /\ checkout' = [checkout EXCEPT ![a] = "announced"]
      /\ basket' = [basket EXCEPT ![a] = items]
      /\ task' = [t \in Tasks |-> IF t \in {a} \X items THEN "find" ELSE task[t]]
      /\ UNCHANGED <<stock, cached, row, quantity, pc, seen>>
  BY DEF ReadCart, InCart, addVars
<1>2. \A r \in Adds : task[<<a, r>>] = "idle"
  BY <1>1 DEF CartInv, RowsInv
<1>3. \A t \in Tasks : task'[t] = task[t] \/ (task[t] = "idle" /\ task'[t] = "find")
  BY <1>1, <1>2
<1>4. TypeOK'
  BY <1>1 DEF CartInv, RowsInv, TypeOK
<1>5. \A r \in Adds : Removers(r)' = Removers(r)
  BY <1>3 DEF Removers
<1>6. \A c, r \in Adds : task'[<<c, r>>] # "idle" =>
          r \in basket'[c] /\ checkout'[c] \in {"announced", "over"}
  <2> SUFFICES ASSUME NEW c \in Adds, NEW r \in Adds, task'[<<c, r>>] # "idle"
               PROVE  r \in basket'[c] /\ checkout'[c] \in {"announced", "over"}
    OBVIOUS
  <2>1. <<c, r>> \in Tasks
    BY DEF Tasks
  <2>2. CASE c = a
    BY <1>1, <1>2, <2>1, <2>2 DEF CartInv, RowsInv, TypeOK
  <2>3. CASE c # a
    BY <1>1, <2>1, <2>3 DEF CartInv, RowsInv, TypeOK
  <2> QED
    BY <2>2, <2>3
<1>7. GoneIsAnnounced'
  <2>1. \A r \in Adds : \A t \in Removers(r) : t[1] # a
    <3> SUFFICES ASSUME NEW r \in Adds, NEW t \in Removers(r), t[1] = a PROVE FALSE
      OBVIOUS
    <3>1. t \in Tasks /\ t[2] = r /\ task[t] = "ok"
      BY DEF Removers
    <3>2. t = <<a, r>>
      BY <3>1, TaskNames
    <3> QED
      BY <1>2, <3>1, <3>2
  <2> QED
    BY <1>1, <1>5, <2>1 DEF CartInv, RowsInv, TypeOK, GoneIsAnnounced
<1>8. RemovedOnce'
  BY <1>5 DEF CartInv, RowsInv, RemovedOnce
<1> QED
  BY <1>1, <1>3, <1>4, <1>5, <1>6, <1>7, <1>8 DEF CartInv, RowsInv, TypeOK

\* What the steps of a task that neither adds nor removes a row keep.
LEMMA MarkKeeps ==
    ASSUME CartInv, NEW t \in Tasks, NEW state \in {"find", "write", "ok", "failed"},
           Mark(t, state), quantity' \in [Adds -> Nat],
           task[t] \in {"find", "write"} \/ t[1] \notin Adds,
           task[t] # "ok",
           state = "ok" => t[1] \in Updates,
           state \in {"write", "ok"} => UserOf[t[1]] = UserOf[t[2]],
           UNCHANGED <<stock, cached, row, addVars, checkout, basket>>
    PROVE  CartInv'
<1>1. /\ task \in [Tasks -> {"idle", "find", "write", "ok", "failed"}]
      /\ task' = [task EXCEPT ![t] = state]
      /\ UNCHANGED <<stock, cached, row, pc, seen, checkout, basket>>
  BY DEF CartInv, RowsInv, TypeOK, Mark, addVars
<1>2. TypeOK'
  BY <1>1 DEF CartInv, RowsInv, TypeOK
<1>3. \A r \in Adds : Removers(r)' = Removers(r)
  BY <1>1 DEF Removers
<1>4. GoneIsAnnounced' /\ RemovedOnce'
  BY <1>1, <1>3 DEF CartInv, RowsInv, GoneIsAnnounced, RemovedOnce
<1>5. \A a, r \in Adds : task'[<<a, r>>] # "idle" =>
          r \in basket'[a] /\ checkout'[a] \in {"announced", "over"}
  BY <1>1, TaskNames DEF CartInv, RowsInv, Tasks
<1> QED
  BY <1>1, <1>2, <1>3, <1>4, <1>5 DEF CartInv, RowsInv

LEMMA DeleteKeeps ==
    ASSUME CartInv, NEW t \in Tasks, Delete(t)
    PROVE  CartInv'
<1> DEFINE g == t[2]
<1>1. /\ t[1] \in Requests /\ g \in Adds /\ t = <<t[1], g>> /\ t[1] \notin Updates
      /\ task[t] = "write" /\ row[g] = "in"
      /\ row' = [row EXCEPT ![g] = "gone"] /\ task' = [task EXCEPT ![t] = "ok"]
      /\ UNCHANGED <<stock, cached, quantity, pc, seen, checkout, basket>>
  BY TaskNames DEF Delete, Mark, addVars
<1>2. TypeOK'
  BY <1>1 DEF CartInv, RowsInv, TypeOK
<1>3. Removers(g) = {}
  BY <1>1 DEF CartInv, RowsInv
<1>4. Removers(g)' = {t}
  BY <1>1, <1>3 DEF CartInv, RowsInv, TypeOK, Removers
<1>5. \A r \in Adds \ {g} : Removers(r)' = Removers(r)
  BY <1>1 DEF CartInv, RowsInv, TypeOK, Removers
<1>6. UserOf[t[1]] = UserOf[g] /\ (t[1] \in Adds => g \in basket[t[1]])
  BY <1>1 DEF CartInv, RowsInv
<1>7. GoneIsAnnounced'
  BY <1>1, <1>4, <1>5, <1>6 DEF CartInv, RowsInv, TypeOK, GoneIsAnnounced
<1>8. RemovedOnce'
  BY <1>4, <1>5 DEF CartInv, RowsInv, RemovedOnce
<1>9. \A r \in Adds : Removers(r)' # {} => row'[r] = "gone"
  BY <1>1, <1>5 DEF CartInv, RowsInv, TypeOK
<1>10. \A a, r \in Adds : task'[<<a, r>>] # "idle" =>
           r \in basket'[a] /\ checkout'[a] \in {"announced", "over"}
  BY <1>1 DEF CartInv, RowsInv, TypeOK, Tasks
<1>11. \A s \in Tasks : task'[s] \in {"write", "ok"} => UserOf[s[1]] = UserOf[s[2]]
  BY <1>1, <1>6 DEF CartInv, RowsInv, TypeOK
<1>12. \A r \in Adds : pc'[r] # "added" => row'[r] = "none" /\ checkout'[r] = "none"
  BY <1>1 DEF CartInv, RowsInv, TypeOK
<1> QED
  BY <1>2, <1>7, <1>8, <1>9, <1>10, <1>11, <1>12 DEF CartInv, RowsInv

LEMMA TaskKeeps ==
    ASSUME CartInv, NEW t \in Tasks, TaskStep(t)
    PROVE  CartInv'
<1> USE DEF CartInv, RowsInv, TypeOK
<1>1. CASE Find(t)
  <2>1. CASE row[t[2]] = "in" /\ UserOf[t[1]] = UserOf[t[2]]
    BY <1>1, <2>1, MarkKeeps DEF Find
  <2>2. CASE ~ (row[t[2]] = "in" /\ UserOf[t[1]] = UserOf[t[2]])
    BY <1>1, <2>2, MarkKeeps DEF Find
  <2> QED
    BY <2>1, <2>2
<1>2. CASE Update(t)
  <2>1. t[1] \in Updates /\ UserOf[t[1]] = UserOf[t[2]] /\ Quantity[t[1]] \in Nat
    BY <1>2, CartAssumption DEF Update
  <2>2. quantity' \in [Adds -> Nat]
    BY <1>2, <2>1 DEF Update
  <2> QED
    BY <1>2, <2>1, <2>2, MarkKeeps DEF Update
<1>3. CASE Delete(t)
  BY <1>3, DeleteKeeps
<1>4. CASE WriteFails(t)
  BY <1>4, MarkKeeps DEF WriteFails
<1> QED
  BY <1>1, <1>2, <1>3, <1>4 DEF TaskStep

LEMMA InvStep == CartInv /\ [Next]_vars => CartInv'
<1> SUFFICES ASSUME CartInv, [Next]_vars PROVE CartInv'
  OBVIOUS
<1>1. CASE UNCHANGED vars
  <2>1. /\ row' = row /\ basket' = basket /\ task' = task /\ checkout' = checkout /\ pc' = pc
        /\ stock' = stock /\ cached' = cached /\ quantity' = quantity /\ seen' = seen
    BY <1>1 DEF vars, addVars
  <2>2. TypeOK'
    BY <2>1 DEF CartInv, RowsInv, TypeOK
  <2>3. /\ \A c \in Adds : checkout[c] \in {"announced", "over"} => checkout'[c] \in {"announced", "over"}
        /\ \A c \in Adds : pc'[c] # "added" => checkout'[c] = "none"
        /\ \A c \in Adds : pc[c] = "added" => pc'[c] = "added"
    BY <2>1 DEF CartInv, RowsInv
  <2> QED
    BY <2>1, <2>2, <2>3, RowsStay DEF CartInv
<1>2. ASSUME NEW a \in Adds, Post(a) \/ AddStep(a)
      PROVE  CartInv'
  BY <1>2, AddKeeps
<1>3. ASSUME NEW a \in Adds, CheckoutStep(a)
      PROVE  CartInv'
  <2>1. CASE ReadCart(a)
    BY <2>1, ReadKeeps
  <2>2. CASE CartEmpty(a)
    <3>1. /\ row' = row /\ basket' = basket /\ task' = task /\ pc' = pc
          /\ checkout[a] # "none" /\ checkout' = [checkout EXCEPT ![a] = "over"]
      BY <2>2 DEF CartEmpty, addVars
    <3>2. TypeOK'
      BY <2>2 DEF CartInv, RowsInv, TypeOK, CartEmpty, addVars
    <3>3. pc[a] = "added" /\ checkout \in [Adds -> {"none", "asked", "announced", "over"}]
      BY <3>1 DEF CartInv, RowsInv, TypeOK
    <3>4. /\ \A c \in Adds : checkout[c] \in {"announced", "over"} => checkout'[c] \in {"announced", "over"}
          /\ \A c \in Adds : pc'[c] # "added" => checkout'[c] = "none"
          /\ \A c \in Adds : pc[c] = "added" => pc'[c] = "added"
      BY <3>1, <3>3 DEF CartInv, RowsInv
    <3> QED
      BY <3>1, <3>2, <3>4, RowsStay DEF CartInv
  <2>3. CASE HandleOrderCreated(a)
    <3>1. /\ row' = row /\ basket' = basket /\ task' = task /\ pc' = pc
          /\ checkout[a] # "none" /\ checkout' = [checkout EXCEPT ![a] = "over"]
      BY <2>3 DEF HandleOrderCreated, addVars
    <3>2. TypeOK'
      BY <2>3 DEF CartInv, RowsInv, TypeOK, HandleOrderCreated, addVars
    <3>3. pc[a] = "added" /\ checkout \in [Adds -> {"none", "asked", "announced", "over"}]
      BY <3>1 DEF CartInv, RowsInv, TypeOK
    <3>4. /\ \A c \in Adds : checkout[c] \in {"announced", "over"} => checkout'[c] \in {"announced", "over"}
          /\ \A c \in Adds : pc'[c] # "added" => checkout'[c] = "none"
          /\ \A c \in Adds : pc[c] = "added" => pc'[c] = "added"
      BY <3>1, <3>3 DEF CartInv, RowsInv
    <3> QED
      BY <3>1, <3>2, <3>4, RowsStay DEF CartInv
  <2> QED
    BY <1>3, <2>1, <2>2, <2>3 DEF CheckoutStep
<1>4. ASSUME NEW e \in Updates \cup Removals, Begin(e)
      PROVE  CartInv'
  <2>1. <<e, RowOf[e]>> \in Tasks /\ e \notin Adds /\ task[<<e, RowOf[e]>>] = "idle"
    BY <1>4, CartAssumption DEF Tasks, Begin
  <2> QED
    BY <1>4, <2>1, MarkKeeps DEF Begin, CartInv, TypeOK
<1>5. ASSUME NEW t \in Tasks, TaskStep(t)
      PROVE  CartInv'
  BY <1>5, TaskKeeps
<1>6. CASE StockMoves \/ CacheExpires
  <2>1. row' = row /\ basket' = basket /\ task' = task /\ checkout' = checkout /\ pc' = pc
    BY <1>6 DEF StockMoves, CacheExpires, addVars
  <2>2. TypeOK'
    BY <1>6 DEF CartInv, RowsInv, TypeOK, StockMoves, CacheExpires, addVars
  <2>3. /\ \A c \in Adds : checkout[c] \in {"announced", "over"} => checkout'[c] \in {"announced", "over"}
        /\ \A c \in Adds : pc'[c] # "added" => checkout'[c] = "none"
        /\ \A c \in Adds : pc[c] = "added" => pc'[c] = "added"
    BY <2>1 DEF CartInv, RowsInv
  <2> QED
    BY <2>1, <2>2, <2>3, RowsStay DEF CartInv
<1> QED
  BY <1>1, <1>2, <1>3, <1>4, <1>5, <1>6 DEF Next

THEOREM CartInvariant == Spec => []CartInv
BY InvInit, InvStep, PTL DEF Spec

\* cart.service.ts and cart.orchestrator.ts: a row leaves the cart only by a DELETE
\* of its user or by a checkout of his that has announced it.
THEOREM NoneVanishes == Spec => []GoneIsAnnounced
<1>1. CartInv => GoneIsAnnounced
  BY DEF CartInv, RowsInv
<1> QED
  BY <1>1, CartInvariant, PTL

\* Of all the removals of one row, by checkouts that have read the same cart and by
\* DELETEs, one succeeds.
THEOREM NoneRemovedTwice == Spec => []RemovedOnce
<1>1. CartInv => RemovedOnce
  BY DEF CartInv, RowsInv
<1> QED
  BY <1>1, CartInvariant, PTL
=============================================================================
