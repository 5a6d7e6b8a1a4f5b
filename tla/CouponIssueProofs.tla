-------------------------- MODULE CouponIssueProofs --------------------------
(***************************************************************************)
(* Proofs about CouponIssue, for any number of users, calls and jobs,      *)
(* any quantity and batch size, and any sets of faults.                    *)
(***************************************************************************)
EXTENDS CouponIssue, FiniteSetTheorems, SequenceTheorems, TLAPS

-----------------------------------------------------------------------------
(* Types *)

LEMMA ConstantTypes ==
    /\ \A c \in Calls : CallerOf[c] \in Users
    /\ Queued \subseteq Users
    /\ IsFiniteSet(Users)
    /\ Quantity \in Nat /\ BatchSize \in Nat
BY CouponAssumption

\* No step, or the end of the campaign: what is said here does not depend on it.
Idle ==
    /\ UNCHANGED <<faults, pc, seen, outcome, lock, stock, owned, issued, queue, asked,
                   jpc, jseen, batch, inserted, taken, row>>
    /\ over' = over \/ over' = TRUE

\* What ZPOPMIN takes and what it leaves are parts of the queue.
LEMMA Popped ==
    ASSUME NEW S, NEW s \in Seq(S), NEW n \in Nat, n <= Len(s)
    PROVE  /\ SubSeq(s, 1, n) \in Seq(S) /\ Len(SubSeq(s, 1, n)) = n
           /\ SubSeq(s, n + 1, Len(s)) \in Seq(S)
<1>1. Len(s) \in Nat /\ \A i \in 1 .. Len(s) : s[i] \in S
  BY LenProperties, ElementOfSeq
<1>2. SubSeq(s, 1, n) \in Seq(S) /\ Len(SubSeq(s, 1, n)) = IF 1 <= n THEN n - 1 + 1 ELSE 0
  BY <1>1, SubSeqProperties
<1>3. SubSeq(s, n + 1, Len(s)) \in Seq(S)
  BY <1>1, SubSeqProperties
<1> QED BY <1>2, <1>3

\* What one turn of the loop can do for the user u.
Skip == UNCHANGED <<inserted, issued, taken>>
Serve(j, u) ==
    /\ u \notin owned /\ u \notin inserted[j]
    /\ inserted' = [inserted EXCEPT ![j] = @ \cup {u}]
    /\ \/ issued' = issued \cup {u} /\ taken' = [taken EXCEPT ![j] = @ + 1]
       \/ /\ "mark" \in faults
          /\ issued' \in {issued, issued \cup {u}}
          /\ UNCHANGED taken

LEMMA TurnOfTheLoop ==
    ASSUME TypeOK, NEW j \in Jobs, ServeNext(j)
    PROVE  /\ jpc[j] = "batch" /\ row \in {None, j} /\ row' = j
           /\ batch[j] # <<>> /\ batch' = [batch EXCEPT ![j] = Tail(@)]
           /\ Skip \/ \E u \in Users : Serve(j, u)
           /\ UNCHANGED <<callVars, lock, stock, owned, queue, asked, jpc, jseen>>
<1> DEFINE u == Head(batch[j])
<1>1. u \in Users
  BY HeadTailProperties DEF ServeNext, TypeOK
<1>2. Skip \/ Serve(j, u)
  BY DEF ServeNext, Skip, Serve, Existing, WithMark
<1> HIDE DEF u
<1>3. Skip \/ \E x \in Users : Serve(j, x)
  BY <1>1, <1>2
<1> QED BY <1>3 DEF ServeNext, LockRow

\* A job pops something: it has seen a stock above zero.
PopsSome == \A j \in Jobs : jpc[j] = "pop" => jseen[j] > 0
Typed == TypeOK /\ PopsSome

LEMMA AlwaysTyped == Spec => []Typed
<1>1. Init => Typed
  <2> SUFFICES ASSUME Init PROVE Typed
    OBVIOUS
  <2>1. over \in BOOLEAN
    BY DEF Init
  <2>2. queue \in Seq(Users) /\ batch \in [Jobs -> Seq(Users)]
    BY EmptySeq DEF Init
  <2>3. /\ pc \in [Calls -> {"idle"}] /\ outcome \in [Calls -> {"none"}]
        /\ jpc \in [Jobs -> {"start"}] /\ inserted \in [Jobs -> {{}}]
    BY DEF Init
  <2> QED BY CouponAssumption, <2>1, <2>2, <2>3 DEF Init, Typed, TypeOK, PopsSome
<1>2. Typed /\ [Next]_vars => Typed'
  <2> SUFFICES ASSUME Typed, [Next]_vars PROVE Typed'
    OBVIOUS
  <2> USE ConstantTypes DEF Typed, TypeOK, PopsSome, callVars, jobVars
  <2>1. ASSUME NEW c \in Calls, TakeLock(c) \/ RefuseLock(c) PROVE Typed'
    <3>1. CASE TakeLock(c)
      BY <3>1 DEF TakeLock, Goto
    <3>2. CASE RefuseLock(c)
      BY <3>2 DEF RefuseLock, Goto
    <3> QED BY <2>1, <3>1, <3>2
  <2>2. ASSUME NEW c \in Calls, Load(c) \/ CheckIssued(c) \/ CheckCount(c) PROVE Typed'
    BY <2>2 DEF Load, CheckIssued, CheckCount, Fail, Goto
  <2>3. ASSUME NEW c \in Calls, Issue(c) \/ Mark(c) PROVE Typed'
    <3>1. owned' \subseteq Users /\ issued' \subseteq Users
      BY <2>3 DEF Issue, Mark, WithCoupon, WithMark, Fail, Goto
    <3>2. \E label \in {"mark", "unlock"} : pc' = [pc EXCEPT ![c] = label]
      BY <2>3 DEF Issue, Mark, Fail, Goto
    <3>3. \/ outcome' = outcome
          \/ \E why \in {"ok", "issued", "error"} : outcome' = [outcome EXCEPT ![c] = why]
      BY <2>3 DEF Issue, Mark, Fail
    <3>4. UNCHANGED <<seen, lock, stock, queue, asked, jobVars>>
      BY <2>3 DEF Issue, Mark
    <3> QED BY <3>1, <3>2, <3>3, <3>4
  <2>4. ASSUME NEW c \in Calls, Unlock(c) \/ Crash(c) PROVE Typed'
    BY <2>4 DEF Unlock, Crash, Goto
  <2>5. ASSUME NEW j \in Jobs, Poll(j) \/ TickAgain(j) PROVE Typed'
    <3>1. CASE Poll(j)
      BY <3>1 DEF Poll, Found, JGoto
    <3>2. CASE TickAgain(j)
      BY <3>2 DEF TickAgain, JGoto
    <3> QED BY <2>5, <3>1, <3>2
  <2>6. ASSUME NEW j \in Jobs, Pop(j) PROVE Typed'
    <3> DEFINE n == IF PopSize(j) < Len(queue) THEN PopSize(j) ELSE Len(queue)
    <3>1. n \in Nat /\ n <= Len(queue)
      BY <2>6, LenProperties DEF Pop, PopSize
    <3>2. SubSeq(queue, 1, n) \in Seq(Users) /\ SubSeq(queue, n + 1, Len(queue)) \in Seq(Users)
      <4> HIDE DEF n
      <4> QED BY <3>1, Popped
    <3> QED BY <2>6, <3>2 DEF Pop, RestOfQueue, JGoto
  <2>7. ASSUME NEW j \in Jobs, ServeNext(j) PROVE Typed'
    <3>1. Tail(batch[j]) \in Seq(Users)
      BY <2>7, HeadTailProperties, TurnOfTheLoop
    <3>2. batch' \in [Jobs -> Seq(Users)] /\ row' \in Jobs \cup {None}
      BY <2>7, <3>1, TurnOfTheLoop
    <3>3. CASE Skip
      BY <2>7, <3>2, <3>3, TurnOfTheLoop DEF Skip
    <3>4. ASSUME NEW u \in Users, Serve(j, u) PROVE Typed'
      <4>1. inserted' \in [Jobs -> SUBSET Users]
        BY <3>4 DEF Serve
      <4>2. taken' \in [Jobs -> Nat] /\ issued' \subseteq Users
        <5>1. CASE UNCHANGED <<issued, taken>>
          BY <5>1
        <5>2. CASE issued' = issued \cup {u} /\ taken' = [taken EXCEPT ![j] = @ + 1]
          <6>1. taken[j] + 1 \in Nat
            OBVIOUS
          <6> QED BY <5>2, <6>1
        <5> QED BY <3>4, <5>1, <5>2 DEF Serve
      <4> QED BY <2>7, <3>2, <4>1, <4>2, TurnOfTheLoop
    <3> QED BY <2>7, <3>3, <3>4, TurnOfTheLoop
  <2>8. ASSUME NEW j \in Jobs, CommitBatch(j) PROVE Typed'
    BY <2>8 DEF CommitBatch, EndBatch, JGoto, WithCoupon, StockAfter
  <2>9. ASSUME NEW j \in Jobs, AbortBatch(j) PROVE Typed'
    <3>1. \E label \in {"done", "crashed"} : EndBatch(j, label)
      BY <2>9 DEF AbortBatch
    <3>2. batch' \in [Jobs -> Seq(Users)]
      BY <2>9, EmptySeq DEF AbortBatch
    <3> QED BY <2>9, <3>1, <3>2 DEF AbortBatch, EndBatch, JGoto
  <2>10. ASSUME NEW u \in Users, Post(u) \/ Enqueue(u) PROVE Typed'
    <3>1. CASE Post(u)
      BY <3>1 DEF Post
    <3>2. CASE Enqueue(u)
      BY <3>2 DEF Enqueue
    <3> QED BY <2>10, <3>1, <3>2
  <2>11. CASE LeaseExpires
    BY <2>11 DEF LeaseExpires
  <2>12. CASE Idle
    BY <2>12 DEF Idle
  <2> QED BY <2>1, <2>2, <2>3, <2>4, <2>5, <2>6, <2>7, <2>8, <2>9, <2>10, <2>11, <2>12
          DEF Next, CallStep, JobStep, Finished, End, Idle, vars
<1> QED BY <1>1, <1>2, PTL DEF Spec

\* Every variable keeps its type, whatever goes wrong.
THEOREM TypeCorrect == Spec => []TypeOK
<1>1. Typed => TypeOK
  BY DEF Typed
<1> QED BY <1>1, AlwaysTyped, PTL

-----------------------------------------------------------------------------
(* The inductive invariants *)

\* What the rows of an open batch are, and who may have one open.
BatchRules ==
    \A j \in Jobs :
        /\ jpc[j] # "batch" => batch[j] = <<>> /\ row # j
        /\ row # j => inserted[j] = {} /\ taken[j] = 0
        /\ inserted[j] \cap owned = {}
        /\ taken[j] <= Cardinality(inserted[j])
        /\ NoFault({"mark"}) => /\ taken[j] = Cardinality(inserted[j])
                                /\ inserted[j] \subseteq issued

\* A call has issued the coupon of its user.
Issuer(c) == pc[c] = "mark" \/ outcome[c] = "ok"

CallRules ==
    /\ \A c \in Calls :
          /\ outcome[c] = "lock" => pc[c] = "done"
          /\ outcome[c] = "ok" => pc[c] \in {"unlock", "done", "crashed"}
          /\ Issuer(c) => CallerOf[c] \in owned
    /\ \A c, d \in Calls : Issuer(c) /\ Issuer(d) /\ CallerOf[c] = CallerOf[d] => c = d

\* Calls alone leave the queue and the stock as they were, and mark what they
\* have issued.
CallsAlone ==
    OnlyCalls =>
        /\ queue = <<>> /\ stock = Quantity /\ issued \subseteq owned
        /\ \A j \in Jobs : batch[j] = <<>> /\ inserted[j] = {} /\ taken[j] = 0
        /\ \A c \in Calls : pc[c] \in {"known", "count"} => seen[c] = Quantity

\* Without early ends of a lease, the key's holder is alone in its section, and
\* counts the coupons that are out.
Section == {"load", "known", "count", "insert", "mark", "unlock"}

CallsInTurn ==
    NoFault({"lease", "mark", "crash"}) =>
        /\ \A c \in Calls : pc[c] \in Section => lock = c
        /\ OnlyCalls => \A c \in Calls : pc[c] = "insert" => Cardinality(issued) < Quantity

\* A job on its own never holds more requests than there are coupons.
JobAlone ==
    OnlyJobs /\ OneJob /\ NoFault({"mark"}) =>
        /\ Cardinality(owned) <= Quantity
        /\ \A j \in Jobs :
              /\ jpc[j] = "pop" => jseen[j] <= Quantity - Cardinality(owned)
              /\ jpc[j] = "batch" =>
                    Cardinality(owned) + Cardinality(inserted[j]) + Len(batch[j]) <= Quantity

-----------------------------------------------------------------------------
(* Steps, by what they leave alone *)

LEMMA Sizes ==
    ASSUME NEW S \in SUBSET Users
    PROVE  IsFiniteSet(S) /\ Cardinality(S) \in Nat
BY ConstantTypes, FS_Subset, FS_CardinalityType

LEMMA GrownByOne ==
    ASSUME NEW S \in SUBSET Users, NEW u \in Users, u \notin S
    PROVE  Cardinality(S \cup {u}) = Cardinality(S) + 1
BY Sizes, FS_AddElement

\* A step of the calls: all but Issue and Mark write neither coupons nor marks.
Elsewhere == UNCHANGED <<stock, queue, jpc, jseen, batch, inserted, taken, row>>

LEMMA CallFrame ==
    ASSUME \/ \E c \in Calls : CallStep(c) \/ Crash(c)
           \/ \E u \in Users : Post(u)
           \/ LeaseExpires
    PROVE  /\ Elsewhere /\ UNCHANGED <<faults, asked>>
           /\ owned' = owned \/ \E c \in Calls : Issue(c) /\ owned' = owned \cup {CallerOf[c]}
           /\ issued' = issued \/ \E c \in Calls : Mark(c) /\ issued' = issued \cup {CallerOf[c]}
BY DEF CallStep, Crash, Post, LeaseExpires, TakeLock, RefuseLock, Load, CheckIssued,
       CheckCount, Issue, Mark, Unlock, WithCoupon, WithMark, Elsewhere, jobVars, callVars

\* A step of the queue and the jobs leaves the calls alone.
LEMMA JobFrame ==
    ASSUME \/ \E j \in Jobs : JobStep(j) \/ AbortBatch(j)
           \/ \E u \in Users : Enqueue(u)
    PROVE  UNCHANGED <<faults, pc, seen, outcome, lock>>
BY DEF JobStep, AbortBatch, Enqueue, Poll, Pop, ServeNext, CommitBatch, TickAgain, callVars

LEMMA Steps ==
    ASSUME [Next]_vars
    PROVE  \/ (\E c \in Calls : CallStep(c) \/ Crash(c)) \/ (\E u \in Users : Post(u)) \/ LeaseExpires
           \/ (\E j \in Jobs : JobStep(j) \/ AbortBatch(j)) \/ (\E u \in Users : Enqueue(u))
           \/ Idle
BY DEF Next, Finished, End, Idle, vars, callVars, jobVars

-----------------------------------------------------------------------------
(* Open batches *)

LEMMA CommittedBatch ==
    ASSUME Typed, BatchRules, NEW j \in Jobs, CommitBatch(j)
    PROVE  /\ row = j \/ (inserted[j] = {} /\ taken[j] = 0)
           /\ \A k \in Jobs : k # j => inserted[k] = {} \/ inserted[j] = {}
           /\ owned' = owned \cup inserted[j] /\ stock' = stock - taken[j]
           /\ Cardinality(owned') = Cardinality(owned) + Cardinality(inserted[j])
<1>1. owned \in SUBSET Users /\ inserted[j] \in SUBSET Users
  BY DEF Typed, TypeOK
<1>2. owned \cap inserted[j] = {}
  BY DEF BatchRules
<1>3. Cardinality(owned \cap inserted[j]) = 0
  BY <1>2, FS_EmptySet
<1>4. Cardinality(owned \cup inserted[j]) =
        Cardinality(owned) + Cardinality(inserted[j]) - Cardinality(owned \cap inserted[j])
  BY <1>1, Sizes, FS_Union
<1>5. Cardinality(owned \cup inserted[j]) = Cardinality(owned) + Cardinality(inserted[j])
  BY <1>1, <1>3, <1>4, Sizes
<1>6. row = j \/ (inserted[j] = {} /\ taken[j] = 0)
  BY DEF BatchRules
<1>7. \A k \in Jobs : k # j => inserted[k] = {} \/ inserted[j] = {}
  BY <1>6 DEF BatchRules
<1> QED BY <1>5, <1>6, <1>7 DEF CommitBatch, WithCoupon, StockAfter

LEMMA BatchRulesHold == Spec => []BatchRules
<1>1. Init => BatchRules
  BY FS_EmptySet, CouponAssumption DEF Init, BatchRules
<1>2. Typed /\ BatchRules /\ [Next]_vars => BatchRules'
  <2> SUFFICES ASSUME Typed, BatchRules, [Next]_vars PROVE BatchRules'
    OBVIOUS
  <2> USE DEF NoFault
  <2>1. ASSUME Elsewhere, faults' = faults, issued \subseteq issued',
               \A j \in Jobs : inserted[j] \cap owned' = {}
        PROVE  BatchRules'
    BY <2>1 DEF BatchRules, Elsewhere
  <2>2. CASE \/ (\E c \in Calls : CallStep(c) \/ Crash(c))
             \/ (\E u \in Users : Post(u)) \/ LeaseExpires
    <3>1. \A j \in Jobs : inserted[j] \cap owned' = {}
      BY <2>2, CallFrame DEF BatchRules, Issue
    <3> QED BY <2>1, <2>2, <3>1, CallFrame
  <2>3. ASSUME NEW j \in Jobs, Poll(j) \/ TickAgain(j) PROVE BatchRules'
    BY <2>3 DEF BatchRules, Poll, TickAgain, JGoto, Typed, TypeOK, callVars
  <2>4. ASSUME NEW j \in Jobs, Pop(j) PROVE BatchRules'
    <3> DEFINE n == IF PopSize(j) < Len(queue) THEN PopSize(j) ELSE Len(queue)
    <3>1. /\ batch' = [batch EXCEPT ![j] = SubSeq(queue, 1, n)]
          /\ jpc' = [jpc EXCEPT ![j] = IF n = 0 THEN "done" ELSE "batch"]
          /\ jpc[j] = "pop"
          /\ UNCHANGED <<faults, owned, issued, inserted, taken, row>>
      BY <2>4 DEF Pop, JGoto, callVars
    <3>2. n = 0 => SubSeq(queue, 1, n) = <<>>
      BY SubSeqEmpty
    <3> HIDE DEF n
    <3> QED BY <3>1, <3>2 DEF BatchRules, Typed, TypeOK
  <2>5. ASSUME NEW j \in Jobs, ServeNext(j) PROVE BatchRules'
    <3>1. CASE Skip
      BY <2>5, <3>1, TurnOfTheLoop, CouponAssumption DEF BatchRules, Skip, Typed, TypeOK, callVars
    <3>2. ASSUME NEW u \in Users, Serve(j, u) PROVE BatchRules'
      <4>1. Cardinality(inserted[j] \cup {u}) = Cardinality(inserted[j]) + 1
        BY <3>2, GrownByOne DEF Serve, Typed, TypeOK
      <4>2. Cardinality(inserted[j]) \in Nat /\ taken[j] \in Nat
        BY Sizes DEF Typed, TypeOK
      <4>3. /\ jpc[j] = "batch" /\ row \in {None, j} /\ row' = j
            /\ batch' = [batch EXCEPT ![j] = Tail(@)]
            /\ UNCHANGED <<faults, owned, jpc>>
        BY <2>5, TurnOfTheLoop DEF Typed, callVars
      <4>4. u \notin owned /\ inserted' = [inserted EXCEPT ![j] = @ \cup {u}]
        BY <3>2 DEF Serve
      <4>5. CASE issued' = issued \cup {u} /\ taken' = [taken EXCEPT ![j] = @ + 1]
        BY <4>1, <4>2, <4>3, <4>4, <4>5, CouponAssumption
           DEF BatchRules, Typed, TypeOK, NoFault
      <4>6. CASE "mark" \in faults /\ taken' = taken
        <5>1. ~NoFault({"mark"})' /\ ~NoFault({"mark"})
          BY <4>3, <4>6 DEF NoFault
        <5> QED BY <4>1, <4>2, <4>3, <4>4, <4>6, <5>1, CouponAssumption
                DEF BatchRules, Typed, TypeOK
      <4> QED BY <3>2, <4>5, <4>6 DEF Serve
    <3> QED BY <2>5, <3>1, <3>2, TurnOfTheLoop DEF Typed
  <2>6. ASSUME NEW j \in Jobs, CommitBatch(j) \/ AbortBatch(j) PROVE BatchRules'
    <3>1. /\ \E label \in {"done", "crashed"} : jpc' = [jpc EXCEPT ![j] = label]
          /\ inserted' = [inserted EXCEPT ![j] = {}]
          /\ taken' = [taken EXCEPT ![j] = 0]
          /\ row' = IF row = j THEN None ELSE row
          /\ batch' = [batch EXCEPT ![j] = <<>>]
          /\ UNCHANGED <<faults, issued>>
      BY <2>6 DEF CommitBatch, AbortBatch, EndBatch, JGoto, callVars, Typed, TypeOK
    <3>2. \A k \in Jobs : k # j => inserted[k] \cap owned' = {}
      BY <2>6, CommittedBatch DEF BatchRules, AbortBatch
    <3>3. Cardinality({}) = 0 /\ None \notin Jobs
      BY FS_EmptySet, CouponAssumption
    <3> QED BY <3>1, <3>2, <3>3 DEF BatchRules, Typed, TypeOK
  <2>7. ASSUME NEW u \in Users, Enqueue(u) PROVE BatchRules'
    BY <2>7 DEF BatchRules, Enqueue, callVars, jobVars
  <2>8. CASE Idle
    BY <2>8 DEF BatchRules, Idle, callVars, jobVars
  <2> QED BY <2>2, <2>3, <2>4, <2>5, <2>6, <2>7, <2>8, Steps DEF JobStep
<1> QED BY <1>1, <1>2, AlwaysTyped, PTL DEF Spec

-----------------------------------------------------------------------------
(* The calls and the users they issue to *)

\* One section label after another; what a call has been told stays.
LEMMA CallRulesHold == Spec => []CallRules
<1>1. Init => CallRules
  BY DEF Init, CallRules, Issuer
<1>2. Typed /\ CallRules /\ [Next]_vars => CallRules'
  <2> SUFFICES ASSUME Typed, CallRules, [Next]_vars PROVE CallRules'
    OBVIOUS
  <2> USE DEF CallRules, Issuer
  <2>0. ASSUME NEW c \in Calls, pc[c] \notin {"unlock", "done", "crashed"},
               NEW label, label # "mark", pc' = [pc EXCEPT ![c] = label],
               owned' = owned,
               \/ outcome' = outcome
               \/ \E why : why \notin {"ok", "lock"} /\ outcome' = [outcome EXCEPT ![c] = why]
        PROVE  CallRules'
    <3>1. outcome[c] \notin {"ok", "lock"}
      BY <2>0
    <3>2. outcome'[c] \notin {"ok", "lock"} /\ \A d \in Calls : d # c => outcome'[d] = outcome[d]
      BY <2>0, <3>1 DEF Typed, TypeOK
    <3>3. pc'[c] # "mark" /\ \A d \in Calls : d # c => pc'[d] = pc[d]
      BY <2>0 DEF Typed, TypeOK
    <3> QED BY <2>0, <3>2, <3>3
  <2>1. ASSUME NEW c \in Calls, TakeLock(c) \/ Load(c) \/ CheckIssued(c) \/ CheckCount(c)
        PROVE  CallRules'
    <3>1. pc[c] \notin {"unlock", "done", "crashed"} /\ owned' = owned
      BY <2>1 DEF TakeLock, Load, CheckIssued, CheckCount
    <3>2. PICK label \in {"load", "known", "count", "insert", "unlock"} :
             pc' = [pc EXCEPT ![c] = label]
      BY <2>1 DEF TakeLock, Load, CheckIssued, CheckCount, Fail, Goto
    <3>3. \/ outcome' = outcome
          \/ \E why \in {"refused", "issued", "empty"} : outcome' = [outcome EXCEPT ![c] = why]
      BY <2>1 DEF TakeLock, Load, CheckIssued, CheckCount, Fail
    <3>4. CASE outcome' = outcome
      BY <2>0, <3>1, <3>2, <3>4
    <3>5. ASSUME NEW why \in {"refused", "issued", "empty"},
                 outcome' = [outcome EXCEPT ![c] = why]
          PROVE  CallRules'
      BY <2>0, <3>1, <3>2, <3>5
    <3> QED BY <3>3, <3>4, <3>5
  <2>2. ASSUME NEW c \in Calls, RefuseLock(c) PROVE CallRules'
    BY <2>2 DEF RefuseLock, Goto, Typed, TypeOK
  <2>3. ASSUME NEW c \in Calls, Issue(c) PROVE CallRules'
    <3>1. CASE CallerOf[c] \in owned
      <4>1. PICK why \in {"issued", "error"} : Fail(c, why)
        BY <2>3, <3>1 DEF Issue, RefusedTwice, Existing
      <4>2. owned' = owned /\ pc[c] = "insert"
        BY <2>3, <3>1 DEF Issue, RefusedTwice, Existing
      <4> QED BY <2>0, <4>1, <4>2 DEF Fail, Goto
    <3>2. CASE CallerOf[c] \notin owned
      <4>1. /\ pc' = [pc EXCEPT ![c] = "mark"] /\ pc[c] = "insert"
            /\ owned' = owned \cup {CallerOf[c]} /\ outcome' = outcome
        BY <2>3, <3>2 DEF Issue, RefusedTwice, Existing, WithCoupon, Goto
      <4>2. pc'[c] = "mark" /\ \A d \in Calls : d # c => pc'[d] = pc[d]
        BY <4>1 DEF Typed, TypeOK
      <4> QED BY <3>2, <4>1, <4>2
    <3> QED BY <3>1, <3>2
  <2>4. ASSUME NEW c \in Calls, Mark(c) PROVE CallRules'
    <3>1. pc[c] = "mark" /\ owned' = owned
      BY <2>4 DEF Mark
    <3>2. CASE Fail(c, "ok")
      <4>1. /\ \A d \in Calls : d # c => outcome'[d] = outcome[d] /\ pc'[d] = pc[d]
            /\ outcome'[c] = "ok" /\ pc'[c] = "unlock"
        BY <3>2 DEF Fail, Goto, Typed, TypeOK
      <4> QED BY <3>1, <4>1
    <3>3. CASE Fail(c, "error")
      BY <2>0, <3>1, <3>3 DEF Fail, Goto
    <3> QED BY <2>4, <3>2, <3>3 DEF Mark
  <2>5. ASSUME NEW c \in Calls, Unlock(c) \/ Crash(c) PROVE CallRules'
    <3>1. /\ pc[c] \notin {"done", "crashed"} /\ UNCHANGED <<outcome, owned>>
          /\ outcome[c] = "ok" => pc[c] = "unlock"
      BY <2>5 DEF Unlock, Crash
    <3>2. PICK label \in {"done", "crashed"} : pc' = [pc EXCEPT ![c] = label]
      BY <2>5 DEF Unlock, Crash, Goto
    <3>3. pc'[c] = label /\ \A d \in Calls : d # c => pc'[d] = pc[d]
      BY <3>2 DEF Typed, TypeOK
    <3> QED BY <3>1, <3>2, <3>3
  <2>6. ASSUME NEW u \in Users, Post(u) PROVE CallRules'
    BY <2>6 DEF Post, Typed, TypeOK
  <2>7. ASSUME UNCHANGED <<pc, outcome>>, owned \subseteq owned' PROVE CallRules'
    BY <2>7
  <2>8. ASSUME (\E j \in Jobs : JobStep(j) \/ AbortBatch(j)) \/ (\E u \in Users : Enqueue(u))
        PROVE  CallRules'
    <3>1. owned \subseteq owned'
      BY <2>8 DEF JobStep, AbortBatch, Enqueue, Poll, Pop, ServeNext, CommitBatch,
                  TickAgain, WithCoupon
    <3> QED BY <2>7, <2>8, <3>1, JobFrame
  <2>9. CASE LeaseExpires
    BY <2>7, <2>9 DEF LeaseExpires, callVars
  <2>10. CASE Idle
    BY <2>7, <2>10 DEF Idle, callVars
  <2> QED BY <2>1, <2>2, <2>3, <2>4, <2>5, <2>6, <2>8, <2>9, <2>10, Steps DEF CallStep
<1> QED BY <1>1, <1>2, AlwaysTyped, PTL DEF Spec

\* A user is told of a success once, however often the request is repeated.
OneSuccessPerUser ==
    \A c, d \in Calls :
        outcome[c] = "ok" /\ outcome[d] = "ok" /\ CallerOf[c] = CallerOf[d] => c = d

\* One success per user, whatever leases, marks and instances do.
THEOREM SucceedsOnce == Spec => []OneSuccessPerUser
<1>1. CallRules => OneSuccessPerUser
  BY DEF CallRules, Issuer, OneSuccessPerUser
<1> QED BY <1>1, CallRulesHold, PTL

-----------------------------------------------------------------------------
(* Marks and rows *)

\* The Redis set and the table agree but for aborted batches, failed marks and
\* crashes.
THEOREM MarksAgree == Spec => []MarksMatchRows
<1>1. Init => MarksMatchRows
  BY DEF Init, MarksMatchRows
<1>2. /\ Typed /\ BatchRules /\ CallRules /\ MarksMatchRows /\ [Next]_vars
      => MarksMatchRows'
  <2> SUFFICES ASSUME Typed, BatchRules, CallRules, MarksMatchRows, [Next]_vars
               PROVE  MarksMatchRows'
    OBVIOUS
  <2> USE DEF MarksMatchRows, NoFault
  <2>1. ASSUME NEW c \in Calls, CallStep(c), ~Issue(c), ~Mark(c) PROVE MarksMatchRows'
    <3>1. UNCHANGED <<faults, owned, issued, inserted>>
      BY <2>1 DEF CallStep, TakeLock, RefuseLock, Load, CheckIssued, CheckCount, Unlock, jobVars
    <3>2. \A d \in Calls : pc[d] = "mark" => pc'[d] = "mark"
      BY <2>1 DEF CallStep, TakeLock, RefuseLock, Load, CheckIssued, CheckCount, Unlock,
                  Fail, Goto, Typed, TypeOK
    <3> QED BY <3>1, <3>2
  <2>2. ASSUME NEW c \in Calls, Issue(c) PROVE MarksMatchRows'
    <3>1. UNCHANGED <<faults, issued, inserted>>
      BY <2>2 DEF Issue, jobVars
    <3>2. \/ owned' = owned /\ pc' = [pc EXCEPT ![c] = "unlock"]
          \/ owned' = owned \cup {CallerOf[c]} /\ pc' = [pc EXCEPT ![c] = "mark"]
      BY <2>2 DEF Issue, Fail, Goto, WithCoupon
    <3>3. pc[c] # "mark" /\ \A d \in Calls : d # c => pc'[d] = pc[d]
      BY <2>2, <3>2 DEF Issue, Typed, TypeOK
    <3>4. CASE owned' = owned
      BY <3>1, <3>3, <3>4
    <3>5. CASE owned' = owned \cup {CallerOf[c]} /\ pc' = [pc EXCEPT ![c] = "mark"]
      <4>1. pc'[c] = "mark"
        BY <3>5 DEF Typed, TypeOK
      <4> QED BY <3>1, <3>3, <3>5, <4>1
    <3> QED BY <3>2, <3>4, <3>5
  <2>3. ASSUME NEW c \in Calls, Mark(c) PROVE MarksMatchRows'
    <3>1. CallerOf[c] \in owned
      BY <2>3 DEF Mark, CallRules, Issuer
    <3>2. UNCHANGED <<faults, owned, inserted>> /\ pc' = [pc EXCEPT ![c] = "unlock"]
      BY <2>3 DEF Mark, Fail, Goto, jobVars
    <3>3. issued' = issued \cup {CallerOf[c]} \/ ("mark" \in faults /\ issued' = issued)
      BY <2>3 DEF Mark, WithMark
    <3>4. \A d \in Calls : d # c => pc'[d] = pc[d]
      BY <3>2 DEF Typed, TypeOK
    <3>5. CASE issued' = issued \cup {CallerOf[c]}
      BY <3>1, <3>2, <3>4, <3>5
    <3>6. CASE "mark" \in faults /\ issued' = issued
      BY <3>2, <3>6
    <3> QED BY <3>3, <3>5, <3>6
  <2>4. ASSUME NEW c \in Calls, Crash(c) PROVE MarksMatchRows'
    BY <2>4 DEF Crash, jobVars
  <2>5. ASSUME UNCHANGED <<faults, owned, issued, inserted>>,
               \A d \in Calls : pc[d] = "mark" => pc'[d] = "mark"
        PROVE  MarksMatchRows'
    BY <2>5
  <2>6. ASSUME NEW u \in Users, Post(u) \/ Enqueue(u) PROVE MarksMatchRows'
    BY <2>5, <2>6 DEF Post, Enqueue, callVars, jobVars, Typed, TypeOK
  <2>7. CASE LeaseExpires
    BY <2>5, <2>7 DEF LeaseExpires, callVars, jobVars
  <2>8. ASSUME NEW j \in Jobs, Poll(j) \/ Pop(j) \/ TickAgain(j) PROVE MarksMatchRows'
    BY <2>5, <2>8 DEF Poll, Pop, TickAgain, callVars
  <2>9. ASSUME NEW j \in Jobs, ServeNext(j) PROVE MarksMatchRows'
    <3>1. UNCHANGED <<faults, owned, pc>>
      BY <2>9, TurnOfTheLoop DEF callVars, Typed
    <3>2. CASE Skip
      BY <3>1, <3>2 DEF Skip
    <3>3. ASSUME NEW u \in Users, Serve(j, u) PROVE MarksMatchRows'
      BY <3>1, <3>3 DEF Serve, Typed, TypeOK
    <3> QED BY <2>9, <3>2, <3>3, TurnOfTheLoop DEF Typed
  <2>10. ASSUME NEW j \in Jobs, CommitBatch(j) PROVE MarksMatchRows'
    <3>1. /\ UNCHANGED <<faults, pc, issued>>
          /\ inserted' = [inserted EXCEPT ![j] = {}]
          /\ owned' = owned \cup inserted[j]
      BY <2>10 DEF CommitBatch, EndBatch, WithCoupon, callVars
    <3>2. NoFault({"mark"}) => inserted[j] \subseteq issued
      BY DEF BatchRules
    <3> QED BY <3>1, <3>2 DEF Typed, TypeOK
  <2>11. ASSUME NEW j \in Jobs, AbortBatch(j) PROVE MarksMatchRows'
    BY <2>11 DEF AbortBatch, callVars
  <2>12. CASE Idle
    BY <2>5, <2>12 DEF Idle, callVars, jobVars
  <2> QED BY <2>1, <2>2, <2>3, <2>4, <2>6, <2>7, <2>8, <2>9, <2>10, <2>11, <2>12, Steps
          DEF JobStep
<1> QED BY <1>1, <1>2, AlwaysTyped, BatchRulesHold, CallRulesHold, PTL DEF Spec

-----------------------------------------------------------------------------
(* Jobs alone *)

\* While only the job is used, no call has been used before, and calls that
\* are refused the lock change nothing.
LEMMA OnlyJobsBefore ==
    ASSUME Typed, CallRules, [Next]_vars, OnlyJobs'
    PROVE  /\ OnlyJobs
           /\ \A c \in Calls : ~Issue(c) /\ ~Mark(c)
<1>1. ASSUME NEW c \in Calls, pc[c] \notin {"idle", "start"}, outcome[c] # "lock"
      PROVE  FALSE
  <2>1. ASSUME NEW d \in Calls, CallStep(d) \/ Crash(d) PROVE FALSE
    <3>1. CASE d # c
      <4>1. pc'[c] = pc[c] /\ outcome'[c] = outcome[c]
        BY <2>1, <3>1 DEF CallStep, Crash, TakeLock, RefuseLock, Load, CheckIssued, CheckCount,
                          Issue, Mark, Unlock, Fail, Goto, Typed, TypeOK
      <4> QED BY <1>1, <4>1 DEF OnlyJobs
    <3>2. CASE d = c
      <4>1. pc'[c] \notin {"idle", "start"} /\ outcome'[c] # "lock"
        BY <1>1, <2>1, <3>2 DEF CallStep, Crash, TakeLock, RefuseLock, Load, CheckIssued,
                          CheckCount, Issue, Mark, Unlock, Fail, Goto, Typed, TypeOK
      <4> QED BY <4>1 DEF OnlyJobs
    <3> QED BY <3>1, <3>2
  <2>2. ASSUME NEW u \in Users, Post(u) PROVE FALSE
    BY <1>1, <2>2 DEF Post, OnlyJobs, Typed, TypeOK
  <2>3. CASE UNCHANGED <<pc, outcome>>
    BY <1>1, <2>3 DEF OnlyJobs
  <2> QED BY <2>1, <2>2, <2>3, Steps, JobFrame DEF LeaseExpires, Idle, callVars
<1>2. OnlyJobs
  BY <1>1 DEF OnlyJobs
<1>3. \A c \in Calls : pc[c] \in {"idle", "start", "done"}
  BY <1>2 DEF OnlyJobs, CallRules
<1> QED BY <1>2, <1>3 DEF Issue, Mark

\* The stock is what is left, whatever becomes of the batches, for any number of
\* jobs.
THEOREM StockRemains == Spec => []StockIsRemainder
<1>1. Init => StockIsRemainder
  BY FS_EmptySet, CouponAssumption DEF Init, StockIsRemainder
<1>2. /\ Typed /\ BatchRules /\ CallRules /\ StockIsRemainder /\ [Next]_vars
      => StockIsRemainder'
  <2> SUFFICES ASSUME Typed, BatchRules, CallRules, StockIsRemainder, [Next]_vars, OnlyJobs'
               PROVE  StockIsRemainder'
    BY DEF StockIsRemainder
  <2>1. OnlyJobs /\ \A c \in Calls : ~Issue(c) /\ ~Mark(c)
    BY OnlyJobsBefore
  <2>2. ASSUME UNCHANGED <<faults, stock, owned>> PROVE StockIsRemainder'
    BY <2>1, <2>2 DEF StockIsRemainder, NoFault
  <2>3. CASE \/ (\E c \in Calls : CallStep(c) \/ Crash(c))
             \/ (\E u \in Users : Post(u)) \/ LeaseExpires
    BY <2>1, <2>2, <2>3, CallFrame DEF Elsewhere
  <2>4. ASSUME NEW j \in Jobs, CommitBatch(j) PROVE StockIsRemainder'
    <3>1. /\ Cardinality(owned') = Cardinality(owned) + Cardinality(inserted[j])
          /\ stock' = stock - taken[j]
      BY <2>4, CommittedBatch
    <3>2. taken[j] <= Cardinality(inserted[j])
          /\ (NoFault({"mark"}) => taken[j] = Cardinality(inserted[j]))
      BY DEF BatchRules
    <3>3. /\ Cardinality(owned) \in Nat /\ Cardinality(inserted[j]) \in Nat
          /\ taken[j] \in Nat /\ stock \in Int /\ Quantity \in Nat
      BY Sizes, ConstantTypes DEF Typed, TypeOK
    <3>4. faults' = faults
      BY <2>4 DEF CommitBatch, callVars
    <3> QED BY <2>1, <3>1, <3>2, <3>3, <3>4 DEF StockIsRemainder, NoFault
  <2>5. ASSUME NEW j \in Jobs, JobStep(j) \/ AbortBatch(j), ~CommitBatch(j)
        PROVE  StockIsRemainder'
    BY <2>2, <2>5 DEF JobStep, Poll, Pop, ServeNext, TickAgain, AbortBatch, callVars
  <2>6. ASSUME NEW u \in Users, Enqueue(u) PROVE StockIsRemainder'
    BY <2>2, <2>6 DEF Enqueue, callVars
  <2>7. CASE Idle
    BY <2>2, <2>7 DEF Idle, callVars
  <2> QED BY <2>3, <2>4, <2>5, <2>6, <2>7, Steps
<1> QED BY <1>1, <1>2, AlwaysTyped, BatchRulesHold, CallRulesHold, PTL DEF Spec

LEMMA JobAloneHolds == Spec => []JobAlone
<1>1. Init => JobAlone
  BY FS_EmptySet, CouponAssumption DEF Init, JobAlone
<1>2. /\ Typed /\ BatchRules /\ CallRules /\ StockIsRemainder /\ JobAlone /\ [Next]_vars
      => JobAlone'
  <2> SUFFICES ASSUME Typed, BatchRules, CallRules, StockIsRemainder, JobAlone, [Next]_vars,
                      OnlyJobs', OneJob, NoFault({"mark"})'
               PROVE  JobAlone'
    BY DEF JobAlone, OneJob
  <2>1. OnlyJobs /\ \A c \in Calls : ~Issue(c) /\ ~Mark(c)
    BY OnlyJobsBefore
  <2>2. faults' = faults
    BY Steps, CallFrame, JobFrame DEF Idle, callVars
  <2>3. NoFault({"mark"})
    BY <2>2 DEF NoFault
  <2>0. ASSUME NEW j \in Jobs, Cardinality(owned') <= Quantity,
               jpc'[j] = "pop" => jseen'[j] <= Quantity - Cardinality(owned'),
               jpc'[j] = "batch" =>
                  Cardinality(owned') + Cardinality(inserted'[j]) + Len(batch'[j]) <= Quantity
        PROVE  JobAlone'
    <3>1. \A k \in Jobs : k = j
      BY DEF OneJob
    <3> QED BY <2>0, <3>1 DEF JobAlone
  <2> USE <2>1, <2>3 DEF JobAlone
  <2>4. ASSUME UNCHANGED <<owned, jpc, jseen, inserted, batch>> PROVE JobAlone'
    BY <2>4
  <2>5. CASE \/ (\E c \in Calls : CallStep(c) \/ Crash(c))
             \/ (\E u \in Users : Post(u)) \/ LeaseExpires
    BY <2>4, <2>5, CallFrame DEF Elsewhere
  <2>6. ASSUME NEW j \in Jobs, Poll(j) \/ TickAgain(j) PROVE JobAlone'
    <3>1. stock = Quantity - Cardinality(owned)
      BY DEF StockIsRemainder
    <3> QED BY <2>6, <3>1 DEF OneJob, Poll, TickAgain, JGoto, callVars, Typed, TypeOK
  <2>7. ASSUME NEW j \in Jobs, Pop(j) PROVE JobAlone'
    <3> DEFINE n == IF PopSize(j) < Len(queue) THEN PopSize(j) ELSE Len(queue)
    <3>1. n \in Nat /\ n <= Len(queue) /\ n <= jseen[j]
      BY <2>7, LenProperties, ConstantTypes DEF Pop, PopSize, Typed, TypeOK, PopsSome
    <3>2. /\ batch' = [batch EXCEPT ![j] = SubSeq(queue, 1, n)]
          /\ jpc[j] = "pop"
          /\ jpc' = [jpc EXCEPT ![j] = IF n = 0 THEN "done" ELSE "batch"]
          /\ UNCHANGED <<owned, inserted, jseen>>
      BY <2>7 DEF Pop, JGoto
    <3> HIDE DEF n
    <3>3. Len(SubSeq(queue, 1, n)) = n
      BY <3>1, Popped DEF Typed, TypeOK
    <3>4. Cardinality(inserted[j]) = 0
      BY <3>2, FS_EmptySet DEF BatchRules
    <3>5. Cardinality(owned) \in Nat /\ jseen[j] \in Int /\ Quantity \in Nat
      BY Sizes, ConstantTypes DEF Typed, TypeOK
    <3>6. Cardinality(owned) + n <= Quantity
      BY <3>1, <3>2, <3>5
    <3>7. batch'[j] = SubSeq(queue, 1, n) /\ jpc'[j] # "pop"
      BY <3>2 DEF Typed, TypeOK
    <3>8. inserted'[j] = inserted[j] /\ Cardinality(owned') <= Quantity
      BY <3>2
    <3>9. Cardinality(owned') + Cardinality(inserted'[j]) + Len(batch'[j]) <= Quantity
      <4>1. Len(batch'[j]) = n
        BY <3>3, <3>7
      <4>2. Cardinality(inserted'[j]) = 0
        BY <3>4, <3>8
      <4>3. Cardinality(owned') = Cardinality(owned)
        BY <3>2
      <4> QED BY <3>1, <3>5, <3>6, <4>1, <4>2, <4>3
    <3> QED BY <2>0, <3>7, <3>8, <3>9
  <2>8. ASSUME NEW j \in Jobs, ServeNext(j) PROVE JobAlone'
    <3>1. /\ jpc[j] = "batch" /\ batch[j] # <<>> /\ batch'[j] = Tail(batch[j])
          /\ UNCHANGED <<owned, jpc, jseen>>
      BY <2>8, TurnOfTheLoop DEF Typed, TypeOK
    <3>2. Len(batch'[j]) = Len(batch[j]) - 1 /\ Len(batch[j]) \in Nat
      BY <3>1, HeadTailProperties, LenProperties DEF Typed, TypeOK
    <3>3. /\ Cardinality(owned) \in Nat /\ Cardinality(inserted[j]) \in Nat
          /\ Quantity \in Nat
      BY Sizes, ConstantTypes DEF Typed, TypeOK
    <3>4. ASSUME Cardinality(inserted'[j]) <= Cardinality(inserted[j]) + 1,
                 Cardinality(inserted'[j]) \in Nat
          PROVE  JobAlone'
      <4>1. Cardinality(owned) + Cardinality(inserted[j]) + Len(batch[j]) <= Quantity
        BY <3>1
      <4>2. Cardinality(owned') <= Quantity /\ jpc'[j] # "pop"
        BY <3>1
      <4>3. Cardinality(owned') + Cardinality(inserted'[j]) + Len(batch'[j]) <= Quantity
        BY <3>1, <3>2, <3>3, <3>4, <4>1
      <4> QED BY <2>0, <4>2, <4>3
    <3>5. CASE Skip
      BY <3>3, <3>4, <3>5 DEF Skip
    <3>6. ASSUME NEW u \in Users, Serve(j, u) PROVE JobAlone'
      <4>1. Cardinality(inserted'[j]) = Cardinality(inserted[j]) + 1
        BY <3>6, GrownByOne DEF Serve, Typed, TypeOK
      <4> QED BY <3>3, <3>4, <4>1
    <3> QED BY <2>8, <3>5, <3>6, TurnOfTheLoop DEF Typed
  <2>9. ASSUME NEW j \in Jobs, CommitBatch(j) PROVE JobAlone'
    <3>1. Cardinality(owned') = Cardinality(owned) + Cardinality(inserted[j])
      BY <2>9, CommittedBatch
    <3>2. Len(batch[j]) = 0 /\ jpc[j] = "batch" /\ jpc'[j] = "done"
      BY <2>9, EmptySeq DEF CommitBatch, EndBatch, JGoto, Typed, TypeOK
    <3>3. Cardinality(owned) \in Nat /\ Cardinality(inserted[j]) \in Nat
      BY Sizes DEF Typed, TypeOK
    <3>4. Cardinality(owned') <= Quantity
      BY <3>1, <3>2, <3>3
    <3> QED BY <3>2, <3>4 DEF OneJob
  <2>10. ASSUME NEW j \in Jobs, AbortBatch(j) PROVE JobAlone'
    <3>1. jpc'[j] \in {"done", "crashed"} /\ owned' = owned
      BY <2>10 DEF AbortBatch, EndBatch, JGoto, Typed, TypeOK
    <3> QED BY <3>1 DEF OneJob
  <2>11. ASSUME NEW u \in Users, Enqueue(u) PROVE JobAlone'
    BY <2>4, <2>11 DEF Enqueue, jobVars
  <2>12. CASE Idle
    BY <2>4, <2>12 DEF Idle, jobVars
  <2> QED BY <2>5, <2>6, <2>7, <2>8, <2>9, <2>10, <2>11, <2>12, Steps DEF JobStep
<1> QED BY <1>1, <1>2, AlwaysTyped, BatchRulesHold, CallRulesHold, StockRemains, PTL DEF Spec

-----------------------------------------------------------------------------
(* Calls alone *)

LEMMA OnlyCallsBefore ==
    ASSUME [Next]_vars, OnlyCalls'
    PROVE  OnlyCalls /\ \A u \in Users : ~Enqueue(u)
<1>1. asked' = asked \/ \E u \in Users : asked' = asked \cup {u}
  BY Steps, CallFrame DEF JobStep, AbortBatch, Enqueue, Poll, Pop, ServeNext, CommitBatch,
                          TickAgain, Idle
<1> QED BY <1>1 DEF OnlyCalls, Enqueue

LEMMA CallsAloneHolds == Spec => []CallsAlone
<1>1. Init => CallsAlone
  BY DEF Init, CallsAlone
<1>2. Typed /\ BatchRules /\ CallRules /\ CallsAlone /\ [Next]_vars => CallsAlone'
  <2> SUFFICES ASSUME Typed, BatchRules, CallRules, CallsAlone, [Next]_vars, OnlyCalls'
               PROVE  CallsAlone'
    BY DEF CallsAlone
  <2>1. OnlyCalls /\ \A u \in Users : ~Enqueue(u)
    BY OnlyCallsBefore
  <2> USE <2>1 DEF CallsAlone
  <2>2. ASSUME Elsewhere, owned \subseteq owned', issued' \subseteq owned',
               \A c \in Calls : pc'[c] \in {"known", "count"} =>
                  \/ seen'[c] = stock
                  \/ pc[c] \in {"known", "count"} /\ seen'[c] = seen[c]
        PROVE  CallsAlone'
    BY <2>2 DEF Elsewhere
  <2>3. ASSUME NEW c \in Calls, CallStep(c) \/ Crash(c) PROVE CallsAlone'
    <3>1. \A d \in Calls : pc'[d] \in {"known", "count"} =>
             \/ seen'[d] = stock
             \/ pc[d] \in {"known", "count"} /\ seen'[d] = seen[d]
      BY <2>3 DEF CallStep, Crash, TakeLock, RefuseLock, Load, CheckIssued, CheckCount,
                  Issue, Mark, Unlock, Fail, Goto, Typed, TypeOK
    <3>2. owned \subseteq owned'
      BY <2>3, CallFrame
    <3>3. issued' \subseteq owned'
      BY <2>3, <3>2, CallFrame DEF Mark, CallRules, Issuer
    <3> QED BY <2>2, <2>3, <3>1, <3>2, <3>3, CallFrame
  <2>4. ASSUME NEW u \in Users, Post(u) PROVE CallsAlone'
    <3>1. \A d \in Calls : pc'[d] \in {"known", "count"} => pc[d] = pc'[d]
      BY <2>4 DEF Post, Typed, TypeOK
    <3> QED BY <2>4, <3>1 DEF Post, jobVars
  <2>5. CASE LeaseExpires
    BY <2>5 DEF LeaseExpires, callVars, jobVars
  <2>6. ASSUME NEW j \in Jobs, Poll(j) \/ TickAgain(j) PROVE CallsAlone'
    BY <2>6 DEF Poll, TickAgain, callVars
  <2>7. ASSUME NEW j \in Jobs, Pop(j) PROVE CallsAlone'
    <3> DEFINE n == IF PopSize(j) < Len(queue) THEN PopSize(j) ELSE Len(queue)
    <3>1. Len(queue) = 0
      BY EmptySeq
    <3>2. PopSize(j) \in Nat
      BY <2>7, ConstantTypes DEF Pop, PopSize, Typed, TypeOK, PopsSome
    <3>3. n = 0
      BY <3>1, <3>2
    <3>4. SubSeq(queue, 1, n) = <<>> /\ SubSeq(queue, n + 1, Len(queue)) = <<>>
      BY <3>1, <3>3, SubSeqEmpty
    <3>5. batch' = [batch EXCEPT ![j] = <<>>] /\ queue' = <<>>
      BY <2>7, <3>4 DEF Pop, RestOfQueue
    <3> QED BY <2>7, <3>5 DEF Pop, callVars, Typed, TypeOK
  <2>8. ASSUME NEW j \in Jobs, ServeNext(j) PROVE CallsAlone'
    BY <2>8 DEF ServeNext
  <2>9. ASSUME NEW j \in Jobs, CommitBatch(j) PROVE CallsAlone'
    <3>1. owned' = owned /\ stock' = stock
      <4>1. inserted[j] = {} /\ taken[j] = 0 /\ stock \in Int
        BY DEF Typed, TypeOK
      <4>2. owned' = owned \cup inserted[j] /\ stock' = stock - taken[j]
        BY <2>9 DEF CommitBatch, WithCoupon, StockAfter
      <4> QED BY <4>1, <4>2
    <3> QED BY <2>9, <3>1 DEF CommitBatch, EndBatch, callVars, Typed, TypeOK
  <2>10. ASSUME NEW j \in Jobs, AbortBatch(j) PROVE CallsAlone'
    BY <2>10 DEF AbortBatch, EndBatch, callVars, Typed, TypeOK
  <2>11. CASE Idle
    BY <2>11 DEF Idle, callVars, jobVars
  <2> QED BY <2>1, <2>3, <2>4, <2>5, <2>6, <2>7, <2>8, <2>9, <2>10, <2>11, Steps DEF JobStep
<1> QED BY <1>1, <1>2, AlwaysTyped, BatchRulesHold, CallRulesHold, PTL DEF Spec

\* Nobody is told that the coupons are gone while some are left.
THEOREM NobodyTurnedAway == Spec => []EmptyMeansEmpty
<1>1. Init => EmptyMeansEmpty
  BY DEF Init, EmptyMeansEmpty
<1>2. /\ Typed /\ BatchRules /\ CallRules /\ CallsAlone /\ EmptyMeansEmpty /\ [Next]_vars
      /\ Typed'
      => EmptyMeansEmpty'
  <2> SUFFICES ASSUME Typed, BatchRules, CallRules, CallsAlone, EmptyMeansEmpty, [Next]_vars,
                      Typed', OnlyCalls', NEW c \in Calls, outcome'[c] = "empty"
               PROVE  Cardinality(owned') >= Quantity
    BY DEF EmptyMeansEmpty
  <2>1. OnlyCalls /\ \A u \in Users : ~Enqueue(u)
    BY OnlyCallsBefore
  <2>2. owned \subseteq owned' /\ owned \in SUBSET Users /\ owned' \in SUBSET Users
    <3>1. owned \subseteq owned'
      BY Steps, CallFrame DEF JobStep, AbortBatch, Enqueue, Poll, Pop, ServeNext, CommitBatch,
                              TickAgain, WithCoupon, Idle
    <3> QED BY <3>1 DEF Typed, TypeOK
  <2>3. Cardinality(owned) <= Cardinality(owned')
    BY <2>2, Sizes, FS_Subset
  <2>4. Cardinality(owned) \in Nat /\ Cardinality(owned') \in Nat /\ Quantity \in Nat
    BY <2>2, Sizes, ConstantTypes
  <2>5. CASE outcome[c] = "empty"
    BY <2>1, <2>3, <2>4, <2>5 DEF EmptyMeansEmpty
  <2>6. CASE outcome[c] # "empty"
    <3>1. CheckCount(c) /\ Exhausted(c)
      <4>1. PICK d \in Calls : CallStep(d) /\ outcome' # outcome
        BY <2>6, Steps, JobFrame DEF Crash, Post, LeaseExpires, Idle, callVars
      <4>2. CASE CheckCount(d)
        BY <2>6, <4>1, <4>2 DEF CheckCount, Fail, Goto, Typed, TypeOK
      <4>3. ASSUME NEW why, why # "empty", outcome' = [outcome EXCEPT ![d] = why] PROVE FALSE
        BY <2>6, <4>3 DEF Typed, TypeOK
      <4>4. CASE RefuseLock(d) \/ Load(d) \/ CheckIssued(d)
        BY <4>1, <4>3, <4>4 DEF RefuseLock, Load, CheckIssued, Fail
      <4>5. CASE Issue(d) \/ Mark(d)
        BY <4>1, <4>3, <4>5 DEF Issue, Mark, Fail
      <4>6. ~TakeLock(d) /\ ~Unlock(d)
        BY <4>1 DEF TakeLock, Unlock
      <4> QED BY <4>1, <4>2, <4>4, <4>5, <4>6 DEF CallStep
    <3>2. Cardinality(issued) >= Quantity /\ issued \subseteq owned
      BY <2>1, <3>1 DEF CheckCount, Exhausted, IssuedCount, CallsAlone
    <3>3. Cardinality(issued) <= Cardinality(owned) /\ Cardinality(issued) \in Nat
      BY <2>2, <3>2, Sizes, FS_Subset DEF Typed, TypeOK
    <3> QED BY <2>3, <2>4, <3>2, <3>3
  <2> QED BY <2>5, <2>6
<1> QED BY <1>1, <1>2, AlwaysTyped, BatchRulesHold, CallRulesHold, CallsAloneHolds, PTL
        DEF Spec

-----------------------------------------------------------------------------
(* The number of coupons *)

LEMMA CallsInTurnHolds == Spec => []CallsInTurn
<1>1. Init => CallsInTurn
  BY DEF Init, CallsInTurn, Section
<1>2. Typed /\ CallsAlone /\ CallsInTurn /\ [Next]_vars => CallsInTurn'
  <2> SUFFICES ASSUME Typed, CallsAlone, CallsInTurn, [Next]_vars,
                      NoFault({"lease", "mark", "crash"})'
               PROVE  CallsInTurn'
    BY DEF CallsInTurn
  <2>1. faults' = faults
    BY Steps, CallFrame, JobFrame DEF Idle, callVars
  <2>2. NoFault({"lease", "mark", "crash"})
    BY <2>1 DEF NoFault
  <2>3. \A c \in Calls : pc[c] \in Section => lock = c
    BY <2>2 DEF CallsInTurn
  <2>4. ASSUME OnlyCalls'
        PROVE  OnlyCalls /\ \A c \in Calls : pc[c] = "insert" => Cardinality(issued) < Quantity
    BY <2>2, <2>4, OnlyCallsBefore DEF CallsInTurn
  <2>5. ASSUME UNCHANGED <<pc, lock>>, OnlyCalls' => issued' = issued PROVE CallsInTurn'
    BY <2>3, <2>4, <2>5 DEF CallsInTurn
  <2>6. ASSUME NEW c \in Calls, Load(c) \/ CheckIssued(c) \/ CheckCount(c) \/ Issue(c)
        PROVE  CallsInTurn'
    <3>1. UNCHANGED <<lock, issued>>
      BY <2>6 DEF Load, CheckIssued, CheckCount, Issue
    <3>2. /\ pc[c] \in Section
          /\ \A d \in Calls : d # c => pc'[d] = pc[d]
          /\ pc'[c] = "insert" => CheckCount(c) /\ ~Exhausted(c)
      BY <2>6 DEF Load, CheckIssued, CheckCount, Issue, Fail, Goto, Section, Typed, TypeOK
    <3>3. ASSUME OnlyCalls', pc'[c] = "insert" PROVE Cardinality(issued) < Quantity
      <4>1. pc[c] = "count" /\ ~(Cardinality(issued) >= seen[c])
        BY <3>2, <3>3 DEF CheckCount, Exhausted, IssuedCount
      <4>2. seen[c] = Quantity
        BY <2>4, <3>3, <4>1 DEF CallsAlone
      <4>3. Cardinality(issued) \in Nat /\ Quantity \in Nat
        BY Sizes, ConstantTypes DEF Typed, TypeOK
      <4> QED BY <4>1, <4>2, <4>3
    <3> QED BY <2>3, <2>4, <3>1, <3>2, <3>3 DEF CallsInTurn
  <2>7. ASSUME NEW c \in Calls, TakeLock(c) PROVE CallsInTurn'
    <3>1. lock = None /\ \A d \in Calls : pc[d] \notin Section
      BY <2>3, <2>7, CouponAssumption DEF TakeLock, LockFree
    <3>2. lock' = c /\ pc'[c] = "load" /\ \A d \in Calls : d # c => pc'[d] = pc[d]
      BY <2>7 DEF TakeLock, Goto, Typed, TypeOK
    <3> QED BY <3>1, <3>2 DEF CallsInTurn, Section
  <2>8. ASSUME NEW c \in Calls, RefuseLock(c) PROVE CallsInTurn'
    <3>1. UNCHANGED <<lock, issued>> /\ pc'[c] = "done" /\ \A d \in Calls : d # c => pc'[d] = pc[d]
      BY <2>8 DEF RefuseLock, Goto, Typed, TypeOK
    <3> QED BY <2>3, <2>4, <3>1 DEF CallsInTurn, Section
  <2>9. ASSUME NEW c \in Calls, Mark(c) PROVE CallsInTurn'
    <3>1. /\ lock = c /\ lock' = lock /\ pc'[c] = "unlock"
          /\ \A d \in Calls : d # c => pc'[d] = pc[d]
      BY <2>3, <2>9 DEF Mark, Fail, Goto, Section, Typed, TypeOK
    <3> QED BY <2>3, <3>1 DEF CallsInTurn, Section
  <2>10. ASSUME NEW c \in Calls, Unlock(c) PROVE CallsInTurn'
    <3>1. /\ lock = c /\ pc'[c] = "done" /\ \A d \in Calls : d # c => pc'[d] = pc[d]
      BY <2>3, <2>10 DEF Unlock, Goto, Section, Typed, TypeOK
    <3> QED BY <2>3, <3>1 DEF CallsInTurn, Section
  <2>11. ASSUME NEW c \in Calls, Crash(c) PROVE CallsInTurn'
    BY <2>2, <2>11 DEF Crash, NoFault
  <2>12. ASSUME NEW u \in Users, Post(u) PROVE CallsInTurn'
    <3>1. UNCHANGED <<lock, issued>> /\ \A d \in Calls : pc'[d] = pc[d] \/ pc'[d] = "start"
      BY <2>12 DEF Post, Typed, TypeOK
    <3> QED BY <2>3, <2>4, <3>1 DEF CallsInTurn, Section
  <2>13. CASE LeaseExpires
    <3>1. \A d \in Calls : pc[d] \notin Section
      BY <2>2, <2>3, <2>13 DEF LeaseExpires, LeaseOver, NoFault, Section
    <3> QED BY <2>13, <3>1 DEF LeaseExpires, CallsInTurn, callVars, Section
  <2>14. ASSUME NEW j \in Jobs, JobStep(j) \/ AbortBatch(j) PROVE CallsInTurn'
    <3>1. ASSUME OnlyCalls' PROVE issued' = issued
      <4>1. batch[j] = <<>>
        BY <2>4, <3>1 DEF CallsAlone
      <4> QED BY <2>14, <4>1 DEF JobStep, AbortBatch, Poll, Pop, ServeNext, CommitBatch, TickAgain
    <3> QED BY <2>5, <2>14, <3>1, JobFrame
  <2>15. ASSUME NEW u \in Users, Enqueue(u) PROVE CallsInTurn'
    BY <2>5, <2>15, JobFrame DEF Enqueue
  <2>16. CASE Idle
    BY <2>5, <2>16 DEF Idle, callVars
  <2> QED BY <2>6, <2>7, <2>8, <2>9, <2>10, <2>11, <2>12, <2>13, <2>14, <2>15, <2>16, Steps
          DEF CallStep
<1> QED BY <1>1, <1>2, AlwaysTyped, CallsAloneHolds, PTL DEF Spec

CallsKeepCount ==
    OnlyCalls /\ NoFault({"lease", "mark", "crash"}) => Cardinality(owned) <= Quantity

LEMMA CallsKeepCountHolds == Spec => []CallsKeepCount
<1>1. Init => CallsKeepCount
  BY FS_EmptySet, CouponAssumption DEF Init, CallsKeepCount
<1>2. /\ Typed /\ CallsAlone /\ CallsInTurn /\ MarksMatchRows /\ CallsKeepCount /\ [Next]_vars
      => CallsKeepCount'
  <2> SUFFICES ASSUME Typed, CallsAlone, CallsInTurn, MarksMatchRows, CallsKeepCount, [Next]_vars,
                      OnlyCalls', NoFault({"lease", "mark", "crash"})'
               PROVE  Cardinality(owned') <= Quantity
    BY DEF CallsKeepCount
  <2>1. OnlyCalls
    BY OnlyCallsBefore
  <2>2. faults' = faults
    BY Steps, CallFrame, JobFrame DEF Idle, callVars
  <2>3. NoFault({"lease", "mark", "crash"}) /\ NoFault({"mark", "crash"})
    BY <2>2 DEF NoFault
  <2>4. CASE owned' = owned
    BY <2>1, <2>3, <2>4 DEF CallsKeepCount
  <2>5. ASSUME NEW c \in Calls, Issue(c), owned' = owned \cup {CallerOf[c]}, owned' # owned
        PROVE  Cardinality(owned') <= Quantity
    <3>1. pc[c] = "insert"
      BY <2>5 DEF Issue
    <3>2. \A d \in Calls : pc[d] # "mark"
      BY <2>3, <3>1 DEF CallsInTurn, Section
    <3>3. owned \subseteq issued
      BY <2>3, <3>2 DEF MarksMatchRows
    <3>4. Cardinality(owned) <= Cardinality(issued)
      BY <3>3, Sizes, FS_Subset DEF Typed, TypeOK
    <3>5. Cardinality(issued) < Quantity
      BY <2>1, <2>3, <3>1 DEF CallsInTurn
    <3>6. Cardinality(owned') = Cardinality(owned) + 1
      BY <2>5, GrownByOne, ConstantTypes DEF Typed, TypeOK
    <3>7. Cardinality(owned) \in Nat /\ Cardinality(issued) \in Nat /\ Quantity \in Nat
      BY Sizes, ConstantTypes DEF Typed, TypeOK
    <3> QED BY <3>4, <3>5, <3>6, <3>7
  <2>6. ASSUME NEW j \in Jobs, JobStep(j) \/ AbortBatch(j) PROVE owned' = owned
    <3>1. inserted[j] = {}
      BY <2>1 DEF CallsAlone
    <3> QED BY <2>6, <3>1 DEF JobStep, AbortBatch, Poll, Pop, ServeNext, CommitBatch, TickAgain,
                              WithCoupon
  <2> QED BY <2>4, <2>5, <2>6, Steps, CallFrame DEF Enqueue, Idle
<1> QED BY <1>1, <1>2, AlwaysTyped, CallsAloneHolds, CallsInTurnHolds, MarksAgree, PTL DEF Spec

\* Neither path alone hands out more coupons than the campaign has.
THEOREM NoMoreThanQuantity == Spec => []NoOverIssue
<1>1. CallsKeepCount /\ JobAlone => NoOverIssue
  BY DEF CallsKeepCount, JobAlone, NoOverIssue, OnePathAlone
<1> QED BY <1>1, CallsKeepCountHolds, JobAloneHolds, PTL
-----------------------------------------------------------------------------
(* The campaign *)

\* A call that is still at work has not answered.
Unanswered ==
    \A c \in Calls :
        pc[c] \in {"idle", "start", "load", "known", "count", "insert", "mark"}
            => outcome[c] = "none"

LEMMA UnansweredHolds == Spec => []Unanswered
<1>1. Init => Unanswered
  BY DEF Init, Unanswered
<1>2. Typed /\ Unanswered /\ [Next]_vars => Unanswered'
  <2> SUFFICES ASSUME Typed, Unanswered, [Next]_vars PROVE Unanswered'
    OBVIOUS
  <2> USE DEF Unanswered, Typed, TypeOK
  <2>1. ASSUME NEW c \in Calls, CallStep(c) \/ Crash(c) PROVE Unanswered'
    BY <2>1 DEF CallStep, Crash, TakeLock, RefuseLock, Load, CheckIssued, CheckCount, Issue,
                Mark, Unlock, Fail, Goto
  <2>2. ASSUME NEW u \in Users, Post(u) PROVE Unanswered'
    BY <2>2 DEF Post
  <2>3. CASE UNCHANGED <<pc, outcome>>
    BY <2>3
  <2> QED BY <2>1, <2>2, <2>3, Steps, JobFrame DEF LeaseExpires, Idle, callVars
<1> QED BY <1>1, <1>2, AlwaysTyped, PTL DEF Spec

\* The campaign counts its users as this module does.
LEMMA SameCount ==
    ASSUME NEW S
    PROVE  Campaign!Cardinality(S) = Cardinality(S)
BY Zenon DEF Campaign!Cardinality, Cardinality

LEMMA WhatStands ==
    /\ "answers" \in Standing <=> OnlyCalls
    /\ "quantity" \in Standing <=> OnePathAlone
    /\ "quantity" \in Standing' <=> OnePathAlone'
BY DEF Standing

\* Promises are dropped only when a call gets its lock or a request is queued.
Joins == (\E c \in Calls : TakeLock(c)) \/ (\E u \in Users : Enqueue(u))

LEMMA PromisesStand ==
    ASSUME Typed, CallRules, [Next]_vars
    PROVE  Standing' \subseteq Standing /\ (~Joins => Standing' = Standing)
<1>1. faults' = faults
  BY Steps, CallFrame, JobFrame DEF Idle, callVars
<1>2. Standing' \subseteq Standing
  BY <1>1, OnlyCallsBefore, OnlyJobsBefore DEF Standing, OnePathAlone, NoFault, OneJob
<1>3. ASSUME ~Joins PROVE Standing' = Standing
  <2>1. asked' = asked
    BY <1>3, Steps, CallFrame DEF Joins, JobStep, AbortBatch, Poll, Pop, ServeNext,
                                  CommitBatch, TickAgain, Idle
  <2>2. ASSUME OnlyJobs PROVE OnlyJobs'
    <3>1. ASSUME NEW c \in Calls, CallStep(c) \/ Crash(c) PROVE OnlyJobs'
      <4>1. pc[c] = "start" \/ pc[c] = "idle" \/ pc[c] = "done"
        BY <2>2 DEF OnlyJobs, CallRules
      <4>2. RefuseLock(c)
        BY <1>3, <3>1, <4>1 DEF Joins, CallStep, Crash, Load, CheckIssued, CheckCount, Issue,
                                Mark, Unlock
      <4> QED BY <2>2, <4>2 DEF RefuseLock, Goto, OnlyJobs, Typed, TypeOK
    <3>2. ASSUME NEW u \in Users, Post(u) PROVE OnlyJobs'
      BY <2>2, <3>2 DEF Post, OnlyJobs, Typed, TypeOK
    <3>3. CASE UNCHANGED <<pc, outcome>>
      BY <2>2, <3>3 DEF OnlyJobs
    <3> QED BY <3>1, <3>2, <3>3, Steps, JobFrame DEF LeaseExpires, Idle, callVars
  <2>3. OnlyCalls' <=> OnlyCalls
    BY <2>1 DEF OnlyCalls
  <2>4. OnlyJobs' <=> OnlyJobs
    BY <2>2, OnlyJobsBefore
  <2> QED BY <1>1, <2>3, <2>4 DEF Standing, OnePathAlone, NoFault, OneJob
<1> QED BY <1>2, <1>3

\* What a step does that the campaign does not see.
LEMMA Unseen ==
    ASSUME UNCHANGED <<owned, outcome>>, Answering' = Answering, Standing' = Standing
    PROVE  UNCHANGED Campaign!campaignVars
BY DEF Campaign!campaignVars

\* A call that leaves its label for one that is not "mark" is not answering any more.
LEMMA NotAnswering ==
    ASSUME TypeOK, NEW c \in Calls, NEW label, label # "mark", Goto(c, label)
    PROVE  Answering' = Answering \ {c}
BY DEF TypeOK, Goto, Answering

\* A call that fails, or succeeds, with an answer that is true.
LEMMA Answered ==
    ASSUME TypeOK, Unanswered, NEW c \in Calls, NEW label, label # "mark", Goto(c, label),
           pc[c] \in {"start", "load", "known", "count", "insert", "mark"},
           NEW why \in Campaign!Answers, outcome' = [outcome EXCEPT ![c] = why],
           UNCHANGED owned, Standing' = Standing, Campaign!Truthful(c, why)
    PROVE  Campaign!CampaignNext
<1>1. Campaign!Answer(c, why)
  BY NotAnswering DEF Campaign!Answer, Unanswered
<1> QED BY <1>1 DEF Campaign!CampaignNext

\* A step of a call that neither answers nor issues.
LEMMA Goes ==
    ASSUME TypeOK, NEW c \in Calls, NEW label, label # "mark", Goto(c, label), pc[c] # "mark",
           UNCHANGED <<owned, outcome>>, Standing' = Standing
    PROVE  UNCHANGED Campaign!campaignVars
<1>1. Answering' = Answering
  BY NotAnswering DEF Answering
<1> QED BY <1>1, Unseen

\* Users that had no coupon have one, and the quantity is kept where it must be.
LEMMA Handed ==
    ASSUME NEW users, users # {}, users \cap owned = {}, owned' = owned \cup users,
           UNCHANGED outcome, Standing' = Standing, NoOverIssue'
    PROVE  Campaign!Hand(users)
<1>1. "quantity" \in Standing => Campaign!Cardinality(owned') <= Quantity
  BY WhatStands, SameCount DEF NoOverIssue
<1>2. UNCHANGED <<outcome, Standing>>
  OBVIOUS
<1> QED BY <1>1, <1>2, Zenon DEF Campaign!Hand

\* Each step of a call is an answer, a coupon for its user, or not seen.
LEMMA CallIsCampaign ==
    ASSUME Typed, CallRules, CallsAlone, Unanswered, [Next]_vars, NoOverIssue',
           NEW c \in Calls, CallStep(c) \/ Crash(c)
    PROVE  [Campaign!CampaignNext]_Campaign!campaignVars
<1>1. TypeOK
  BY DEF Typed
<1>2. ~TakeLock(c) => Standing' = Standing
  <2>1. ASSUME NEW d \in Calls, TakeLock(d), ~TakeLock(c) PROVE FALSE
    <3>1. d # c /\ pc' = [pc EXCEPT ![d] = "load"] /\ pc[d] = "start" /\ UNCHANGED outcome
      BY <2>1 DEF TakeLock, Goto
    <3>2. pc'[c] = pc[c]
      BY <1>1, <3>1 DEF TypeOK
    <3> QED BY <1>1, <2>1, <3>1, <3>2 DEF CallStep, Crash, RefuseLock, Load, CheckIssued,
                 CheckCount, Issue, Mark, Unlock, Fail, Goto, TypeOK
  <2>2. ASSUME NEW u \in Users, Enqueue(u) PROVE FALSE
    BY <1>1, <2>2, JobFrame DEF CallStep, Crash, TakeLock, RefuseLock, Load, CheckIssued, CheckCount,
                 Issue, Mark, Unlock, Fail, Goto, TypeOK
  <2> QED BY <2>1, <2>2, PromisesStand DEF Joins
<1>3. ASSUME TakeLock(c) PROVE Campaign!CampaignNext
  <2>1. Answering' = Answering
    BY <1>1, <1>3, NotAnswering DEF TakeLock, Answering
  <2>2. Standing' \in SUBSET Standing
    BY PromisesStand
  <2>3. UNCHANGED <<owned, outcome>>
    BY <1>3 DEF TakeLock
  <2> QED BY <2>1, <2>2, <2>3 DEF Campaign!DropPromise, Campaign!CampaignNext
<1>4. ASSUME RefuseLock(c) PROVE Campaign!CampaignNext
  <2>1. Goto(c, "done") /\ outcome' = [outcome EXCEPT ![c] = "lock"] /\ pc[c] = "start"
        /\ UNCHANGED owned /\ ~TakeLock(c)
    BY <1>1, <1>4 DEF RefuseLock, TakeLock, Goto, TypeOK
  <2>2. Campaign!Truthful(c, "lock") /\ "lock" \in Campaign!Answers
    BY <2>1 DEF Campaign!Truthful, Campaign!Answers, Answering
  <2> QED BY <1>1, <1>2, <2>1, <2>2, Answered
<1>5. ASSUME NEW why \in Campaign!Answers, Fail(c, why), UNCHANGED owned, Standing' = Standing,
             pc[c] \in {"load", "known", "count", "insert", "mark"}, Campaign!Truthful(c, why)
      PROVE  Campaign!CampaignNext
  BY <1>1, <1>5, Answered DEF Fail
<1>6. ASSUME Load(c) \/ CheckIssued(c) \/ CheckCount(c)
      PROVE  [Campaign!CampaignNext]_Campaign!campaignVars
  <2>1. UNCHANGED owned /\ Standing' = Standing /\ pc[c] \in {"load", "known", "count"}
    BY <1>2, <1>6 DEF Load, CheckIssued, CheckCount, TakeLock
  <2>2. ASSUME UNCHANGED outcome PROVE UNCHANGED Campaign!campaignVars
    <3>1. PICK label \in {"known", "count", "insert", "unlock"} : Goto(c, label)
      BY <1>6 DEF Load, CheckIssued, CheckCount, Fail
    <3> QED BY <1>1, <2>1, <2>2, <3>1, Goes
  <2>3. ASSUME Fail(c, "refused") PROVE Campaign!CampaignNext
    BY <1>5, <2>1, <2>3 DEF Campaign!Truthful, Campaign!Answers, Answering
  <2>4. ASSUME CheckIssued(c), Fail(c, "issued") PROVE Campaign!CampaignNext
    <3>1. OnlyCalls => CallerOf[c] \in owned
      BY <1>1, <2>4 DEF CheckIssued, Fail, Goto, CallsAlone, TypeOK
    <3> QED BY <1>5, <2>1, <2>4, <3>1, WhatStands
            DEF Campaign!Truthful, Campaign!Answers, Answering
  <2>5. ASSUME CheckCount(c), Fail(c, "empty") PROVE Campaign!CampaignNext
    <3>1. Exhausted(c) /\ pc[c] = "count"
      BY <1>1, <2>5 DEF CheckCount, Fail, Goto, TypeOK
    <3>2. ASSUME OnlyCalls PROVE Campaign!Cardinality(owned) >= Quantity
      <4>1. issued \subseteq owned /\ seen[c] = Quantity
        BY <3>1, <3>2 DEF CallsAlone
      <4>2. Cardinality(issued) >= Quantity
        BY <3>1, <4>1 DEF Exhausted, IssuedCount
      <4>3. /\ Cardinality(issued) <= Cardinality(owned)
            /\ Cardinality(issued) \in Nat /\ Cardinality(owned) \in Nat /\ Quantity \in Nat
        BY <1>1, <4>1, Sizes, FS_Subset, ConstantTypes DEF TypeOK
      <4> QED BY <4>2, <4>3, SameCount
    <3> QED BY <1>5, <2>1, <2>5, <3>1, <3>2, WhatStands
            DEF Campaign!Truthful, Campaign!Answers, Answering
  <2> QED BY <1>6, <2>2, <2>3, <2>4, <2>5 DEF Load, CheckIssued, CheckCount
<1>7. ASSUME Issue(c) PROVE Campaign!CampaignNext
  <2>1. pc[c] = "insert" /\ Standing' = Standing /\ outcome[c] = "none"
    BY <1>2, <1>7 DEF Issue, TakeLock, Unanswered
  <2>2. ASSUME NEW why \in {"issued", "error"}, Fail(c, why), UNCHANGED owned,
               CallerOf[c] \in owned
        PROVE  Campaign!CampaignNext
    BY <1>5, <2>1, <2>2 DEF Campaign!Truthful, Campaign!Answers, Answering
  <2>3. ASSUME owned' = owned \cup {CallerOf[c]}, Goto(c, "mark"), UNCHANGED outcome,
               CallerOf[c] \notin owned
        PROVE  Campaign!CampaignNext
    <3>1. Answering' = Answering \cup {c} /\ c \notin Answering
      BY <1>1, <2>1, <2>3 DEF Answering, Goto, TypeOK
    <3>2. {CallerOf[c]} # {} /\ {CallerOf[c]} \cap owned = {}
      BY <2>3
    <3>3. Campaign!Hand({CallerOf[c]})
      BY <2>1, <2>3, <3>2, Handed
    <3>4. Campaign!HandToCaller(c)
      BY <2>1, <3>1, <3>3 DEF Campaign!HandToCaller
    <3> QED BY <3>4 DEF Campaign!CampaignNext
  <2> QED BY <1>7, <2>2, <2>3 DEF Issue, RefusedTwice, Existing, WithCoupon
<1>8. ASSUME Mark(c) PROVE Campaign!CampaignNext
  <2>1. pc[c] = "mark" /\ Standing' = Standing /\ UNCHANGED owned
    BY <1>2, <1>8 DEF Mark, TakeLock
  <2>2. PICK why \in {"ok", "error"} : Fail(c, why)
    BY <1>8 DEF Mark
  <2> QED BY <1>5, <2>1, <2>2 DEF Campaign!Truthful, Campaign!Answers, Answering
<1>9. ASSUME Unlock(c) PROVE UNCHANGED Campaign!campaignVars
  BY <1>1, <1>2, <1>9, Goes DEF Unlock, TakeLock
<1>10. ASSUME Crash(c) PROVE [Campaign!CampaignNext]_Campaign!campaignVars
  <2>1. UNCHANGED <<owned, outcome>> /\ Standing' = Standing /\ Goto(c, "crashed")
    BY <1>2, <1>10 DEF Crash, TakeLock
  <2>2. CASE pc[c] # "mark"
    BY <1>1, <2>1, <2>2, Goes
  <2>3. CASE pc[c] = "mark"
    <3>1. Campaign!LoseAnswer(c)
      BY <1>1, <2>1, <2>3, NotAnswering DEF Campaign!LoseAnswer, Answering
    <3> QED BY <3>1 DEF Campaign!CampaignNext
  <2> QED BY <2>2, <2>3
<1> QED BY <1>3, <1>4, <1>6, <1>7, <1>8, <1>9, <1>10 DEF CallStep

\* A batch that is committed is one step, the rest of a job is not seen.
LEMMA JobIsCampaign ==
    ASSUME Typed, BatchRules, CallRules, [Next]_vars, NoOverIssue',
           NEW j \in Jobs, JobStep(j) \/ AbortBatch(j)
    PROVE  [Campaign!CampaignNext]_Campaign!campaignVars
<1>1. UNCHANGED <<faults, pc, outcome>>
  BY JobFrame
<1>2. asked' = asked
  BY DEF JobStep, AbortBatch, Poll, Pop, ServeNext, CommitBatch, TickAgain
<1>3. Answering' = Answering
  BY <1>1 DEF Answering
<1>4. Standing' = Standing
  BY <1>1, <1>2 DEF Standing, OnePathAlone, OnlyCalls, OnlyJobs, OneJob, NoFault
<1>5. CASE owned' = owned
  BY <1>1, <1>3, <1>4, <1>5, Unseen
<1>6. CASE owned' # owned
  <2>1. CommitBatch(j)
    BY <1>6 DEF JobStep, AbortBatch, Poll, Pop, ServeNext, TickAgain
  <2>2. owned' = owned \cup inserted[j] /\ inserted[j] \in SUBSET Users
    BY <2>1 DEF CommitBatch, WithCoupon, Typed, TypeOK
  <2>3. inserted[j] # {} /\ inserted[j] \cap owned = {}
    BY <1>6, <2>2 DEF BatchRules
  <2>4. Campaign!Hand(inserted[j])
    BY <1>1, <1>4, <2>2, <2>3, Handed
  <2>5. Campaign!HandToQueue(inserted[j])
    BY <1>3, <2>4 DEF Campaign!HandToQueue
  <2> QED BY <2>2, <2>5 DEF Campaign!CampaignNext
<1> QED BY <1>5, <1>6

\* A queued request drops a promise, or is not seen.
LEMMA RequestIsCampaign ==
    ASSUME Typed, CallRules, [Next]_vars, NEW u \in Users, Enqueue(u)
    PROVE  Campaign!CampaignNext
<1>1. UNCHANGED <<owned, outcome>> /\ Answering' = Answering
  BY DEF Enqueue, callVars, Answering
<1>2. Standing' \in SUBSET Standing
  BY PromisesStand
<1> QED BY <1>1, <1>2 DEF Campaign!CampaignNext, Campaign!DropPromise

\* Both paths, with all their faults, implement the campaign, for any users, calls,
\* jobs, quantity and batch size.
THEOREM ServesTheCampaign == Spec => ImplementsCampaign
<1>1. Init => Campaign!CampaignInit
  BY DEF Init, Campaign!CampaignInit, Campaign!Promises, Standing, Answering
<1>2. /\ Typed /\ BatchRules /\ CallRules /\ CallsAlone /\ Unanswered
      /\ NoOverIssue' /\ [Next]_vars
      => [Campaign!CampaignNext]_Campaign!campaignVars
  <2> SUFFICES ASSUME Typed, BatchRules, CallRules, CallsAlone, Unanswered, NoOverIssue',
                      [Next]_vars
               PROVE  [Campaign!CampaignNext]_Campaign!campaignVars
    OBVIOUS
  <2>1. ASSUME NEW u \in Users, Post(u) PROVE UNCHANGED Campaign!campaignVars
    <3>1. UNCHANGED <<owned, outcome, asked, faults>> /\ Answering' = Answering
      BY <2>1 DEF Post, jobVars, Answering, Typed, TypeOK
    <3>2. ~Joins
      BY <2>1 DEF Joins, Post, TakeLock, Enqueue, Goto, Typed, TypeOK
    <3> QED BY <3>1, <3>2, PromisesStand, Unseen
  <2>2. CASE LeaseExpires \/ Idle
    <3>1. UNCHANGED <<owned, pc, outcome, asked, faults>>
      BY <2>2 DEF LeaseExpires, Idle, callVars, jobVars
    <3>2. Answering' = Answering /\ Standing' = Standing
      BY <3>1 DEF Answering, Standing, OnePathAlone, OnlyCalls, OnlyJobs, OneJob, NoFault
    <3> QED BY <3>1, <3>2, Unseen
  <2> QED BY <2>1, <2>2, CallIsCampaign, JobIsCampaign, RequestIsCampaign, Steps
<1> QED BY <1>1, <1>2, AlwaysTyped, BatchRulesHold, CallRulesHold, CallsAloneHolds,
           UnansweredHolds, NoMoreThanQuantity, PTL
        DEF Spec, ImplementsCampaign, Campaign!CampaignSpec
=============================================================================
