-------------------------- MODULE OrderOutboxProofs --------------------------
(***************************************************************************)
(* No message without its order, and no answer without its record, for     *)
(* any number of requests, status updates and connections.                 *)
(***************************************************************************)
EXTENDS OrderOutbox, FiniteSetTheorems, TLAPS

\* The write behind a message or an answer: the call's own, and for an update
\* also that of the order it is about.
Backed(t) == t \in written /\ (t \in Updates => Target[t] \in written)

\* The inductive invariant.  Once past its write a call is backed; a message is
\* backed; the row that is about to be committed is SENT, and so is the row of a
\* call that is answered.
OutboxInv ==
    /\ TypeOK
    /\ \A t \in Txns : pc[t] \in {"outbox", "emit", "mark", "commit", "ok"} => Backed(t)
    /\ \A t \in Updates : pc[t] = "write" => Target[t] \in written
    /\ \A t \in Updates : pc[t] \notin {"outbox", "mark"}
    /\ \A m \in Messages : fate[m] # "unsent" => Backed(m[1])
    /\ \A c \in Calls : pc[c] = "commit" /\ tx[c] = "open" => draft[c] = "SENT"
    /\ \A c \in Calls : pc[c] = "ok" => outbox[c] = "SENT"

LEMMA InvInit == Init => OutboxInv
BY OrderAssumption DEF Init, OutboxInv, TypeOK, Messages, Txns, Calls, Senders, OutboxStatus

\* The scheduler's condition asks for two different statuses of one row.
LEMMA NothingDue == Due = {}
BY DEF Due

LEMMA FailKeepsInv ==
    ASSUME OutboxInv, NEW t \in Txns, Fail(t)
    PROVE  OutboxInv'
BY OrderAssumption
   DEF OutboxInv, Fail, Goto, TypeOK, Backed, Messages, Txns, Calls, OutboxStatus

LEMMA InvStep == OutboxInv /\ [Next]_vars => OutboxInv'
<1> SUFFICES ASSUME OutboxInv, [Next]_vars
             PROVE  OutboxInv'
  OBVIOUS
<1> USE OrderAssumption
<1>1. ASSUME NEW t \in Txns, Begin(t)
      PROVE  OutboxInv'
  BY <1>1 DEF OutboxInv, Begin, Goto, TypeOK, Backed, Messages, Txns, Calls, OutboxStatus
<1>2. ASSUME NEW t \in Txns, RefuseBegin(t) \/ Refuse(t) \/ RootTimesOut(t) \/ NoticeDeath(t)
      PROVE  OutboxInv'
  BY <1>2, FailKeepsInv DEF RefuseBegin, Refuse, RootTimesOut, NoticeDeath
<1>3. ASSUME NEW t \in Txns, Check(t)
      PROVE  OutboxInv'
  BY <1>3 DEF OutboxInv, Check, Goto, TypeOK, Backed, Messages, Txns, Calls, OutboxStatus
<1>4. ASSUME NEW t \in Txns, Write(t)
      PROVE  OutboxInv'
  BY <1>4 DEF OutboxInv, Write, Goto, TypeOK, Backed, Messages, Txns, Calls, OutboxStatus
<1>5. ASSUME NEW t \in Txns, WriteOutbox(t)
      PROVE  OutboxInv'
  BY <1>5 DEF OutboxInv, WriteOutbox, InTx, Goto, TypeOK, Backed, Messages, Txns, Calls, OutboxStatus
<1>6. ASSUME NEW t \in Txns, Emit(t)
      PROVE  OutboxInv'
  BY <1>6 DEF OutboxInv, Emit, Send, Goto, TypeOK, Backed, Messages, Senders, Txns, Calls, OutboxStatus
<1>7. ASSUME NEW t \in Txns, MarkSent(t)
      PROVE  OutboxInv'
  BY <1>7 DEF OutboxInv, MarkSent, InTx, Goto, TypeOK, Backed, Messages, Txns, Calls, OutboxStatus
<1>8. ASSUME NEW t \in Txns, Commit(t)
      PROVE  OutboxInv'
  <2>1. TypeOK'
    BY <1>8 DEF OutboxInv, Commit, InTx, Goto, TypeOK
  <2>2. \A c \in Calls : pc'[c] = "ok" => outbox'[c] = "SENT"
    BY <1>8 DEF OutboxInv, Commit, InTx, Goto, TypeOK, Txns
  <2>3. \A c \in Txns : pc'[c] \in {"outbox", "emit", "mark", "commit", "ok"} => Backed(c)'
    BY <1>8 DEF OutboxInv, Commit, InTx, Goto, TypeOK, Backed
  <2>4. \A u \in Updates : /\ pc'[u] = "write" => Target[u] \in written'
                           /\ pc'[u] \notin {"outbox", "mark"}
    BY <1>8 DEF OutboxInv, Commit, InTx, Goto, TypeOK, Txns
  <2>5. \A m \in Messages : fate'[m] # "unsent" => Backed(m[1])'
    BY <1>8 DEF OutboxInv, Commit, Backed
  <2>6. \A c \in Calls : pc'[c] = "commit" /\ tx'[c] = "open" => draft'[c] = "SENT"
    BY <1>8 DEF OutboxInv, Commit, InTx, Goto, TypeOK, Txns
  <2> QED
    BY <2>1, <2>2, <2>3, <2>4, <2>5, <2>6 DEF OutboxInv
<1>9. ASSUME NEW p \in Posts, AnnounceAgain(p)
      PROVE  OutboxInv'
  <2> DEFINE c == <<p, 1>>
             m == <<c, "controller">>
  <2>1. c \in Txns /\ m \in Messages /\ m[1] = c
    BY DEF Txns, Calls, Messages, Senders
  <2>2. fate' = [fate EXCEPT ![m] = "sending"] /\ UNCHANGED <<pc, tx, draft, outbox, written>>
    BY <1>9 DEF AnnounceAgain, Send
  <2>3. Backed(c)
    BY <1>9, <2>1 DEF AnnounceAgain, OutboxInv
  <2> HIDE DEF c, m
  <2> QED
    BY <2>1, <2>2, <2>3 DEF OutboxInv, TypeOK, Backed
<1>10. ASSUME NEW t \in Txns, TxDies(t)
       PROVE  OutboxInv'
  BY <1>10 DEF OutboxInv, TxDies, TypeOK, Backed, Messages, Txns, Calls, OutboxStatus
<1>11. ASSUME NEW t \in Txns, Crash(t)
       PROVE  OutboxInv'
  BY <1>11 DEF OutboxInv, Crash, Goto, TypeOK, Backed, Messages, Txns, Calls, OutboxStatus
<1>12. ASSUME NEW m \in Messages, Deliver(m) \/ Lose(m)
       PROVE  OutboxInv'
  BY <1>12 DEF OutboxInv, Deliver, Lose, TypeOK, Backed, OutboxStatus
<1>13. ASSUME Tick
       PROVE  OutboxInv'
  <2>1. fate' = fate /\ outbox' = outbox
    BY <1>13, NothingDue DEF Tick, OutboxInv, TypeOK
  <2> QED
    BY <1>13, <2>1 DEF OutboxInv, Tick, TypeOK, Backed
<1>14. ASSUME UNCHANGED vars
       PROVE  OutboxInv'
  BY <1>14 DEF OutboxInv, vars, TypeOK, Backed
<1> QED
  BY <1>1, <1>2, <1>3, <1>4, <1>5, <1>6, <1>7, <1>8, <1>9, <1>10, <1>11, <1>12, <1>13, <1>14
     DEF Next, Step

\* The invariant holds throughout.
THEOREM OutboxInvariant == Spec => []OutboxInv
<1>1. Init => OutboxInv
  BY InvInit
<1>2. OutboxInv /\ [Next]_vars => OutboxInv'
  BY InvStep
<1> QED
  BY <1>1, <1>2, PTL DEF Spec

\* No message leaves the service about an order or a status that is not
\* committed, however calls, rollbacks and crashes interleave.
THEOREM NoPhantomEvents == Spec => []EventsAfterWrites
<1>1. OutboxInv => EventsAfterWrites
  BY DEF OutboxInv, EventsAfterWrites, Backed, Messages
<1> QED
  BY <1>1, OutboxInvariant, PTL

\* Who is given an order finds it in the table, with its outbox row.
THEOREM AnswersAreRecorded == Spec => []AnsweredIsRecorded
<1>1. OutboxInv => AnsweredIsRecorded
  BY DEF OutboxInv, AnsweredIsRecorded, Backed, Txns
<1> QED
  BY <1>1, OutboxInvariant, PTL

-----------------------------------------------------------------------------
(* Repetitions *)

\* The two senders that never say anything: the scheduler about any order, and
\* the controller about the second of a POST.
Quiet ==
    /\ \A t \in Txns : fate[<<t, "scheduler">>] = "unsent"
    /\ \A p \in Posts : fate[<<<<p, 2>>, "controller">>] = "unsent"

LEMMA QuietStep ==
    ASSUME TypeOK, Quiet, [Next]_vars
    PROVE  Quiet'
<1>1. /\ \A t \in Txns : <<t, "scheduler">> \in Messages
      /\ \A p \in Posts : <<<<p, 2>>, "controller">> \in Messages
  BY DEF Messages, Senders, Txns, Calls
<1>2. ASSUME UNCHANGED fate
      PROVE  Quiet'
  BY <1>2 DEF Quiet
<1>3. ASSUME NEW t \in Txns, Emit(t)
      PROVE  Quiet'
  <2>1. fate' = [fate EXCEPT ![<<t, "service">>] = "sending"]
    BY <1>3 DEF Emit, Send
  <2>2. \A m \in Messages : m # <<t, "service">> => fate'[m] = fate[m]
    BY <2>1 DEF TypeOK
  <2> QED BY <1>1, <2>2 DEF Quiet
<1>4. ASSUME NEW p \in Posts, AnnounceAgain(p)
      PROVE  Quiet'
  <2>1. fate' = [fate EXCEPT ![<<<<p, 1>>, "controller">>] = "sending"]
    BY <1>4 DEF AnnounceAgain, Send
  <2>2. \A m \in Messages : m # <<<<p, 1>>, "controller">> => fate'[m] = fate[m]
    BY <2>1 DEF TypeOK
  <2>3. \A q \in Posts : <<<<q, 2>>, "controller">> # <<<<p, 1>>, "controller">>
    OBVIOUS
  <2> QED BY <1>1, <2>2, <2>3 DEF Quiet
<1>5. ASSUME NEW m \in Messages, Deliver(m) \/ Lose(m)
      PROVE  Quiet'
  <2>1. fate[m] = "sending" /\ \A n \in Messages : n # m => fate'[n] = fate[n]
    BY <1>5 DEF Deliver, Lose, TypeOK
  <2> QED BY <1>1, <2>1 DEF Quiet
<1>6. ASSUME Tick
      PROVE  Quiet'
  <2>1. fate' = fate
    BY <1>6, NothingDue DEF Tick, TypeOK
  <2> QED BY <1>2, <2>1
<1>7. ASSUME NEW t \in Txns,
             Begin(t) \/ RefuseBegin(t) \/ Check(t) \/ Refuse(t) \/ Write(t) \/ RootTimesOut(t)
               \/ WriteOutbox(t) \/ MarkSent(t) \/ Commit(t) \/ TxDies(t) \/ NoticeDeath(t)
               \/ Crash(t)
      PROVE  UNCHANGED fate
  BY <1>7 DEF Begin, RefuseBegin, Check, Refuse, Write, RootTimesOut, WriteOutbox, MarkSent,
     Commit, TxDies, NoticeDeath, Crash, Fail
<1>8. CASE UNCHANGED vars
  BY <1>2, <1>8 DEF vars
<1> QED
  BY <1>2, <1>3, <1>4, <1>5, <1>6, <1>7, <1>8 DEF Next, Step

\* An order is announced once, the first of a POST twice: the scheduler, which
\* looks for rows no transaction leaves, repeats nothing.
THEOREM NoOtherAnnouncement == Spec => []AnnouncedByTheCode
<1>1. Init => Quiet
  BY DEF Init, Quiet, Messages, Senders, Txns, Calls
<1>2. TypeOK /\ Quiet /\ [Next]_vars => Quiet'
  BY QuietStep
<1>3. ASSUME Quiet
      PROVE  AnnouncedByTheCode
  <2> SUFFICES ASSUME NEW p \in Posts, NEW n \in {1, 2}
               PROVE  Cardinality({s \in Senders : fate[<<<<p, n>>, s>>] # "unsent"}) <= 3 - n
    BY DEF AnnouncedByTheCode
  <2> DEFINE sent == {s \in Senders : fate[<<<<p, n>>, s>>] # "unsent"}
  <2>1. <<p, n>> \in Txns
    BY DEF Txns, Calls
  <2>2. sent \subseteq {"service", "controller"} /\ (n = 2 => sent \subseteq {"service"})
    BY <1>3, <2>1 DEF Quiet, Senders
  <2> DEFINE one == {"service"}
             two == one \cup {"controller"}
  <2>3. IsFiniteSet(one) /\ Cardinality(one) = 1
    BY FS_Singleton
  <2>4. IsFiniteSet(two) /\ Cardinality(two) = 2
    BY <2>3, FS_AddElement, "controller" \notin one
  <2>5. sent \subseteq two /\ (n = 2 => sent \subseteq one)
    BY <2>2
  <2> HIDE DEF sent, one, two
  <2>6. IsFiniteSet(sent) /\ Cardinality(sent) <= 2
    BY <2>4, <2>5, FS_Subset
  <2>7. n = 2 => Cardinality(sent) <= 1
    BY <2>3, <2>5, FS_Subset
  <2>8. Cardinality(sent) \in Nat
    BY <2>6, FS_CardinalityType
  <2>9. Cardinality(sent) <= 3 - n
    BY <2>6, <2>7, <2>8
  <2> QED BY <2>9 DEF sent
<1>4. OutboxInv => TypeOK
  BY DEF OutboxInv
<1> QED BY <1>1, <1>2, <1>3, <1>4, OutboxInvariant, PTL DEF Spec
=============================================================================
