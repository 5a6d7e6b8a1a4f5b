----------------------------- MODULE OrderOutbox -----------------------------
(***************************************************************************)
(* Orders and the messages about them.  OrderService.createOrder and       *)
(* updateOrderStatus open an interactive transaction and then write        *)
(* their order through the root client, on a second connection of the      *)
(* same pool: that write is committed at once, whatever becomes of the     *)
(* transaction. The transaction itself holds only the outbox row.  The     *)
(* message goes to Kafka from inside the transaction, through              *)
(* ClientKafka.emit, which queues it and returns: the code never learns    *)
(* whether it arrived, and its catch blocks are not reached by a message   *)
(* that is lost.                                                           *)
(*                                                                         *)
(* One POST /order runs createOrder twice, with a second message about     *)
(* the first order in between.  An order is named by the call that         *)
(* creates it.                                                             *)
(*                                                                         *)
(* A definition named like the one below it with a suffix (WriteInTx       *)
(* above Write) is a faulty variant of it: no action uses it, and put in   *)
(* the definition's place it makes a property of this module fail.         *)
(***************************************************************************)
EXTENDS Integers, FiniteSets

CONSTANTS
    Posts,     \* POST /order/:userId requests
    Updates,   \* calls of updateOrderStatus
    Target,    \* the order each update is about
    Crashable, \* the calls whose instance may die while serving them
    PoolSize   \* connections of an instance's Prisma pool

\* The calls of createOrder, two for each POST, and the orders they create.
Calls == Posts \X {1, 2}
Txns == Calls \cup Updates

ASSUME OrderAssumption ==
    /\ Updates \cap Calls = {}
    /\ Target \in [Updates -> Calls]
    /\ PoolSize \in Nat

\* Who hands a message to Kafka: the service inside its transaction, the
\* controller between its two calls, the scheduler from the outbox.
Senders == {"service", "controller", "scheduler"}
Messages == Txns \X Senders

VARIABLES
    pc,       \* where each call is
    tx,       \* its transaction: "none", "open", or "dead": rolled back
    draft,    \* the outbox row in the open transaction, its status
    outbox,   \* OutboxEvent.status, "NONE" without a row
    written,  \* the calls whose Order insert or update is committed
    fate      \* what became of each message

vars == <<pc, tx, draft, outbox, written, fate>>

OutboxStatus == {"NONE", "PENDING", "SENT", "PUBLISHED"}

TypeOK ==
    /\ pc \in [Txns -> {"idle", "check", "write", "outbox", "emit", "mark",
                        "commit", "ok", "failed", "crashed"}]
    /\ tx \in [Txns -> {"none", "open", "dead"}]
    /\ draft \in [Txns -> OutboxStatus]
    /\ outbox \in [Txns -> OutboxStatus]
    /\ written \subseteq Txns
    /\ fate \in [Messages -> {"unsent", "sending", "delivered", "lost"}]

Init ==
    /\ pc = [t \in Txns |-> "idle"]
    /\ tx = [t \in Txns |-> "none"]
    /\ draft = [t \in Txns |-> "NONE"]
    /\ outbox = [t \in Txns |-> "NONE"]
    /\ written = {}
    /\ fate = [m \in Messages |-> "unsent"]

-----------------------------------------------------------------------------
(* Connections.  An open transaction keeps one; a query of the root client    *)
(* needs another one for its duration.                                      *)

FreeConnection == Cardinality({t \in Txns : tx[t] = "open"}) < PoolSize

Goto(t, label) == pc' = [pc EXCEPT ![t] = label]

\* The next thing t does is a query of its own transaction.
InTx(t, label) == pc[t] = label /\ tx[t] = "open"

\* The next thing t does is a query of the root client.
AtRoot(t) == pc[t] \in {"check", "write"}

\* An exception leaves the $transaction callback, which rolls back.
Fail(t) ==
    /\ Goto(t, "failed")
    /\ tx' = [tx EXCEPT ![t] = "none"]
    /\ draft' = [draft EXCEPT ![t] = "NONE"]
    /\ UNCHANGED <<outbox, written, fate>>

Send(m) == fate' = [fate EXCEPT ![m] = "sending"]

-----------------------------------------------------------------------------
(* createOrder and updateOrderStatus *)

\* A POST's second createOrder runs after the controller's own message about
\* the first.
MayBegin(t) == \A p \in Posts : t = <<p, 2>> => fate[<<<<p, 1>>, "controller">>] # "unsent"

Begin(t) ==
    /\ pc[t] = "idle"
    /\ MayBegin(t)
    /\ FreeConnection
    /\ tx' = [tx EXCEPT ![t] = "open"]
    /\ Goto(t, "check")
    /\ UNCHANGED <<draft, outbox, written, fate>>

\* No connection within Prisma's maxWait.
RefuseBegin(t) ==
    /\ pc[t] = "idle"
    /\ MayBegin(t)
    /\ ~FreeConnection
    /\ Fail(t)

\* createOrder finds its products active and in stock; updateOrderStatus finds
\* the order.
Check(t) ==
    /\ pc[t] = "check"
    /\ FreeConnection
    /\ t \in Updates => Target[t] \in written
    /\ Goto(t, "write")
    /\ UNCHANGED <<tx, draft, outbox, written, fate>>

\* No product, no stock or no such order; or the insert names a UserCoupon that
\* does not exist: Order.couponId is given the Coupon's id.
Refuse(t) ==
    /\ FreeConnection
    /\ \/ pc[t] = "check" /\ (t \in Updates => Target[t] \notin written)
       \/ pc[t] = "write" /\ t \in Calls
    /\ Fail(t)

\* The write through the root client, whether the transaction is still open or
\* not: the coupon query before it would notice, and its error is only logged.
WriteInTx(t) ==
    /\ InTx(t, "write")
    /\ Goto(t, IF t \in Calls THEN "outbox" ELSE "emit")
    /\ UNCHANGED <<tx, draft, outbox, written, fate>>
Write(t) ==
    /\ pc[t] = "write"
    /\ FreeConnection
    /\ written' = written \cup {t}
    /\ Goto(t, IF t \in Calls THEN "outbox" ELSE "emit")
    /\ UNCHANGED <<tx, draft, outbox, fate>>

\* A query of the root client finds no connection within the pool's timeout.
RootTimesOut(t) ==
    /\ AtRoot(t)
    /\ ~FreeConnection
    /\ Fail(t)

WriteOutbox(t) ==
    /\ InTx(t, "outbox")
    /\ draft' = [draft EXCEPT ![t] = "PENDING"]
    /\ Goto(t, "emit")
    /\ UNCHANGED <<tx, outbox, written, fate>>

Emit(t) ==
    /\ pc[t] = "emit"
    /\ Send(<<t, "service">>)
    /\ Goto(t, IF t \in Calls THEN "mark" ELSE "commit")
    /\ UNCHANGED <<tx, draft, outbox, written>>

MarkSent(t) ==
    /\ InTx(t, "mark")
    /\ draft' = [draft EXCEPT ![t] = "SENT"]
    /\ Goto(t, "commit")
    /\ UNCHANGED <<tx, outbox, written, fate>>

CommitUnchecked(t) ==
    /\ pc[t] = "commit"
    /\ tx' = [tx EXCEPT ![t] = "none"]
    /\ outbox' = [outbox EXCEPT ![t] = draft[t]]
    /\ Goto(t, "ok")
    /\ UNCHANGED <<draft, written, fate>>
Commit(t) ==
    /\ InTx(t, "commit")
    /\ tx' = [tx EXCEPT ![t] = "none"]
    /\ outbox' = [outbox EXCEPT ![t] = draft[t]]
    /\ Goto(t, "ok")
    /\ UNCHANGED <<draft, written, fate>>

\* The controller's message about the first order, before its second call.
AnnounceAgain(p) ==
    /\ pc[<<p, 1>>] = "ok"
    /\ pc[<<p, 2>>] = "idle"
    /\ fate[<<<<p, 1>>, "controller">>] = "unsent"
    /\ Send(<<<<p, 1>>, "controller">>)
    /\ UNCHANGED <<pc, tx, draft, outbox, written>>

-----------------------------------------------------------------------------
(* Failures, Kafka and the scheduler *)

\* Prisma's transaction timeout, or a lost connection.
TxDies(t) ==
    /\ tx[t] = "open"
    /\ tx' = [tx EXCEPT ![t] = "dead"]
    /\ draft' = [draft EXCEPT ![t] = "NONE"]
    /\ UNCHANGED <<pc, outbox, written, fate>>

\* The next query of the dead transaction throws.  After the message that is in
\* the try block, whose catch block throws again on the same transaction.
NoticeDeathLate(t) ==
    /\ tx[t] = "dead"
    /\ pc[t] = "commit"
    /\ Fail(t)
NoticeDeath(t) ==
    /\ tx[t] = "dead"
    /\ pc[t] \in {"outbox", "mark", "commit"}
    /\ Fail(t)

Crash(t) ==
    /\ t \in Crashable
    /\ pc[t] \notin {"idle", "ok", "failed", "crashed"}
    /\ Goto(t, "crashed")
    /\ tx' = [tx EXCEPT ![t] = "none"]
    /\ draft' = [draft EXCEPT ![t] = "NONE"]
    /\ UNCHANGED <<outbox, written, fate>>

Deliver(m) ==
    /\ fate[m] = "sending"
    /\ fate' = [fate EXCEPT ![m] = "delivered"]
    /\ UNCHANGED <<pc, tx, draft, outbox, written>>

\* The brokers cannot be reached, or the process ends with the message queued.
Lose(m) ==
    /\ fate[m] = "sending"
    /\ fate' = [fate EXCEPT ![m] = "lost"]
    /\ UNCHANGED <<pc, tx, draft, outbox, written>>

\* processEvents selects the rows with status INIT that are also PENDING or
\* FAILED.
DueUnlessPublished == {t \in Txns : outbox[t] \notin {"NONE", "PUBLISHED"}}
Due == {t \in Txns : outbox[t] = "INIT" /\ outbox[t] \in {"PENDING", "FAILED"}}

\* A run of the cron job: each row it has selected is sent and marked.
Tick ==
    /\ fate' = [m \in Messages |->
                  IF m \in Due \X {"scheduler"} THEN "sending" ELSE fate[m]]
    /\ outbox' = [t \in Txns |-> IF t \in Due THEN "PUBLISHED" ELSE outbox[t]]
    /\ UNCHANGED <<pc, tx, draft, written>>

-----------------------------------------------------------------------------
\* A call that has begun goes on.
Step(t) ==
    \/ Check(t) \/ Refuse(t) \/ Write(t) \/ RootTimesOut(t) \/ WriteOutbox(t)
    \/ Emit(t) \/ MarkSent(t) \/ Commit(t) \/ TxDies(t) \/ NoticeDeath(t)

Next ==
    \/ \E t \in Txns : Begin(t) \/ RefuseBegin(t) \/ Step(t) \/ Crash(t)
    \/ \E p \in Posts : AnnounceAgain(p)
    \/ \E m \in Messages : Deliver(m) \/ Lose(m)
    \/ Tick

Spec == Init /\ [][Next]_vars

\* Node and MySQL go on with a call once it has begun, the timeouts of Prisma
\* being such steps.
FairSpec ==
    /\ Spec
    /\ \A t \in Txns : WF_vars(Step(t))

-----------------------------------------------------------------------------
(* Properties *)

\* No message speaks of an order, or of a status, that is not in the database,
\* whatever rolls back or dies: the write is committed before the message.
EventsAfterWrites ==
    \A t \in Txns, s \in Senders :
        fate[<<t, s>>] # "unsent" =>
            t \in written /\ (t \in Updates => Target[t] \in written)

\* A caller that gets its order back has it in the table with its outbox row.
AnsweredIsRecorded ==
    \A c \in Calls : pc[c] = "ok" => c \in written /\ outbox[c] = "SENT"

\* The only repeated messages are the controller's own: an order is announced
\* once, the first of a POST twice, however often the scheduler runs.
AnnouncedByTheCode ==
    \A p \in Posts, n \in {1, 2} :
        Cardinality({s \in Senders : fate[<<<<p, n>>, s>>] # "unsent"}) <= 3 - n

\* When transactions hold every connection and each waits for one more, the
\* timeouts untie them: each call that has begun ends.
EveryCallEnds ==
    \A t \in Txns : pc[t] = "check" ~> pc[t] \in {"ok", "failed", "crashed"}

\* order.service.ts says of the status SENT that it is set when the message was
\* sent successfully.
SentIsNotLost ==
    \A c \in Calls : outbox[c] = "SENT" => fate[<<c, "service">>] # "lost"
=============================================================================
