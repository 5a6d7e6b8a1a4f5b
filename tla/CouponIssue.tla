----------------------------- MODULE CouponIssue -----------------------------
(***************************************************************************)
(* First-come-first-served coupons.  One FcfsCoupon is handed out by two   *)
(* paths that share its row, the UserCoupon table and a Redis set:         *)
(* CouponService.issueFcfsCoupon, called for every request under a         *)
(* Redlock key (twice per HTTP request: once by the controller, once by    *)
(* the CouponOrchestrator for the event the controller emits), and the     *)
(* cron job CouponIssueScheduler.processCouponRequests, which serves a     *)
(* Redis queue. Nothing in the repository calls addToRequestQueue:         *)
(* Queued is empty for the service as it is wired, and not empty to        *)
(* check the job as written.                                               *)
(*                                                                         *)
(* A definition named like the one below it with a suffix is a faulty      *)
(* variant of it: no action uses it, and put in the definition's place     *)
(* it makes a property of this module fail.                                *)
(***************************************************************************)
EXTENDS Integers, FiniteSets, Sequences

CONSTANTS
    Users,       \* UserAccount rows
    Calls,       \* calls of issueFcfsCoupon
    CallerOf,    \* the user each call is for
    Jobs,        \* runs of the cron job: instances and overlapping ticks
    Queued,      \* the users for whom addToRequestQueue is called
    Quantity,    \* FcfsCoupon.totalQuantity, the initial stockQuantity
    BatchSize,   \* CouponIssueScheduler.BATCH_SIZE
    FaultSets,   \* sets of FaultKinds: a behaviour has the faults of one of them
    None

\* lease: a lock's 5 s lease runs out while its holder is still at work
\* mark:  SADD fails, or in a batch the decrement of the stock after it
\* crash: an instance dies
\* abort: the transaction of a batch outlives Prisma's 5 s
\* query: one user's lookup or insert in a batch fails
FaultKinds == {"lease", "mark", "crash", "abort", "query"}

ASSUME CouponAssumption ==
    /\ IsFiniteSet(Users)
    /\ CallerOf \in [Calls -> Users]
    /\ Queued \subseteq Users
    /\ Quantity \in Nat /\ BatchSize \in Nat \ {0}
    /\ FaultSets \subseteq SUBSET FaultKinds
    /\ None \notin Calls /\ None \notin Jobs

VARIABLES
    faults,   \* what may go wrong in this behaviour
    over,     \* FcfsCoupon.endDate has passed
    pc,       \* where each call is
    seen,     \* the stockQuantity a call has read
    outcome,  \* "none", "ok", "lock", "refused", "issued", "empty" or "error"
    lock,     \* the Redlock key fcfs-coupon:<id>
    stock,    \* FcfsCoupon.stockQuantity
    owned,    \* the users with a UserCoupon row; (userId, couponId) is unique
    issued,   \* the Redis set fcfs:coupon:<id>:issued
    queue,    \* the Redis sorted set fcfs:coupon:<id>:requests, oldest first
    asked,    \* the users that have been queued
    jpc,      \* where each job is
    jseen,    \* the stockQuantity a job has read
    batch,    \* the users a job has popped and not handled yet
    inserted, \* the UserCoupon rows of a job's open transaction
    taken,    \* the stock decrements of a job's open transaction
    row       \* the job that holds the FcfsCoupon row, or None

callVars == <<faults, over, pc, seen, outcome>>
jobVars == <<faults, over, jpc, jseen, batch, inserted, taken, row>>
vars == <<callVars, lock, stock, owned, issued, queue, asked, jobVars>>

TypeOK ==
    /\ faults \in FaultSets
    /\ over \in BOOLEAN
    /\ pc \in [Calls -> {"idle", "start", "load", "known", "count", "insert",
                         "mark", "unlock", "done", "crashed"}]
    /\ seen \in [Calls -> Int]
    /\ outcome \in [Calls -> {"none", "ok", "lock", "refused", "issued", "empty", "error"}]
    /\ lock \in Calls \cup {None}
    /\ stock \in Int
    /\ owned \subseteq Users
    /\ issued \subseteq Users
    /\ queue \in Seq(Users)
    /\ asked \subseteq Queued
    /\ jpc \in [Jobs -> {"start", "pop", "batch", "done", "crashed"}]
    /\ jseen \in [Jobs -> Int]
    /\ batch \in [Jobs -> Seq(Users)]
    /\ inserted \in [Jobs -> SUBSET Users]
    /\ taken \in [Jobs -> Nat]
    /\ row \in Jobs \cup {None}

\* From the startDate on: before it every call is refused and no job looks.
Init ==
    /\ faults \in FaultSets
    /\ over = FALSE
    /\ pc = [c \in Calls |-> "idle"]
    /\ seen = [c \in Calls |-> 0]
    /\ outcome = [c \in Calls |-> "none"]
    /\ lock = None
    /\ stock = Quantity
    /\ owned = {}
    /\ issued = {}
    /\ queue = <<>>
    /\ asked = {}
    /\ jpc = [j \in Jobs |-> "start"]
    /\ jseen = [j \in Jobs |-> 0]
    /\ batch = [j \in Jobs |-> <<>>]
    /\ inserted = [j \in Jobs |-> {}]
    /\ taken = [j \in Jobs |-> 0]
    /\ row = None

-----------------------------------------------------------------------------
(* What both paths use *)

\* findExistingUserCoupon
Existing(u) == u \in owned

\* createUserCoupon
WithCoupon(users) == owned \cup users

\* markAsIssued: SADD; getIssuedCount: SCARD
WithMarkForgotten(u) == issued
WithMark(u) == issued \cup {u}
IssuedCount == Cardinality(issued)

-----------------------------------------------------------------------------
(* issueFcfsCoupon *)

Goto(c, label) == pc' = [pc EXCEPT ![c] = label]

\* An exception: the finally block releases the lock and the caller is told.
Fail(c, why) ==
    /\ Goto(c, "unlock")
    /\ outcome' = [outcome EXCEPT ![c] = why]

\* POST /coupons/fcfs/:id/issue emits COUPON_ISSUE_REQUESTED, whose handler calls
\* the service, and calls it itself: both calls are under way at once.
Post(u) ==
    /\ \E c \in Calls : CallerOf[c] = u /\ pc[c] = "idle"
    /\ pc' = [c \in Calls |-> IF CallerOf[c] = u /\ pc[c] = "idle" THEN "start" ELSE pc[c]]
    /\ UNCHANGED <<seen, outcome, lock, stock, owned, issued, queue, asked, jobVars>>

LockFreeAlways == TRUE
LockFree == lock = None

TakeLock(c) ==
    /\ pc[c] = "start"
    /\ LockFree
    /\ lock' = c
    /\ Goto(c, "load")
    /\ UNCHANGED <<seen, outcome, stock, owned, issued, queue, asked, jobVars>>

\* Retries used up or no quorum of Redis clients.
RefuseLock(c) ==
    /\ pc[c] = "start"
    /\ Goto(c, "done")
    /\ outcome' = [outcome EXCEPT ![c] = "lock"]
    /\ UNCHANGED <<seen, lock, stock, owned, issued, queue, asked, jobVars>>

\* findFcfsCouponById: the committed row, its stock kept for later.  After its
\* endDate the coupon is refused.
Load(c) ==
    /\ pc[c] = "load"
    /\ IF over
       THEN Fail(c, "refused") /\ UNCHANGED seen
       ELSE /\ seen' = [seen EXCEPT ![c] = stock]
            /\ Goto(c, "known")
            /\ UNCHANGED outcome
    /\ UNCHANGED <<lock, stock, owned, issued, queue, asked, jobVars>>

\* hasIssued: SISMEMBER.
CheckIssued(c) ==
    /\ pc[c] = "known"
    /\ IF CallerOf[c] \in issued
       THEN Fail(c, "issued")
       ELSE Goto(c, "count") /\ UNCHANGED outcome
    /\ UNCHANGED <<seen, lock, stock, owned, issued, queue, asked, jobVars>>

\* The Redis count against the stock read before.
ExhaustedEarly(c) == IssuedCount + 1 >= seen[c]
Exhausted(c) == IssuedCount >= seen[c]

CheckCount(c) ==
    /\ pc[c] = "count"
    /\ IF Exhausted(c)
       THEN Fail(c, "empty")
       ELSE Goto(c, "insert") /\ UNCHANGED outcome
    /\ UNCHANGED <<seen, lock, stock, owned, issued, queue, asked, jobVars>>

\* The transaction: a second check in the database, then the insert.  A coupon
\* that has been used is not found by the check, but the unique index refuses
\* the insert ("error").  It waits for an uncommitted insert of the same key.
\* The stock is left as it is.
RefusedTwice(u) == Existing(u)

Issue(c) ==
    LET u == CallerOf[c]
    IN  /\ pc[c] = "insert"
        /\ \A j \in Jobs : u \notin inserted[j]
        /\ IF RefusedTwice(u)
           THEN (\E why \in {"issued", "error"} : Fail(c, why)) /\ UNCHANGED owned
           ELSE /\ owned' = WithCoupon({u})
                /\ Goto(c, "mark")
                /\ UNCHANGED outcome
        /\ UNCHANGED <<seen, lock, stock, issued, queue, asked, jobVars>>

\* markAsIssued, after the commit.
Mark(c) ==
    /\ pc[c] = "mark"
    /\ \/ /\ issued' = WithMark(CallerOf[c])
          /\ Fail(c, "ok")
       \/ /\ "mark" \in faults
          /\ Fail(c, "error")
          /\ UNCHANGED issued
    /\ UNCHANGED <<seen, lock, stock, owned, queue, asked, jobVars>>

\* releaseLock: it deletes the key only if it is still this call's.
Unlock(c) ==
    /\ pc[c] = "unlock"
    /\ lock' = IF lock = c THEN None ELSE lock
    /\ Goto(c, "done")
    /\ UNCHANGED <<seen, outcome, stock, owned, issued, queue, asked, jobVars>>

Crash(c) ==
    /\ "crash" \in faults
    /\ pc[c] \notin {"idle", "start", "done", "crashed"}
    /\ Goto(c, "crashed")
    /\ UNCHANGED <<seen, outcome, lock, stock, owned, issued, queue, asked, jobVars>>

\* The lease of the lock is 5 s and acquire() does not renew it.
LeaseOver(c) == "lease" \in faults \/ pc[c] \in {"done", "crashed"}

LeaseExpires ==
    /\ lock # None
    /\ LeaseOver(lock)
    /\ lock' = None
    /\ UNCHANGED <<callVars, stock, owned, issued, queue, asked, jobVars>>

-----------------------------------------------------------------------------
(* processCouponRequests *)

\* addToRequestQueue: ZADD with the current time.
Enqueue(u) ==
    /\ u \in Queued \ asked
    /\ asked' = asked \cup {u}
    /\ queue' = Append(queue, u)
    /\ UNCHANGED <<callVars, lock, stock, owned, issued, jobVars>>

JGoto(j, label) == jpc' = [jpc EXCEPT ![j] = label]

\* findAvailableFcfsCoupons: only a coupon with stock whose endDate has not passed
\* is processed.  It asks for one page of 100; this coupon is on it.
Found == stock > 0 /\ ~over

Poll(j) ==
    /\ jpc[j] = "start"
    /\ jseen' = [jseen EXCEPT ![j] = stock]
    /\ JGoto(j, IF Found THEN "pop" ELSE "done")
    /\ UNCHANGED <<callVars, lock, stock, owned, issued, queue, asked,
                   batch, inserted, taken, row>>

\* getRequestUsers: ZPOPMIN of at most min(BATCH_SIZE, the stock read before).
PopSizeWhole(j) == BatchSize
PopSize(j) == IF jseen[j] < BatchSize THEN jseen[j] ELSE BatchSize

RestOfQueueNone(n) == <<>>
RestOfQueue(n) == SubSeq(queue, n + 1, Len(queue))

Pop(j) ==
    /\ jpc[j] = "pop"
    /\ LET n == IF PopSize(j) < Len(queue) THEN PopSize(j) ELSE Len(queue)
       IN  /\ batch' = [batch EXCEPT ![j] = SubSeq(queue, 1, n)]
           /\ queue' = RestOfQueue(n)
           /\ JGoto(j, IF n = 0 THEN "done" ELSE "batch")
    /\ UNCHANGED <<callVars, lock, stock, owned, issued, asked,
                   jseen, inserted, taken, row>>

\* findFcfsCouponWithLock: FOR UPDATE, kept to the end of the batch.
LockRow(j) == row \in {None, j} /\ row' = j

\* One turn of the loop for the next popped user.  A user that has the coupon is
\* skipped; otherwise the row is inserted, the user marked in Redis at once,
\* and the stock decremented.  Whatever fails, the catch block goes on to the
\* next user: before the insert this one's request is gone with nothing done,
\* after it the inserted row stays and the stock is not decremented.
ServeNext(j) ==
    LET u == Head(batch[j])
    IN  /\ jpc[j] = "batch"
        /\ batch[j] # <<>>
        /\ LockRow(j)
        /\ batch' = [batch EXCEPT ![j] = Tail(@)]
        /\ \/ /\ Existing(u) \/ u \in inserted[j] \/ "query" \in faults
              /\ UNCHANGED <<inserted, issued, taken>>
           \/ /\ ~Existing(u) /\ u \notin inserted[j]
              /\ inserted' = [inserted EXCEPT ![j] = @ \cup {u}]
              /\ \/ /\ issued' = WithMark(u)
                    /\ taken' = [taken EXCEPT ![j] = @ + 1]
                 \/ /\ "mark" \in faults
                    /\ issued' \in {issued, WithMark(u)}
                    /\ UNCHANGED taken
        /\ UNCHANGED <<callVars, lock, stock, owned, queue, asked, jpc, jseen>>

EndBatch(j, label) ==
    /\ JGoto(j, label)
    /\ inserted' = [inserted EXCEPT ![j] = {}]
    /\ taken' = [taken EXCEPT ![j] = 0]
    /\ row' = IF row = j THEN None ELSE row

\* decreaseFcfsCouponStock, once for every coupon of the batch.
StockWithout(n) == stock
StockAfter(n) == stock - n

CommitBatch(j) ==
    /\ jpc[j] = "batch"
    /\ batch[j] = <<>>
    /\ owned' = WithCoupon(inserted[j])
    /\ stock' = StockAfter(taken[j])
    /\ EndBatch(j, "done")
    /\ UNCHANGED <<callVars, lock, issued, queue, asked, jseen, batch>>

\* The transaction is rolled back or the instance dies: rows and decrements are
\* gone, the marks in Redis and the popped requests are not brought back.
AbortBatch(j) ==
    /\ jpc[j] = "batch"
    /\ \/ "abort" \in faults /\ EndBatch(j, "done")
       \/ "crash" \in faults /\ EndBatch(j, "crashed")
    /\ batch' = [batch EXCEPT ![j] = <<>>]
    /\ UNCHANGED <<callVars, lock, stock, owned, issued, queue, asked, jseen>>

\* The cron expression fires again; each job stands for one instance's ticks,
\* one after the other.
TickAgain(j) ==
    /\ jpc[j] = "done"
    /\ queue # <<>>
    /\ Found
    /\ JGoto(j, "start")
    /\ UNCHANGED <<callVars, lock, stock, owned, issued, queue, asked,
                   jseen, batch, inserted, taken, row>>

-----------------------------------------------------------------------------
\* The endDate passes.
End ==
    /\ ~over
    /\ over' = TRUE
    /\ UNCHANGED <<faults, pc, seen, outcome, lock, stock, owned, issued, queue, asked,
                   jpc, jseen, batch, inserted, taken, row>>

CallStep(c) ==
    \/ TakeLock(c) \/ RefuseLock(c) \/ Load(c) \/ CheckIssued(c)
    \/ CheckCount(c) \/ Issue(c) \/ Mark(c) \/ Unlock(c)

JobStep(j) ==
    \/ Poll(j) \/ Pop(j) \/ ServeNext(j) \/ CommitBatch(j) \/ TickAgain(j)

\* All calls are over, and no request is left that a job could serve.
Finished ==
    /\ \A c \in Calls : pc[c] \in {"done", "crashed"}
    /\ \A j \in Jobs : jpc[j] \in {"done", "crashed"}
    /\ asked = Queued
    /\ queue = <<>> \/ ~Found \/ \A j \in Jobs : jpc[j] = "crashed"
    /\ lock = None
    /\ UNCHANGED vars

Next ==
    \/ \E c \in Calls : CallStep(c) \/ Crash(c)
    \/ \E j \in Jobs : JobStep(j) \/ AbortBatch(j)
    \/ \E u \in Users : Post(u) \/ Enqueue(u)
    \/ LeaseExpires
    \/ End
    \/ Finished

Spec == Init /\ [][Next]_vars

\* The cron job goes on and its expression fires again.  Nothing makes a user ask,
\* a call get its lock or an instance fail.
FairSpec == Spec /\ \A j \in Jobs : WF_vars(JobStep(j))

-----------------------------------------------------------------------------
(* Properties *)

\* Which of the two paths has been used: each of them keeps count in its own
\* way, one by the Redis set, the other by stockQuantity.
OnlyCalls == asked = {}
OnlyJobs == \A c \in Calls : pc[c] \in {"idle", "start"} \/ outcome[c] = "lock"
OneJob == \A j, k \in Jobs : j = k

NoFault(kinds) == faults \cap kinds = {}

\* Only calls are made, and their leases last and their marks succeed; or only one
\* job works, and its marks succeed.
OnePathAlone ==
    \/ OnlyCalls /\ NoFault({"lease", "mark", "crash"})
    \/ OnlyJobs /\ OneJob /\ NoFault({"mark"})

\* As long as one path alone serves the campaign, no more coupons are handed out
\* than it has, though its count is taken before its write: the calls as long as
\* the lease that covers both lasts and every mark is made, one job as long as
\* every mark is made, through failed queries, aborted batches and crashes.
\* Two jobs both pop a batch for the same last coupon.
NoOverIssue == OnePathAlone => Cardinality(owned) <= Quantity

\* "Coupon stock is empty" is the truth: as long as only calls are made, nobody is
\* turned away while coupons are left, whatever goes wrong.
EmptyMeansEmpty ==
    OnlyCalls => \A c \in Calls : outcome[c] = "empty" => Cardinality(owned) >= Quantity

\* The Redis set that the count rests on agrees with the table.  Only a batch
\* that is rolled back leaves marks without coupons, and only a mark that
\* fails or a crash leaves coupons without marks.
MarksMatchRows ==
    /\ NoFault({"abort", "crash"}) =>
          \A u \in issued : u \in owned \/ \E j \in Jobs : u \in inserted[j]
    /\ NoFault({"mark", "crash"}) =>
          \A u \in owned : u \in issued \/ \E c \in Calls : pc[c] = "mark" /\ CallerOf[c] = u

\* stockQuantity is what is left of the campaign, through rolled back batches:
\* the job decrements it together with the rows it inserts.  A mark that fails
\* leaves it too high, and nothing too low.
StockIsRemainder ==
    OnlyJobs => /\ stock >= Quantity - Cardinality(owned)
                /\ NoFault({"mark"}) => stock = Quantity - Cardinality(owned)

\* A queued request is not forgotten: while the campaign lasts it is served or the
\* stock runs out, unless what was popped for it is lost with its batch or by a
\* failed query.  Once the endDate has passed nobody looks at the queue.
QueuedAreServed ==
    \A u \in Users :
        u \in asked /\ NoFault({"abort", "crash", "query"}) ~> u \in owned \/ ~Found

-----------------------------------------------------------------------------
(* The campaign that the two paths implement *)

\* The calls between their commit and their answer, and the promises of each state.
Answering == {c \in Calls : pc[c] = "mark"}
Standing ==
    (IF OnePathAlone THEN {"quantity"} ELSE {}) \cup (IF OnlyCalls THEN {"answers"} ELSE {})

Campaign == INSTANCE CouponCampaign
    WITH pending <- Answering, told <- outcome, kept <- Standing

\* Both paths together, with all their faults, are one campaign: the index on
\* (userId, couponId) and the checks before it make every coupon, and every
\* batch of them, one step, given once to a user that had none; a call answers
\* with a success exactly for the coupon it has given, however often the request
\* is repeated, by hand or by the event that every HTTP request sends along; and
\* until the other path joins in, refusals by calls are true and the quantity is
\* kept, as far as the faults of OnePathAlone leave it.
ImplementsCampaign == Campaign!CampaignSpec
=============================================================================
