# A TLA+ model of the e-commerce service

The repository is a NestJS shop: products, a cart, orders, payments from a user
balance, first-come-first-served coupons. It keeps its rows in MySQL (through
Prisma), its locks, queues and a cache in Redis, and announces orders on Kafka.
Several instances of the service may run at once. Every HTTP call is one async
handler, so two calls interleave at every `await`.

This directory holds TLA+ models of the parts where that interleaving matters,
TLC configurations that check them on small instances, and TLAPS proofs of what
matters most for every value of the constants. `PROJECT.json` maps each
definition to the lines it models (paths below are under `src/src/`).

## Inventory

| Component | State | Operations | Hard behaviour | What makes it correct |
|---|---|---|---|---|
| Payments (`domain/payment`) | Payment rows, Order.status, stock | `processPayment`, `cancelPayment` | Redlock keys around and inside a SERIALIZABLE transaction, refusals half way, timeouts, crashes | one payment per order, one refund per payment, stock and money accounted for |
| Balances (`domain/balance`) | UserBalance, BalanceHistory | `chargeBalance`, `deductBalance` | a first top-up inserts the row; no Redlock key around top-ups | no lost top-up, never negative, history chains |
| Distributed locks (`infrastructure/redis`) | one Redis key per resource | `acquireLock`, `releaseLock` | leases that run out, a release that fails silently | critical sections, keys come back |
| Coupon issue (`domain/coupon`) | FcfsCoupon, UserCoupon, a Redis set and a Redis queue | `issueFcfsCoupon`, the cron job | two paths with two counts, marks outside the transaction, 5 s leases, the end of the campaign | quantity, one coupon per user, count agrees with table |
| Coupon use (`domain/order`, `domain/coupon`, the order orchestrator) | UserCoupon, the discount and the link of an Order | the price in `createOrder`, `handlePaymentCompletion` | found at the order, used up after the payment, named by two kinds of id | a discount has a row behind it, a used row a paid order |
| Orders, outbox, Kafka (`domain/order`, `infrastructure/outbox`, `infrastructure/kafka`) | Order, OutboxEvent, messages | `createOrder`, `updateOrderStatus`, `processEvents`, `emit` | writes outside the transaction, messages before the commit, lost messages, the connection pool | no message without an order, no loss unnoticed |
| Orchestrators (`orchestration`) | none of their own | event handlers | events in any order, second deduction of stock and money, refunds, chains that die with their instance | the saga keeps what payments promise |
| Cart (`domain/cart`, its controller and orchestrator) | UserCart | add, update, remove, check out | read, then write; a checkout that runs on the rows it has read; a stock out of the cache | no row vanishes unannounced, twice or for a stranger |
| Products and cache (`domain/product`, `infrastructure/cache`) | the memory of each instance | `getOrSet` | nothing invalidates, fetches cross, two TTLs | bounded staleness, readers not sent back |
| Start-up (`main.ts`, `infrastructure/database`) | a flag file on disk, a database shared by all instances | create, migrate, seed, connect, listen | no foreign keys, crashes between seed and flag, instances that start together, releases | an instance that serves is ready, seeds refer to rows, starts end |
| Payment statistics | counters in memory | `updateStatistics` | - | - |
| HTTP shell, guards, interceptors, logging | - | - | - | - |

How they interact: the controllers call the services directly; some also emit an
event on the in-process emitter (`payment.controller.ts:35`,
`coupon.controller.ts:66`), which an orchestrator answers by doing the same work
a second time. Payments and balances share a transaction; orders and payments
share the Order row; the cron jobs share their tables with the handlers.
`interfaces/controllers` holds no state. The database that all of them share is the
one that whichever instance started first has set up.

The hazards of this code, each at its line, are listed in `PROJECT.json`.

## Modules

| Module | Role |
|---|---|
| `ShopData` | the parameters of the payment modules and the assumptions on them |
| `PaymentLedger` | what payments and balances promise: each request takes effect in one step or not at all |
| `Payments` | the handlers step by step: Redlock keys, row locks, drafts, commits, failures |
| `Totals` | sums over the rows of a table, written so that they can be proved about |
| `PaymentAccounts` | what was sold, spent and charged in `Payments` |
| `PaymentsInvariant` | the inductive invariant `LocksCover` |
| `PaymentsProofs` | the theorems about `Payments` |
| `PaymentSaga`, `PaymentSagaProofs` | what the events of `POST /payment` do on top of it, composed with the steps of `PaymentLedger`; theorems |
| `CouponCampaign` | what a campaign promises: one coupon per user in one step, true answers, and the quantity while one path serves it alone |
| `CouponIssue`, `CouponIssueProofs` | both paths that hand out a coupon; that they implement the campaign; theorems |
| `CouponUse`, `CouponUseProofs` | what a coupon is worth to an order, and what uses it up; theorems |
| `OrderOutbox`, `OrderOutboxProofs` | `createOrder`, `updateOrderStatus`, the outbox and Kafka; theorems |
| `Cart`, `CartProofs` | the cart, its checkout and the product cache it asks; theorems |
| `ProductCache`, `ProductCacheProofs` | `getOrSet` with a clock; theorems |
| `Startup`, `StartupProofs` | from the start of a process to its first request; theorems |
| `MCPayments`, `MCPaymentSaga`, `MCCouponIssue`, `MCCouponUse`, `MCOrderOutbox`, `MCCart`, `MCProductCache`, `MCStartup` | the instances TLC checks |

Each component module ends with the properties it is checked for. A definition
with a suffix and the name of the one below it (`PayableWhenPaid` above
`Payable`) is a faulty variant: a slip the code could have had. No action uses it;
in the definition's place it makes a property fail, which is how each property
was shown to say something.

### Payments and the code

A request is one HTTP call; what it asks for is a function of its identity, so it
also names the payment row it creates. `pc` is the statement the handler has
reached, `todo` and `cur` are the item loop, `tx` is Prisma's interactive
transaction (`dead` once the database has rolled it back and the handler does not
know), `lock` is Redis, `shared` and `excl` are InnoDB's row locks.

| Actions | Code (`payment.repository.prisma.ts` unless named) |
|---|---|
| `TakeOuterLock`, `RefuseOuterLock`, `Unlock` | `order:` key at 18, `payment:` key at 96, the outer `finally` |
| `ReadRequest` | 21-29 inside the transaction; 100-105 outside it |
| `ReadItem`, `ItemsRead` | `findMany` at 31-34, one row lock after the other |
| `TakeProductLock`, `MoveStock` | the item loop 37-54 and 112-122, the key released before the commit |
| `TakeBalanceLock`, `Deduct`, `CreditRow`, `CreditGap`, `CreditInsert` | 56-66 and 124-133 with `balance.repository.prisma.ts:23-106` |
| `Record`, `Commit` | 68-89 and 135-148 |
| `Refuse`, `RefuseInnerLock`, `RefuseBegin`, `TxDies`, `NoticeDeath`, `Throw` | the thrown errors and what the `finally` blocks and Prisma do with them |
| `StartCharge` and the credit actions | `chargeBalance` without a transaction |
| `Patch` | `order.service.ts:176-209`, as one update |
| `Crash`, `LeaseExpires` | an instance dies; a 30 s lease runs out |

Modelling choices a reader should know:

- All reads of a SERIALIZABLE transaction take shared row locks, all writes and
  `FOR UPDATE` take exclusive ones, and they last to the end of the transaction.
  The missing balance row is locked as a gap, which two requests can share.
- A row has a committed value and a draft. The Redis clients behind Redlock are
  one holder per key.
- `findMany` has no `orderBy`: the lines of an order come in any order. Two lines
  for the same variant are merged into one.
- `processPayment` decides on `Order.status` alone and `cancelPayment` on the
  payment row it has read outside the transaction.
- A top-up is written down as `REFUND`, like a refund: that is what the repository
  does, although the answer documented in `balance.controller.ts:33` says `CHARGE`.
- Nothing validates an amount: `balance.controller.ts:38` takes the raw number, and
  the `@Min(0)` of `ChargeBalanceDto` is used by no route. Top-ups and prices may be
  negative here.
- A lease cannot run out under an open transaction: Prisma gives a transaction
  at most 2 s to start and 5 s to live (its defaults, which the code does not
  change), and the lease is 30 s (`redis.redlock.ts:9`).

### The payment saga and the code

`POST /payment` emits PAYMENT_INITIATED and pays (`payment.controller.ts:31-52`).
Each post has two payment attempts, `DirectOf` and `SagaOf`, both requests of
`PaymentLedger`; `Payments` shows that the repository makes each of them one step.
`saga` says how far the chain of a post has come, `events` are the events whose
handler has not written yet, and any of them may be next. `faults` are the kinds of
failure a behaviour has, drawn from `FaultSets` at its start.

| Actions | Code (`orchestration/orchestrators/`) |
|---|---|
| `Request`, `DirectPays`, `DirectRefused` | `payment.controller.ts:31-52` |
| `Initiate`, `SagaPays`, `SagaRefused` | `payment.orchestrator.ts:19-78` |
| `Deduct`, `RecordDeduction`, `RefuseDeduction`, `Refund`, `RecordRefund` | `balance.orchestrator.ts:21-94`: the inner transaction of `BalanceService`, then the outer one with a second history line |
| `CompletePayment`, `FailPayment` | `order.orchestrator.ts:63-105` |
| `ReadStock`, `WriteStock` | `product.orchestrator.ts:45-86`; the comment at 49 speaks of a lock, `findUnique` takes none at the default isolation level |
| `Crash` | the instance of a post dies; the emitter is in its memory, and so are the events and the handlers of the post |

Left out: the statistics, the line `ProductStockHistory` that `WriteStock` adds and
nothing reads (`product.orchestrator.ts:75-85`), and the coupon that
`CompletePayment` uses up (`order.orchestrator.ts:90-98`), which is `CouponUse`. A
handler whose transaction fails for good is one that never takes its step; no
fairness is assumed of the handlers of `events`, nor of the controller.

### Coupons and the code

`TakeLock` to `Unlock` are the statements of `coupon.service.ts:88-142`. One HTTP
request makes two calls, the controller's own and the one of the event it emits:
`Post` starts all the calls of a user. `Poll` to `CommitBatch` are
`coupon-issue.scheduler.ts:21-79`, each job an instance's ticks one after the
other. `faults` says what may go wrong in a behaviour; it is chosen from
`FaultSets` at the start and never changes, so that one run covers several fault
models and a property can name the ones it withstands. Nothing in the repository
calls `addToRequestQueue`; `Queued` is there to check the job as it is written.

`End` is the `endDate`: from then on calls are refused, and
`findAvailableFcfsCoupons` (`coupon.repository.prisma.ts:33-38`) no longer returns the
campaign, so that its queue is never served again. The model begins at the
`startDate`, before which nothing is issued, and the campaign is on the one page of
100 that the job asks for: of more campaigns than that the job never sees the rest.
Whatever fails for one user of a batch is swallowed (`coupon-issue.scheduler.ts:73`):
a lookup or an insert loses the request (`query`), a mark or a decrement after the
insert leaves its row (`mark`).

`CouponUse` begins where the row is there:

| Actions | Code |
|---|---|
| `Issue` | the insert of either path, with the next id |
| `Price` | `order.service.ts:53-86`: the total, the search for an AVAILABLE row, the minimum, the discount, the id to connect |
| `Write`, `Refuse` | `order.service.ts:88-162` with `order.repository.prisma.ts`: `connect` wants the row to exist, nothing compares its user or coupon |
| `Pay`, `Cancel` | what `PaymentLedger` does to the order's status |
| `SetPaid`, `Spend`, `Lose` | `order.orchestrator.ts:63-98`, two updates and a failure |

Ids are numbers here, because the code takes one for another: the `couponId` of the
request is a Coupon id where the coupon is looked for and a UserCoupon id where it is
linked (`schema.prisma` says `coupon UserCoupon?`). A failed insert draws an id that
no row gets; such gaps are left out, since to a link they are rows that are not there.
Totals and terms are any integers: no code compares a discount with its total, or the
sign of a price or of an amount with zero.

### Orders and the code

`Begin` to `Commit` are `order.service.ts:30-168`, and 176-209 for the members of
`Updates`. `FreeConnection` is Prisma's pool: a transaction keeps a connection and
each query through the root client needs another. `fate` is what becomes of each
message: `emit` only makes it `sending`. `Tick` is one run of the cron job over
the rows it selects, and it selects none (`outbox.service.ts:20`).

### The cart and the code

`POST /cart/:userId` adds a row and emits CART_CHECKOUT_REQUESTED, which takes the
whole cart of the user to an order, and nobody creates that order. A row is named
by the POST that creates it; there is no unique index, so the same variant twice is
two rows. A task is one caller's read and write of one row: a PATCH, a DELETE, or
one of the removals a checkout starts.

| Actions | Code |
|---|---|
| `Post`, `AddRow`, `RefuseRow` | `cart.service.ts:19-37`, `cart.controller.ts:35-46` |
| `Hit`, `Miss`, `Fetch`, `Fill` | `getOrSet`, `cache.service.ts:22-29`: what was fetched is cached, however old it is by then |
| `ReadCart`, `CartEmpty` | `cart.orchestrator.ts:13-62` |
| `HandleOrderCreated` | the stock checks (they look the product up and stop nothing), and `order.orchestrator.ts:24-61` |
| `Begin`, `Find`, `Update`, `Delete`, `WriteFails` | `cart.service.ts:39-56`; a row that is gone when it is written is Prisma's P2025 |

ORDER_CREATED has no `orderId` here (`cart.orchestrator.ts:39-49`), so the payment
it starts finds no order, and none is created, although the comments at 34 and 51
say so; the cart is emptied all the same. The removals run under one `Promise.all`
and the answer of each is its own: one that fails stops none of the others. A PATCH
answered between a checkout's read and its removal is lost with the row. A checkout
that dies between them, or whose removals the database refuses, leaves its rows; a
behaviour of the model may stop at any step, and nothing is claimed of rows that stay.
The payments that move the stock are `StockMoves`, any stock at any time; the cache is
the memory of one instance.

### The product cache and the code

`Ask`, `Hit`, `Miss`, `Fetch`, `Fill` are `cache.service.ts:22-29` as
`product.service.ts` calls it for a detail and for the popular products; the store
behind it (`cache-manager`) is external and modelled as a map from keys to a value
and a time. A value is the time at which it was read from the database: what it
shows of a product is as old as that, so no product needs to change in the model.
`Restart` empties the memory of an instance. `FetchMax` bounds the time between the
read of a fetch and its set; nothing in the code does, so the guarantees are stated in
its terms.

### Start-up and the code

| Actions | Code |
|---|---|
| `Start`, `Check` | `main.ts:15-54`, `database.setup.ts:43-49, 291-297` |
| `Create` | `CREATE DATABASE IF NOT EXISTS`, `database.config.ts:18-41` |
| `LockMigration`, `ApplyMigration`, `BreakMigration`, `EndMigration` | the `prisma migrate` command that `runPrismaCommand` starts; external, with its advisory lock and its refusal to go on after a failed migration |
| `DrawIds`, `Seed`, `SeedFails`, `SeedEnds` | `runSeed`: seven `createMany` with `skipDuplicates`, each an INSERT IGNORE that draws its ids and commits by itself |
| `Mark` | `markAsInitialized`, the flag file |
| `Connect`, `NoDatabase`, `Ping`, `Listen` | `main.ts:56-77`, `prisma.service.ts`, `redis.service.ts`, `kafka.module.ts` |
| `Fail`, `Stop` | `process.exit(1)`, the death of a process, SIGINT |
| `Deploy`, `Recreate` | what operators do: a new release on a disk that is kept, a dropped volume |

A table counts how often its seed rows are there: a unique index keeps them from
being there twice (`Keyed`), nothing does for the other tables. The seeds name ids
1, 2, ... of other tables as numbers, and `relationMode = "prisma"` puts no foreign
key behind them. MySQL draws ids once, when a row is inserted and not when it is
committed: `drawing` are the setups whose open insert has drawn the first ids of its
table, `there` the tables that have rows with those ids, and `gaps` the tables that
have lost them, because that insert was rolled back or because INSERT IGNORE skipped
rows another setup had committed with the same keys. A setup that runs beside the
first may commit rows of its own, with later ids, and go on to rows that name ids 1,
2, ... before those are committed, or when they never will be.

The migration is the command as production runs it, `migrate deploy`. Without
`NODE_ENV=production` the code runs `migrate dev --name init`
(`database.setup.ts:303-305`), which also compares the schema with the files and may
ask before it goes on; that is not modelled. The command is a child process
(`database.setup.ts:23-41`) without a timeout, taken to end by itself; one that
outlives its parent is taken to be over, and its lock free, when the parent dies, and
to have broken its migration if one was left to apply. An insert of a process that
dies is committed or rolled back at its death.

## What the runs check

| Run | Instance | What it shows |
|---|---|---|
| `payments_race` | two payments of one order, two cancellations of the first, one instance may die | types, one payment per order, PAID and payment together, stock, critical sections, cancellation final, refinement of the ledger |
| `payments_crash` | two orders of the same two variants, one piece of each, one instance may die | the inductive invariant, nothing oversold; every request ends; every key comes back |
| `payments_topup` | a user without a balance row: two top-ups and a negative one, a payment, a stranger's payment, a manual cancellation | money accounted for, history; only the negative top-up overdraws |
| `saga_paths` | two POSTs for one order, or for two orders of one variant, one of them at a negative price; faults {record} or {refund, crash} | one payment per order, nothing below zero, every amount traceable, failed payments refunded |
| `saga_charges` (violation) | one POST, no transaction that fails and no death | the amount is taken twice |
| `coupon_paths` | two users, three calls, a job, both users queued, one coupon, the end of the campaign; faults {abort, query}, {lease}, {mark} or {crash} | which of quantity, count, marks, stock and queue survives what; refinement of the campaign |
| `coupon_use` | the two calls of one POST of a user, with a coupon worth more than the order; a call of another user, below the minimum of his; three rows issued meanwhile | discounts backed, used rows paid for, coupons of paid orders used up, no second discount for a user whose row has the number he names |
| `outbox_orders` | one POST and two status updates on a pool of two | messages only for committed writes, answers recorded, no unintended repetition, no standstill |
| `outbox_lost` (violation) | one POST | SENT for a lost message |
| `cart_rows` | a user with two POSTs, a PATCH and a DELETE, a stranger's DELETE, stock 0 or 1 | no row vanishes unannounced or for a stranger, none is removed twice |
| `product_cache` | one request for a detail, three for the popular products, four ticks of ten minutes | how stale an answer can be, how far back a reader can be sent |
| `startup` | two instances with disks of their own (two starts and one), two releases, two databases | serving means ready, what seeds refer to was drawn before, settled databases stay, starts end |

Bounds. Two requests per contended key are enough for every race on it: a third
waits like the second. Two variants are the least that makes the item loop take keys
in different orders; two pieces less than demanded make somebody lose. One coupon
for two users makes "empty" happen on either path, and three calls are the least
with a repeated request and a rival. Two posts are four attempts to pay one order,
with a stock that would allow a second one and a balance that covers two of the
three bookings one POST can make; in the other half of that run (`Arrivals`) the
second POST is for another order of the same variant, so that a stock handler writes
back over its payment. Two POSTs for one user are two checkouts that read the same
rows, and with a DELETE and a PATCH every row has a rival. A pool of two connections
is the smallest in which one transaction can finish, and the smallest that two
transactions exhaust.

In `coupon_use` the grant of the first coupon to the second user is what makes the
ids of rows and coupons differ: issued first, it is row 1, which the first user's
request then names. In `product_cache` one unit is ten minutes, so that
the TTLs of 600 s and 1800 s are 1 and 3 and a fetch may take a unit; four units
outlive both, and three requests are a reader, a writer and the one who overtakes
him. The proofs do without these bounds. In `startup` three starts are one that fails,
one that repeats it and one that overlaps.

The bounds `MaxStarts`, `MaxDatabases` and `MaxTime` are guards of the actions that
count; no state constraint is used, and no symmetry, the requests being told apart by
what they ask for. Deadlock is checked in every run: `Finished` is the only way to
stop in `Payments`, `CouponIssue`, `CouponUse` and `Startup`, `Quiet` in
`PaymentSaga`; in `OrderOutbox` the cron job can always tick, in `Cart` the stock can
always move and in `ProductCache` an instance can always restart, so that deadlock
checking says nothing there; of these three only `OrderOutbox` has calls that wait for
one another, and `EveryCallEnds` says that they end.

Fairness. `WF` on the steps of a request that has begun: Node's event loop and MySQL
go on, and where they would wait for one another forever the timeouts are steps too
(Redlock gives up after 10 retries, `redis.redlock.ts:15-21`; Prisma's `maxWait`,
transaction and pool timeouts). In `PaymentSaga` it is on the chain of a saga, which
an instance that lives goes on with and a `Crash` ends; in `CouponIssue` on the cron
job, whose expression fires again, and on no call; in `CouponUse` on the handler of
an event that was emitted; in `Startup` on the steps of a start. `WF` on the expiry
of a lease: Redis drops the key. No fairness on arrivals, crashes, faults, lost
messages or deliveries, and none at all in `Cart` and `ProductCache`, where nothing
has to happen.

### What the faults break

The properties of `CouponIssue` say in their premises how far they go
(`NoFault`, `OnlyCalls`, `OnlyJobs`, `OneJob`), because the code gives no more:

- a lost SADD leaves a coupon that is not counted: one more is issued later;
- a lease that runs out in the middle of a call (5 s, less than the wait for a
  transaction can last) lets a second call count before the first has marked;
- two jobs each pop a batch for the same last coupons, and a job and calls each
  issue on a count the other does not see;
- with both paths in use each coupon of the job counts twice for the calls, once as a
  mark and once as a decrement, so that they say "empty" too early;
- an aborted batch leaves its users marked in Redis without a coupon, so a direct
  call refuses them, and its requests are gone from the queue;
- a mark or a decrement that fails inside a batch leaves its row;
- a lookup or an insert that fails inside a batch loses the request;
- after the `endDate` nobody looks at the queue, whoever is in it.

What survives all of these is the unique index, and with it what
`ImplementsCampaign` says of every behaviour: a coupon, or a batch of them, is given
in one step to users that had none, and a call is told of a success for the coupon
it has given itself. The two promises that do depend on the path, the quantity and
the truth of a refusal, are a variable of `CouponCampaign` (`kept`, here
`Standing`): a step can drop them, and none takes them up again.

In the same way `FailureIsRefunded` speaks of behaviours in which no instance dies
and no refund fails: the chain of events is in the memory of one process, and the
amount stays with the saga when it is cut. `ServingIsReady` speaks of instances
whose flag was written for the database and the release they run on. `RefersToRows`
says how a seed row comes to name nothing: only while an insert that drew the ids is
open, or because they were lost; it does not say that they are there. `SettledStays`
waits until every disk has its flag: until then a restart seeds again and doubles
what no key protects (coupons, campaigns, products, images). `SpentForGood` is
stated for each user who owns the row whose id is the number he names: of all
holders of one coupon that is at most one, and every other keeps his coupon for any
number of orders.

## Findings

Two are runs, with the lines quoted in `PROJECT.json`: one POST /payment takes its
amount twice, by its saga and by itself (`saga_charges`), and the outbox says SENT of
lost messages (`outbox_lost`). The others were met while modelling, and follow from
the modules as they stand:

- An order can be paid, PATCHed to SHIPPING and paid again, since only PAID and
  CANCELLED are refused (`payment.repository.prisma.ts:28`), while the tests of
  `processPayment` expect the second payment to fail.
- `issueFcfsCoupon` never decrements `stockQuantity` (`coupon.service.ts:114-128`);
  `coupon.service.integration.spec.ts:125` expects 0 after the last coupon.
- A coupon gives its discount to every order that is priced before the first of them
  is paid and handled, the two orders of one POST among them, and a payment that is
  cancelled does not give it back: the handler of its PAYMENT_COMPLETED uses the
  coupon up, and sets the order to PAID again, even when it comes after the
  cancellation. The repository's `README.md:299` says that a coupon is deducted with
  the order and restored when the payment fails. No property asks for either.
- A request's `couponId` is looked up as a Coupon and linked as a UserCoupon. Once
  a second user owns a coupon, the linked row is another one, of another user
  perhaps, or there is none and the order is refused. A user whose row has another
  number than his coupon never uses it up.
- Nothing compares a discount with the total (`order.service.ts:74-86`): a FIXED
  coupon worth more than the order, or a percentage above 100, makes its final price
  negative, and paying it adds to the balance.
- A top-up may be negative (`balance.controller.ts:38`), and overdraws a balance. So
  does the refund of a negative price that was spent before.
- An instance that dies between the saga's deduction and its refund leaves the amount
  deducted, and nothing finds it later.
- An expired coupon still counts: the search compares the status alone.
- The flag file says that some database was set up by some release. With a new
  release, or a recreated database, the instance skips migration and seed and serves
  on what is there.
- `order.service.ts:126` says that the outbox row is saved before the message is
  sent; `emit` at 139 sends inside the transaction that may still roll the row back,
  so a message may arrive that the outbox has no row for.
- The checkout of a cart creates no order, and removes its rows all the same (see
  above).
- Requests that are still queued at a campaign's `endDate` are never answered, and
  those whose batch fails are lost (see above).
- Two instances that set up at once can leave seed rows that name ids which were
  drawn and lost (see above).

## What is proved

All proofs are checked by TLAPS for every value of the constants, under the
assumptions of their modules: the parameters are well typed, a payment is
cancelled by its identity, stock, balances and quantities start at or above zero
(`ShopData`, `PaymentSaga`); every kind of request has members of its own
(`OrderOutbox`, `Cart`); there are finitely many users (`CouponIssue`). Nothing is
assumed of amounts, prices, discounts and terms but that they are integers.

- `TypeCorrect`: `Spec => []TypeOK`.
- `Covered`: `Spec => []LocksCover`. None of the safety properties is inductive:
  they speak of committed rows, and what a commit writes was read and drafted many
  steps earlier. `LocksCover` says why it is still true then. The outer key is
  held as long as the transaction is open (`KeyHeld`); row locks belong to open
  transactions (`RowLocks`); what a request was accepted on still holds, for the
  order by its shared row lock and for the payment, which is read outside the
  transaction, by the `payment:` key alone (`Accepted`); each draft differs from
  its row by exactly what its holder has done (`StockDrafts`, `BalanceDrafts`).
  The proof has one step per action and under it one per part.
- `OneInSection` (`CriticalSection`) and `NeverBelowZero` (`NeverNegative`) follow.
  The second says that no stock is below zero, and a balance only after a negative
  top-up or the refund of a negative price.
- `Refines`: `Spec => ImplementsLedger`. With `LocksCover`, a commit is one step of
  the ledger on the rows as they are, `Patch` is one too, every other step
  stutters.
- `HistoryUnbroken` (`HistoryChains`), `PaidOnce` (`OnePaymentPerOrder`),
  `PaidMeansPayment` (`PaidIffPayment`) and `CancelledForGood` (`CancelIsFinal`) are
  then proved about the ledger's steps, which are few. The last three are false when
  anybody may patch an order to any status (see the findings), and each assumes no
  more than it has to: `PaidOnce` that patches write statuses in which an order
  cannot be paid (`PatchesClose`), `CancelledForGood` that they only cancel
  (`PatchesCancel`), `PaidMeansPayment` that there are none and that no order starts
  as PAID.
- `NothingLost` (`StockAccounted`) and `NoMoneyLost` (`MoneyAccounted`), again about
  the ledger's steps and with no assumption on patches. A sum over a set is usually
  a fold, about which these provers can show nothing, for that takes induction.
  `Totals` counts units instead: a row worth n stands for n pairs, one worth -n for
  n missing ones, and the sum is the difference of the two cardinalities, so that
  the library's facts about finite sets give what a row that comes or goes does to
  it (`TotalWith`, `TotalWithout`). `TotalIsSum` in `MCPayments` has TLC compare
  this with a fold on small tables. What the induction needs besides is that
  finitely many requests have been served, each payment row by one of them
  (`Answered`).
- `SagaPaysOnce` (`OnePaymentPerOrder`) and `SagaNeverBelowZero` (`NeverNegative`) of
  `PaymentSaga`, by the invariant `SagaInv`: an order with a completed payment is
  PAID or CANCELLED, whatever the handlers write (`PaidIsClosed`), and a stock
  handler between its read and its write has seen enough (`SeenEnough`), whatever
  other orders of the variant have taken in between. What does
  not survive the saga: that PAID and a completed payment go together (the saga's
  PAYMENT_FAILED cancels an order the controller has paid), and that stock and sales
  add up.
- `MoneyIsTraceable` (`MoneyTraceable`) of `PaymentSaga`: each saga holds what it has
  deducted from its deduction to its refund, and finitely many have begun
  (`MoneyInv`). It holds for any interleaving of sagas and payments of one user, any
  amounts, any failed refund and any death.
- `OutboxInvariant`, `NoPhantomEvents` (`EventsAfterWrites`), `AnswersAreRecorded`
  (`AnsweredIsRecorded`) and `NoOtherAnnouncement` (`AnnouncedByTheCode`) for
  `OrderOutbox`. The last one rests on two senders that stay silent (`Quiet`): the
  scheduler, whose selection is empty whatever the table holds, and the controller
  about the second order of a POST.
- `NoneVanishes` (`GoneIsAnnounced`) and `NoneRemovedTwice` (`RemovedOnce`) for
  `Cart`, by the invariant `RowsInv`: a removal exists only for what its checkout
  has read, whoever is past its find names a row of its own user, and a row some
  removal succeeded for is gone, so that every later one fails.

- For `CouponIssue`, with any number of users, calls and jobs: `TypeCorrect`,
  `SucceedsOnce` (no user is told of a success twice), `MarksAgree`
  (`MarksMatchRows`), `StockRemains` (`StockIsRemainder`), `NobodyTurnedAway`
  (`EmptyMeansEmpty`) and `NoMoreThanQuantity` (`NoOverIssue`). `BatchRules` and
  `CallRules` hold through every fault: only the job that holds the row has rows and
  decrements under way, never more decrements than rows, and none of the rows is in
  the table yet; a call that is past its insert, or has been told of a success, is
  the only one of its user. Three more carry a count from where it is read to where
  it is used: `CallsAlone` (without a job the stock never moves, so what a call has
  read is the quantity, and there are never more marks than rows), `CallsInTurn`
  (while leases last and marks succeed, the holder of the key is the only call
  between its count and its mark, so that marks and rows differ by him alone) and
  `JobAlone` (a lone job's rows and decrements are equally many, and fit into the
  stock it has read). `ServesTheCampaign` (`ImplementsCampaign`) puts them together,
  step by step: an insert is a coupon for the caller, a commit of the job one for
  its whole batch, disjoint from the table by `BatchRules`; an answer comes once
  (`Unanswered`), and a refusal is true by `CallsAlone`; promises stand until a call
  takes its lock or a request is queued (`PromisesStand`); every other step is one
  the campaign does not see.
- For `ProductCache`, with any number of instances, keys and requests:
  `StaleNoLonger` (`BoundedStaleness`), because an entry's end lies at most its TTL
  and one fetch after its read (`Staleness`), and `NoFurtherBack`
  (`BackByOneFetch`), because an entry is never more than one fetch older than
  anything answered before (`CacheKeepsUp`), and what a fetch is about to set was
  read one fetch ago at most.

- For `CouponUse`: `DiscountHasReasons` (`DiscountBacked`), `NotUsedForNothing`
  (`UsedIsPaid`) and `NoSecondDiscount` (`SpentForGood`). Between the search and the
  mark nothing holds the row; what makes the properties true is that rows never go,
  that a call's link is settled before its order is written, the order before it is
  paid, and the payment before the handler reads it (`Sequence`, `Found`,
  `Connected`). The terms may be any integers. In `NoSecondDiscount` the user's row is
  the one with the number he names (`NamesOwnRow`), and by the unique index he has no
  other of that coupon (`RowsDiffer`): the search has to find it, and the handler of
  whichever order was linked to it has used it up.
- For `Startup`, with any number of instances, disks, releases and databases:
  `ReadyToServe` (`ServingIsReady`), `SeedsRefer` (`RefersToRows`) and
  `SettledForGood` (`SettledStays`). `StartupInv` says what an instance may rely on
  while others migrate, seed, fail or recreate the database: the seeds before `next`
  are there and its schema is (`Seeding`), a flag of this database was written after
  the last of them (`Flagged`), an open insert that has drawn ids is one of a setup
  at that table (`Drawing`), and seeds come in the order of their references with the
  ids of the named table drawn (`InOrder`). It holds because no step but `Recreate`
  takes anything away (`StepKinds`), and nobody is up then.

The type invariants of `OrderOutbox`, `PaymentSaga`, `Cart`, `CouponIssue`,
`CouponUse`, `Startup` and `ProductCache` are proved, as theorems or as parts of
these invariants, and no run repeats them.

Only model-checked: the liveness properties (`EveryRequestEnds`, `LocksComeBack`,
`QueuedAreServed`, `EveryCallEnds`, `FailureIsRefunded`, `PaidIsUsed`,
`EveryStartEnds`), which rest on fairness, and fairness on ENABLED, which
the prover does not reason about. Every invariant and every action property of the
passing runs is a theorem.

## What is not modelled

- Wording, logging, the HTTP filter and guards, authentication: no state of the shop.
- The listing queries with their pages and filters: reads that nothing waits for.
- The pessimistic-lock interceptor, which no route uses; the payment statistics,
  counters of one process that nothing reads; the mock of the data platform.
- Functions without a caller: `updateOrderItemStock`, `updatePaymentStatus`,
  `CouponRepositoryPrisma.issueFcfsCoupon`, `CacheService.del`,
  `OutboxService.createEvent` but for a throw that never comes.
- The validation of a coupon by event (`coupon.orchestrator.ts`) and the stock check
  of a product page: they write nothing, and nobody listens to what they emit.
- `scripts/`, which makes test data for load tests outside the service.
- Prices but for the discount of a coupon; the payload of messages; duplicates that
  Kafka itself makes, which are left to consumers the repository does not have.

## Plan

Done: payments, balances and locks (`Payments`, refining `PaymentLedger`), then the
outbox, the coupons (`CouponIssue`, refining `CouponCampaign`), the payment saga, the
cart, the use of coupons, the product cache and the start-up, each with its runs, and
proofs of all their safety properties. Left: the cart's checkout against an abstract
cart, as `Payments` has it with the ledger.
