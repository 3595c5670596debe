# CartNova: a verification project

CartNova is a shop built from Go microservices: an API gateway and the user,
product, order, inventory and notification services, with PostgreSQL, MongoDB,
Redis and Kafka behind them. This directory holds TLA+ models of the parts
whose correctness depends on the order in which things happen, the TLC
configurations that check them on small instances, and proofs checked by TLAPS.

`PROJECT.json` is the index: components, runs, the map from definitions to
source lines, hazards, findings, theorems, and for every checked property a
*mutant*, a plausible bug of the code under which TLC finds it violated.

Contents: [inventory](#1-inventory) - [the code as it is](#2-the-code-as-it-is)
- [modules](#3-modules) - [runs](#4-runs) - [fairness](#5-fairness) -
[proofs](#6-proofs) - [findings](#7-findings) -
[not modelled](#8-not-modelled) - [plan](#9-plan)

## 1. Inventory

### The parts and how they interact

    client --HTTP--> gateway --HTTP--> user, product, order, inventory, notification
    client <--WebSocket--> gateway <--WebSocket--> notification (Hub)
    order      --gRPC--> user (GetUser), product (GetProduct)
    order      --order-events------> Kafka --> inventory    (group cartnova-inventory)
                                           --> notification (its own group)
    inventory  --inventory-events--> Kafka --> order        (its own group)

The life of an order: `POST /orders` passes the gateway, asks the user service
for the buyer and the product service for every price, inserts the row and
publishes `OrderCreated`; a worker of the inventory service reserves the stock in one
transaction and publishes `InventoryReserved` or `InventoryReservationFailed`;
the consumer of the order service writes `CONFIRMED` or `CANCELLED` and
publishes the status event; the notification service stores a notification and
pushes it to the customer's WebSocket connections.

| Component | State it keeps | Operations | What is hard | What makes it correct |
|---|---|---|---|---|
| Inventory: stock (`internal/inventory/repository.go`) | tables `inventory`, `reservations` | `ReserveOrder`, `CreateOrUpdate`, `Get` | workers interleave between statements; row locks taken in line order; aborts half way; INT columns | stock is never oversold or lost; an order is reserved whole or not at all; nobody waits forever |
| Inventory: events (`internal/inventory/service.go`) | `processed_events`, committed offsets, goroutines and channels of `ConsumeOrders` | `processOrderEvent`, `ConsumeOrders`, `AddStock` | redelivery, stops between reserving, acknowledging and publishing; blocking sends; cancellation | no message acknowledged unhandled or skipped; `ConsumeOrders` returns on every error |
| Order service (`internal/order`) | tables `orders`, `processed_events` | `Create`, `UpdateStatus`, `ConsumeInventoryEvents`, reads | database and Kafka are written separately; the consumer races administrators; duplicates | a confirmed order has its stock; a result is applied once; an order settles |
| Events, Kafka client (`internal/events`) | topics, committed offsets | `New`, `Publish`, `Fetch`, `Commit` | no order across partitions, redelivery, writes repeated by the client | see its users |
| Notification (`internal/notification/service.go`, `repository.go`) | `processed_events`, `notifications` | `ConsumeOrderEvents`, `processEvent`, `GetMine` | the same, and a push in the consumer's own goroutine | one notification per event; the consumer gets past every message |
| Hub, WebSocket (`hub.go`, `handler.go`) | `Hub.clients` under a RWMutex | `Add`, `Remove`, `Broadcast`, `userLoop` | `Broadcast` writes outside the lock while connections come and go; clients that do not read | nothing leaks; a connected owner is sent what is stored |
| Product (`internal/product`) | tables `products`, `categories`, Redis keys `product:<id>` | `GetByID`, `Update`, `Delete`, `Create`, listings; categories | cache-aside reads race invalidations; Redis errors are ignored; answers of the database get lost; deleting a category rewrites products | the cache is not out of date without a cause; an order is priced from the product of its time |
| User, authentication (`internal/user`, `internal/auth`) | table `users`; tokens with the client | `Register`, `Login`, `UpdateProfile`, `GetUser`; `Middleware` | nothing is looked up before the INSERT: two spellings of an address, retries after a lost answer | a promised account opens to its owner, and a token is its holder's |
| Gateway (`cmd/gateway`) | none; two copying goroutines per WebSocket | proxying, tokens, roles, CORS | it answers 502 for a service that may have done the work | 201 is true; who got an error may have an order |
| Worker pool (`internal/concurrency`) | channels, WaitGroup | `Start`, `Submit`, `Close` | `Close` waits for workers that may wait to send; two-way selects with a cancellation | a job is run once, `Close` means that all are done, everything ends |
| Database set-up (`internal/database`) | `schema_migrations` | `Connect`, `RunMigrations` | replicas that start together; the content of a file and its version row are one transaction | a migration is applied once, in order, and nobody serves before the last |
| Entry points (`cmd/*-service/main.go`) | per process: HTTP and gRPC requests in progress, the pool | start, serve, shut down | three waits in a row at shutdown, one of them limited; requests that outlive the limit | a replica told to stop does; what it promised to wait for is done |
| Configuration, logging, `httpx`, `grpcapi` | none | wiring | - | - |
| `examples/concurrency` | - | stand-alone teaching programs | - | - |

The hazards, each with its line and the properties that would show it, are in
`PROJECT.json`.

## 2. The code as it is

The models follow the source, also where it is unfinished. At this commit the
tree does not compile, and each gap was closed in the one way its callers
leave open:

- `publishStatusEvent` (called at `src/internal/order/service.go:189` by the
  consumer) and the type `UpdateStatusRequest` are defined nowhere. The first
  is taken to publish the event its call names with the payload it is given;
  in the map it is external.
- `src/cmd/inventory-service/main.go:58` calls `ConsumeOrders` with two
  arguments, the method takes four. The method is the reference: each worker
  opens a reader of its own, as in `src/internal/inventory/service.go:51`. The
  reader that `main` opens at line 54, in the same group and for the same topic,
  is the argument of the two-argument form and is set aside with it. This is a
  choice, and the liveness of the order workflow rests on it: were that reader
  left open beside those of the workers, Kafka would assign it partitions, and
  nobody would fetch their messages. `EventsDrain` and `OrderSettles` are about a group that
  consists of the workers' readers.
- `strings` is imported and unused in `src/internal/product/category.go`.
- `src/cmd/product-service/main.go:64` and 65 pass methods where `mux.Handle`
  wants handlers. They are taken to be served.

## 3. Modules

| Module | Models | Composes / extends |
|---|---|---|
| `OrderLines` | the lines of an order, and which line of a product counts | - |
| `StockLedger` | *abstract*: what the inventory database promises, in two atomic operations | `OrderLines` |
| `StockReservation` | `ReserveOrder` and `CreateOrUpdate`, one action per SQL statement | refines `StockLedger` |
| `OrderLinesProofs` | lemmas about lines that the proofs share: a product of an order has one first line, with a positive quantity | |
| `StockReservationProofs` | theorems about `StockReservation` | |
| `Events` | the events, and how each service writes and reads their JSON | - |
| `OrderSaga` | *abstract*: an order is placed, decided once and settled once | - |
| `OrderWorkflow` | order service, Kafka and inventory service together | built on the actions of `StockLedger`; refines `OrderSaga`, in one attempt; uses `Events`, `OrderLines` |
| `InventoryWorkers` | the goroutines and channels of `ConsumeOrders` | - |
| `Notification` | the notification consumer, the hub and its connections | `Events` |
| `ProductCache` | a product, its cache and its category: cache-aside reads against every write | - |
| `Accounts` | registration, login, tokens and profiles | - |
| `Checkout` | `POST /orders` from the gateway to the answer | `EXTENDS ProductCache`, instantiates `Accounts` |
| `JobQueue` | *abstract*: a queue whose jobs are run once | - |
| `WorkerPool` | the worker pool: its caller, workers and channels | refines `JobQueue` |
| `ServiceReplicas` | the processes of the product or the user service: start-up, migrations, shutdown | - |
| `CheckoutProofs` | theorems about `ProductCache` and `Checkout` | |
| `OrderWorkflowProofs`, `InventoryWorkersProofs`, `NotificationProofs`, `WorkerPoolProofs`, `ServiceReplicasProofs` | theorems about the module of that name | |
| `MC...` | constants of the small instances | |

**StockReservation.** A worker's transaction is at `phase[w]`: `check`
(SELECT EXISTS), `lock` (SELECT ... FOR UPDATE and the stock comparison that
follows it) or `write` (UPDATE and INSERT, both under the row lock). The
committed tables are `available`, `reserved`, `reservations`; what a
transaction inserted and nobody else sees yet is `pending[w]`. PostgreSQL is
modelled from how the code uses it: READ COMMITTED, a locked read returns the
committed value at the time the lock is granted, UNIQUE(order_id, product_id),
CHECK and INT range errors abort, a transaction that ends drops its locks, and
a cycle of waiting transactions loses one member (`DeadlockVictim`). The early
return for an order whose lines are all reserved already is
`CheckReservation` running to the end and `Commit` committing nothing.

**OrderWorkflow.** A topic is the sequence of the messages ever written. The
writer sets no partition and topics have several, so a consumer takes any
message its group has not acknowledged. The publishing gap of every handler is
a state of its own: `creating` and `updating` hold the requests whose row is
written and whose event is not. `worker[w].at` walks through
`processOrderEvent` (reserve, then mark, ack, publish; or fail, failAck), and
`consumer.at` through `ConsumeInventoryEvents` (mark, update, publish, ack),
in the order of the calls. `ReserveOrder` is one step, `Ledger!ReserveOrder`;
that this is sound is the refinement of `StockReservation`. `Fault(kind)` is
the one place where things go wrong, and there are seven kinds: a failed
publish (`publish`), a transaction that the database gave up (`database`), one
that it committed without the answer arriving (`commitLost`), a redelivery to a
second worker, an event written twice, a stop of either service. A failure has a
reason, and what the properties tell apart is kept of it: too little stock, a
column out of range, or an error of the database, which is what a lost answer
looks like. Stops also stand for the errors after
which the code ends the service itself (`cancel` in `ConsumeOrders`, `stop` in
`main`).

**OrderSaga.** The workflow with no topics, workers or offsets: `Decide` is the
moment the stock is taken or the failure published, `Settle` the moment the
order service writes the status. `OrderWorkflow` maps to it an order's
`Outcome`, read from the inventory tables and from `inventory-events`, and
`SettledOrders`, the orders with a result that was applied.

**Events.** The three payload structs are kept by JSON key, because two of
their tags disagree: `InventoryResultPayload.UserID` is written as `order_id`
and its `OrderID` under its field name. Each `As...` operator is one consumer's
unmarshalling.

**InventoryWorkers.** One worker is a fetcher, a channel of one place and a
processing goroutine; all share `errChannel`, whose capacity is the number of
workers. The fetcher's send blocks (`SendError` needs a free place), the
worker's does not (`Report` drops). A deferred `close(fetchDone)` and
`close(jobs)` follow each other with nothing in between and are the fetcher's
`"done"`. Rebalances are in `OrderWorkflow`, as redeliveries.

**Notification.** `consumer.targets` is the copy that `Broadcast` takes under
the read lock; `Write` is one write to one connection of the copy, with the
removal and close of a connection whose write fails. `socket[c]` is what the
goroutine of `c` would see: a broken peer may still take a write (the first
write after the peer went away usually succeeds), a stalled one blocks it.

**ProductCache.** One product, since products share neither row nor key. The
version numbers are the database's order of writes. `GetByID` is a step per
call (Redis GET, SELECT, Redis SET), a write is its statement, then the
invalidation, then the answer. Errors of Redis are ignored by the code and are
steps that leave the cache as it is (`SetFails`, `InvalidateFails`); an error of
PostgreSQL ends the request, and `AnswerLost` is the one that arrives after the
statement was executed: the code then returns without invalidating.
`DeleteCategory` is a new version of a product that has the category, because
`ON DELETE SET NULL` rewrites it; nobody invalidates it. `causes` is a history
variable: what may have left the cache out of date since the key was last set
right.

**Accounts.** A client types its address in a spelling of its own; the code
normalises it (`Normal`) and leaves uniqueness to the database. The account of
the seeded administrator is there from the start, under an address that
no client of the instance types. `promised` is a history variable, the account a 201 was
answered for. Passwords are compared, not hashed; signatures of tokens are
taken to be sound.

**Checkout.** `buyer[b].at` walks through the request: the gateway's check of
the token (`Submit`), the service's own (`Enter`), `GetUser`, then for every
line `GetProduct`, which is a `GetByID` of `ProductCache` by reader `b`, the
INSERTs and COMMIT in one transaction (`StoreOrder`), `Publish` and the answer.
An error anywhere is `Refuse`; `StoreUnanswered` is the COMMIT that was executed
and not answered, `AnnounceFails` the failed publish, and `AnswerBadGateway`
the 502 that the gateway's proxy makes of a broken connection. All lines name the one
product of `ProductCache`, whose version stands for its price. `oldest` and
`lost` are history variables: the version on offer when the request came, and
the orders whose buyer was told an error. What becomes of an announced order is
`OrderWorkflow`'s subject, where `Create` is the row and the publish only.

**WorkerPool.** The channel of jobs is `jobs`, and `HandOver` is a send that
meets a waiting receiver, the only one for a buffer of 0. `worker[w].at` is
where the goroutine of `Start` is: at its `select`, in the handler, or at the
second `select` with an error in hand. The caller submits, closes and waits as
the pool's test does, and receives the errors either meanwhile or afterwards
(`receiving`). A `select` with two ready cases takes either.

**ServiceReplicas.** `at[r]` walks through `main`: connect, create
`schema_migrations`, and for each file the SELECT EXISTS, the file in a
transaction, the INSERT of its version and the COMMIT; then serving, and the
three waits of the shutdown (`http.Server.Shutdown` with its ten seconds,
`GracefulStop`, the deferred `pool.Close`). A statement that meets the
uncommitted work of another replica waits for it, as PostgreSQL does for
`CREATE TABLE` of the same name and for an equal primary key. The files of
this repository say `IF NOT EXISTS` throughout, so the loser gets as far as the
primary key of `schema_migrations`, where its start fails (`Rejected`, `Fail`);
that PostgreSQL may refuse it earlier, at the `CREATE TABLE`, is a `Fail` too. Each service has one file today; the model has `Last` of
them so that their order matters. With `Rpcs = {}` this is the shape of the
services without a gRPC server as well.

## 4. Runs

| Run | Instance | What it shows |
|---|---|---|
| `stock_reservation` | 2 workers, 2 orders over 2 products named in opposite orders, one line repeated, INT range 0..2 | `StockAdmitted`: the stock check is not stale when it is acted upon. `ReservationAllOrNothing`, `SuccessMeansReserved`. `LedgerSpec`: refinement of `StockLedger`. `TxEnds`: no wait is forever |
| `order_workflow` | 1 order, 2 workers, any 2 faults of all seven kinds, or one and an administrator's `SHIPPED` or `CREATED` | `ConfirmedIsReserved` across the services; `StatusAppliedOnce`; `OrderNotLost`: nobody leaves an order undecided; `EventsDrain`: neither group is stuck on a message; `OrderSettles`: an order is decided unless a named cause left it behind |
| `checkout` | 2 clients with two spellings of one address, one of which orders up to 2 lines; another reader, a writer, 2 versions, a category; Redis, PostgreSQL, Kafka and the gateway fail at will | `PricedAsOffered`, `AnswerIsTrue`, `RegistrationHonoured`, `StaleHasCause` |
| `inventory_workers` | 2 workers, 3 messages each, 3 failures, a shutdown | `NoSendOnClosed`, `NothingSkipped`, `ErrorEndsConsumeOrders`, `GoroutinesEnd` |
| `notification` | 1 order, 2 connections of its owner, 2 messages, 1 stop or duplicate | `StoredOnce`, `OneLossPerFault`, `HubTracksLoops`, `DisconnectedLeavesHub`, `BroadcastReaches`, `EventsAcked` |
| `worker_pool` | 2 workers, a buffer of 1, up to 6 jobs of which any may fail, a cancellation | `QueueSpec`: refinement of `JobQueue`. `CloseMeansHandled`, `NoSendOnClosed`, `PoolEnds` |
| `service_replicas` | 2 replicas that start, fail, stop and start again, 2 files, 2 HTTP requests, 1 RPC | `MigratedOnce`, `ServesMigrated`, `Drained`, `StartEnds`, `StopEnds` |
| `stock_reservation_repeated`, `cancelled_but_reserved`, `reserved_never_confirmed`, `confirmed_without_stock`, `acked_on_database_error` | the smallest instance that shows it | violations: see the findings |

Deadlock is checked only in the stock runs. The other systems come to rest
when their bounds are used up, or because the code ends there.

**The bounds.** `MaxInt` is the INT range; 2 is the least for which an order
can be short of stock, fit, and overflow. Two workers are enough for every
pairwise race and for the lock-order deadlock, which needs two rows; three
workers add no new kind of conflict on two rows, and the theorems of section 6
hold for any number. `MaxFaults` counts faults and administrators' updates
together: the interesting stories are a stop (or error) followed by a
redelivery, or one fault during an administrator's update, and the run of the
workflow allows any two. It has one order, about 0.8 million states and two
liveness properties; two orders would not fit into five minutes with them. What a
second order adds is competition for stock, which is `stock_reservation`'s
subject, and a result that is applied to the wrong order, which the theorems
`ConfirmedHasStock`, `AppliedOnce` and `OrdersAreNotLost` exclude for any orders.
A column out of range needs a second order too, and is reached in
`stock_reservation` only. `MaxFailures` 3 is what it takes to strand
a fetcher with two workers (two fetch errors found before the cancellation,
one failed message, and a second failed because of the cancellation), so the
exception in `GoroutinesEnd` is reached. `MaxMessages` 3 fills all three places
a message can wait in (worker, channel, fetcher). `MaxJobs` 6 is
one more than two workers, a buffer of one and two errors in the channel can
take without a receiver, so that both `Blocked` and everything short of it are
reached. In `checkout`, `MaxVersion` 2 is a product that
is replaced once, which is what a stale price needs; two lines can be priced at
different times; one order is stored, after any number of refused requests (a
buyer who orders again after an error is left to the theorems), and `MaxUsers` 2 is the administrator and the winner of the
address, or the one who lost its answer. The run has about 0.9 million states;
the theorems about it hold for any numbers. Two replicas are what two transactions on one
version need, and two files what their order needs; two HTTP requests can be
at different steps when the ten seconds are over.

**Reading the properties.** `OrderSettles` excepts four kinds of order, each
named for the step that left it `CREATED`: `Unannounced` (the publish of
`OrderCreated` failed, `src/internal/order/service.go:85`, a limitation that
`docs/failure-scenarios.md:7` states), `Unanswered` (the inventory service
stopped between the acknowledgement and its result, or lost a publish),
`Forgotten` (the order service marked a result and stopped before it applied
it) and `Reset` (an administrator's doing). `PricedAsOffered` does not say that
a price is the current one, which no shop without a lock can promise: it says
that it is not older than the request, unless the cache had a cause to be out
of date. `AnswerIsTrue` is about both directions: 201 means stored and
announced, and an order that was not announced belongs to somebody who was told
an error, so the code may leave such orders behind but does not claim success
for them. `PoolEnds` excepts a caller that leaves more errors unreceived than
there are workers: the test of the pool closes first and receives afterwards,
which is safe there only because its handler never fails
(`src/internal/concurrency/worker_pool_test.go:26`). `ConfirmedIsReserved` is checked with
administrators that set `SHIPPED`, or `CREATED` where the customer's id is no
order's; where it is one, the property is violated, which is the
finding `confirmed_without_stock`. It does not say that a status which an
administrator set is kept: a result that comes late overwrites `SHIPPED`, as the
code has it and no document denies. `EventsAcked` and `BroadcastReaches` hold
unless some client stalls: `Broadcast` sets no write deadline
(`src/internal/notification/hub.go:55`), so one client that stops reading does
hold up the consumer and every other customer's notifications. `GoroutinesEnd`
excepts fetchers that are *stranded*: their error finds `errChannel` full after
`ConsumeOrders` has returned (`src/internal/inventory/service.go:69`). That
fetcher, its worker and the goroutine that waits for them are then never
released; `ConsumeOrders` has returned all the same, and main ends the
process. `AckedOrderHandled` is what `docs/failure-scenarios.md:17` asks for,
and no passing run has it: an acknowledged order is reserved or was turned down
for what it asks, not for want of a database. `StopEnds` assumes that RPCs and
queries return. `CloseMeansHandled` excepts a
cancellation, which may leave an accepted job in the channel.
`StoredOnce` and `StatusAppliedOnce` are "at most once": both consumers mark an
event before they act on it, so a stop in between loses the notification or
the status (`src/internal/notification/service.go:33`,
`src/internal/order/service.go:166`). `OneLossPerFault` is the other side of
`StoredOnce`: one stop loses one notification at most, and nothing is lost
without one.

So some properties bound a hazard by excepting it, rather than exclude it: the
four gaps of `OrderSettles`, `Blocked` in `PoolEnds`, the stranded fetchers of
`GoroutinesEnd`, the stalled client of `EventsAcked`. Each exception is a state
predicate that the run reaches, and what the property says is that there is no other.
The notes of the hazards in `PROJECT.json` name them.

## 5. Fairness

- Workers and consumers: weak fairness of each goroutine's next step. The Go
  scheduler runs what can run, the calls return, and a poll of Kafka delivers
  an unacknowledged message in the end. Weak fairness of the worker's step as a
  whole leaves open which branch a call takes.
- Stopped services are started again. The compose file sets no restart policy,
  so this is the operator's doing; without it nothing can be said about
  progress after a stop. Each model bounds the number of stops.
- Row locks: PostgreSQL grants a lock that stays free long enough; the
  transaction's step is weakly fair except for taking a contended lock, which
  is strongly fair as PostgreSQL queues the waiters of a row.
- Sockets: a read on a dead connection returns. Clients need not do anything.
- Worker pool: the caller, the workers and the goroutine that closes the channel
  go on when they can, handlers return, and a caller that receives does so again
  and again. Nobody has to cancel.
- Replicas: the database answers every statement that need not wait, and gives
  a statement that waits its turn when the other transaction ends (strong
  fairness of `ExecuteFile` and `RecordVersion`, since PostgreSQL queues the
  waiters). A statement whose context is done fails. Queries and RPC handlers
  return; HTTP clients need not send a body or read a reply, which is why
  `StopEnds` rests on the ten seconds.
- Nothing is assumed of customers, administrators, starts, kills or faults.

## 6. Proofs

`StockReservationProofs` proves, for any workers, orders, products and lines
and any INT range:

| Theorem | States |
|---|---|
| `InductiveInvariant` | `Spec => []IndInv` |
| `TypeCorrect` | the stock columns stay in range (`TypeOK`) |
| `NeverOversells` | `StockAdmitted` |
| `AllOrNothing` | `ReservationAllOrNothing` |
| `SuccessIsComplete` | `SuccessMeansReserved` |
| `Implements` | `Spec => LedgerSpec`: the transactions refine `StockLedger` |
| `StockOnlyMoves` | `StockConserved`: stock leaves a product only for the row of one order, by that row's quantity, and no row is changed or deleted |
| `ReservedEqualsRows` | `LedgerBalanced`: `reserved_quantity` is the sum of the product's rows, if there are finitely many orders |
| `WaitsNeverHang` | `WaitsAreDetected`: while a transaction is open, one does not wait, or the deadlock detector has a victim; if there are finitely many workers |
| `OrderedLinesNeverDeadlock` | `DeadlockFree`, if all orders name their products in one common order |
| `RequestCoveredWithoutRepeats` | `RequestCovered`, if no order names a product twice |

Assumptions: `ItemsAssumption` (the lines of an order name products and
positive quantities, which `Service.Create` and the handlers check) and
`MaxIntAssumption`, both in `OrderLines`, and that `None` is no worker, in
`StockReservation`. The last two theorems have hypotheses that the code does not
establish, and are there for that reason: they say that the lack of sorted
lines is the only cause of deadlocks, and two lines of one product the only
cause of finding 1.

The argument. Type correctness alone is not inductive: that `UPDATE` does not
drive `available_quantity` below zero rests on the comparison made one
statement earlier. `IndInv` therefore adds

- `LoopInv(w)`: a transaction in its write phase holds the row lock of its line
  and the stock it compared with is still there; and all lines before the
  current one are pending or committed;
- `PendingInv(w, p)`: an uncommitted reservation comes with the row lock, is
  within the committed stock, and its order has no committed row for `p`. No
  other transaction can change any of this while the lock is held;
- `ReservationAllOrNothing` itself, needed at `Commit`: a transaction that found
  one line reserved found all of them reserved;
- `ResultInv(w)`: what returned nil stays reserved.

There is one lemma per action. `CommitIsWhole` is the heart of the refinement:
at its end a transaction has either nothing pending (a stutter of the ledger)
or the whole order (one `ReserveOrder`).

What is said of the rows is proved of the ledger and carried over by the
refinement. A sum is stated with its running totals (`IsSum`), not computed, so
that `SumGrows` can follow one row through it: the row inserted by a
`ReserveOrder` is at one place of every listing of the orders
(`PlaceInListing`). For the waits, `LockInv` says that a locked row belongs to
an open transaction that has written the row's line or is about to. If every open transaction waits, take a
smallest set of them that wait only for each other: by minimality each is
reachable from each, which is what makes them a victim. Where
the lines have a common order, the rank of the wanted product rises along every
wait, and a circle cannot close.

`OrderWorkflowProofs` proves, for any orders, customers, lines and workers, any
statuses that administrators set and any number of messages and faults:

| Theorem | States |
|---|---|
| `InductiveInvariant` | `Spec => []IndInv` |
| `TypeCorrect` | `TypeOK`: offsets and messages in hand are in their topics |
| `AckedIsHandled` | `AckedOrderHandled`, if the database does not fail (answers to COMMIT may get lost) |
| `AppliedOnce` | `StatusAppliedOnce` |
| `ConfirmedHasStock` | `ConfirmedIsReserved`, if `AdminsDoNotConfirm` |
| `OrdersAreNotLost` | `OrderNotLost`: an order that is `CREATED` is on its way or in one of the four gaps |
| `LossesNeedFaults` | `LossNeedsFault`: each gap is opened by its own fault only, if `AdminsDoNotCreate` |
| `CancelledHasNoStock` | `CancelledIsUnreserved`, if `OneAttempt`, `OutcomeKnown` and `AdminsDoNotCancel` |
| `ImplementsSaga` | `Spec => SagaSpec`: the services refine `OrderSaga`, if `OneAttempt`, `OutcomeKnown` and `AdminsDoNotCreate` |

Assumptions: those of `OrderLines`, and `WorkflowAssumption` (ids are positive,
statuses are those of `allowedStatuses`). `ConfirmedHasStock` assumes besides
that administrators set neither `CREATED` nor `CONFIRMED`
(`AdminsDoNotConfirm`). It cannot do without: the run `confirmed_without_stock`
is the counterexample for `CREATED`, and `CONFIRMED` is one by itself.
`OneAttempt` is `FaultKinds \cap {"redelivery", "duplicate", "inventoryStop"} = {}`:
publications and statements may fail and the order service may stop at any
step, but a request reaches one worker once. `OutcomeKnown` is
`"commitLost" \notin FaultKinds`: what `ReserveOrder` returns is what
happened. These are what the code does not guarantee, and both are needed: TLC
finds a counterexample to `CancelledIsUnreserved` and to `SagaSpec` for each of
the four excluded kinds alone (`cancelled_but_reserved` is the one that is
kept), and none with the other three. Neither theorem limits the number of faults.

The argument. `IndInv` holds a weaker form of `AckedOrderHandled` that the code
does keep, `AckedHasOutcome`: an acknowledged order is reserved or has a failure,
for whatever reason. It is about the moment of an acknowledgement,
but what justifies it was done steps before, by a worker that has been
overtaken since. So `WorkerInv` says what a worker that is past `ReserveOrder`
knows: its order is reserved, or its failure is in the topic. That this stays
true while others move is `OrderInHandStays`, and rests on three facts about
every step: the topics only grow (`TopicsPreserve`), a reserved order stays
reserved (`ReservedStays`), and every change of the stock tables is a step of
the ledger (`LedgerStep`). The last one needs `MessagesInv`: a message that has
lines names an order under the key the inventory service reads, which status
events, whose `order_id` is a user's id, would not if they had lines.
`AckedIsHandled` adds `BlameInv`: where the database gives up no transaction, a
failure that names it comes of a lost answer, so the stock is taken.
`StatusAppliedOnce` needs `ConsumerInv`: what was applied is in
`processed_events`, and what is about to be applied is there without having
been applied. `ConfirmInv`, inductive together with `IndInv`, follows the claim
that an order is reserved from the worker through its message and the result
to the status.

`OrderNotLost` is the part of `OrderSettles` that is about states: who says that
an order will be decided must first say who would do it. It follows from
`AckInv`, which is about the acknowledgements: what the inventory group has
acknowledged is marked or answered, what the order group has acknowledged is
marked. `LossNeedsFault` turns each gap into the fault that opens it; `LossInv`
has one conjunct per gap, each under the absence of its fault, and `CreationInv`
says that every `OrderCreated` asks for an order that exists, with its lines,
which is false once administrators set `CREATED`.

`AttemptInv` is the argument for both outcomes: an order is asked for once
(`AskedOnce`), its request is in one worker's hands (`HeldOnce`) and not
acknowledged while it is (`HeldUnacked`), an order has stock only when its
request is acknowledged or a worker holds it that is past `ReserveOrder` without
an error (`ReservedOnce`, which is where `OutcomeKnown` comes in), so that a worker
that is still before `ReserveOrder`, or got an error, holds an order without stock
(`HeldUnreserved`); and once a failure is published nobody is left who could reserve
(`DecidedUnreserved`). `SagaInv` adds what the refinement
needs: an order has at most one result, and when it has one its request is
finished (`AnsweredOnce`). A step of `OrderWorkflow` is then a step of the saga
(`SagaStep`): taking the stock and publishing a failure are `Decide`,
`ApplyResult` is `Settle`, and publishing a success changes nothing, because the
decision was taken when the stock was.

`ServiceReplicasProofs` proves, for any replicas, any number of migrations and
any requests:

| Theorem | States |
|---|---|
| `InductiveInvariant` | `Spec => []IndInv` |
| `TypeCorrect` | `TypeOK` |
| `MigratesOnce` | `MigratedOnce`: every file is committed once and in order |
| `ServesOnlyMigrated` | `ServesMigrated` |
| `DrainsFirst` | `Drained` |
| `ReplicasNeverHang` | `NeverStuck`: who starts or stops can go on, or waits for a replica that can or for requests that need no client |

Its only assumption is `LastAssumption`, that `Last` is a natural number. That
`MigratedOnce` survives a `Commit` needs three facts about the replica that
commits: all files before its own are in `versions` and its own is not
(`ProgressInv`), and no other replica has an uncommitted row of the same
version (`OneCommits`), or its commit would make the second fact false there. So the
committed file is the next one: `CommittedIsNext`. `ServesMigrated` follows
from `ProgressInv` at the end of the loop, and `DrainInv` says that no request
is accepted after the wait for its kind. `NeverStuck` needs `StopInv`, that only
a replica which was told to stop is at a step of the shutdown, and that none of
those is down; a chain of replicas waiting for each other's transaction has at
most two links, because its last one is at its `COMMIT`.

`InventoryWorkersProofs`, for any finite set of workers and any number of
messages and failures: `TypeCorrect`, `NeverSendsOnClosed` (`NoSendOnClosed`),
`SkipsNothing` (`NothingSkipped`), `ErrorsNeverHang` (`NeverStuck`: what has
failed or was cancelled can go on until `ConsumeOrders` returns, and afterwards
only a stranded fetcher holds anything up) and `ErrorsComeFirst`
(`ErrorBeforeCancel`: a worker cancels the others only when there is an error to
return). `NoSendOnClosed` needs only that a worker
returns after its fetcher (`WorkerLast`), because `wg` does not wait for
fetchers. `NothingSkipped` needs `PipelineInv`: as long as the fetcher has not
given up, the message the worker took last, the one in the channel and the one
the fetcher holds follow each other without a gap (`OrderInv`), and what is
committed ends with the message the worker took last or just before it
(`CommitInv`). The last two rest on `ReturnInv`, which relates the errors in
`errChannel`, the cancellation and the return of `ConsumeOrders`. Assumption: `InventoryWorkersAssumption` (there is a worker, and
there are finitely many).

`NotificationProofs`, for any orders, customers, connections and bounds:
`TypeCorrect`, `StoresOnce` (`StoredOnce`), `HubNeverLeaks`
(`HubTracksLoops`), `DeliversToOwner` (`DeliveredToOwner`: no connection is sent
another customer's notification), `PassesNobodyOver` (`NobodyPassedOver`, an
action property: `Broadcast` drops a connection from its copy only when it has
sent or the connection is closed) and `LosesOnePerFault` (`OneLossPerFault`: at
most one notification is lost per stop). `StoredOnce` is not inductive: `MarkedFirst` adds that every
stored event is in `processed_events`, and that the event the consumer is about
to store is there too without being stored. `HubTracksLoops` is inductive with
the types, which say that a connection is listed under its own user only. `AddressInv`
follows the owner from the topic through what is stored and through the copy
that `Broadcast` works on; a status event, which carries no user, never reaches a
connection. `LossInv` counts: a stop can turn one event, the one that is marked
and in hand, into a lost one, and nothing else can.
Assumption: `NotificationAssumption` (ids are positive, statuses are those of
`allowedStatuses`).

`WorkerPoolProofs`, for any finite set of workers, any buffer and any number of
jobs: `TypeCorrect`, `ClosesHandled` (`CloseMeansHandled`), `NeverSendsOnClosed`
(`NoSendOnClosed`), `Implements` (`Spec => QueueSpec`), `NothingHangs`
(`NeverStuck`) and `FewJobsNeverBlock` (`NeverBlocked`: with up to as many jobs
as workers, a caller that receives the errors only after `Close`, as the pool's
test does, is safe). The strengthening says
where a job can be: `ChannelInv` and `HandInv` (an accepted job waits once, or one
worker has it, and then it is not handled), `NothingLost` (there is no other
place), `AcceptedInv` (the job being submitted is a new one) and `DoneInv`
(workers leave only when cancelled or when the channel is closed and empty).
The refinement maps `running` to the jobs in the workers' hands; a receive from
the channel and a `HandOver` are a `Start`, a send into the buffer an `Accept`.
Assumption: `WorkerPoolAssumption`.

`CheckoutProofs`, for any clients, spellings, passwords, readers, writers,
versions, lines and orders:

| Theorem | States |
|---|---|
| `InductiveInvariant`, `TypeCorrect`, `StaleOnlyWithCause`, `ReadsOwnWrite` | about `ProductCache` alone: `[]IndInv`, `TypeOK`, `StaleHasCause`, and that `Update` answers nothing older than it wrote |
| `CheckoutTypeCorrect` | `CheckoutTypeOK` |
| `PricesAsOffered`, `AnswersTruly`, `HonoursRegistration` | `PricedAsOffered`, `AnswerIsTrue`, `RegistrationHonoured` |

Assumptions: `MaxVersionAssumption` and `CheckoutAssumption` (buyers are clients
and readers of the cache, normalising an address twice is normalising it once,
the seeded account has a normalised address, and bounds are positive). The
argument: `LastWritten` makes the cache's invariant inductive (a product that
exists is at the last version written). `CheckoutInv` adds, part by part,
`AccountsInv` (addresses are unique, so that who has the credentials has one
account), `RequestsInv` and `OrdersInv`. `RequestsInv` is where the work is:
`InOrder` says what a request that is at a step has behind it, and `PricesOf`
that every price it holds, the one in the hands of its `GetByID` included, is at least
`oldest` (which falls to the first version when a line is read from the cache
while it may be out of date). This survives the writers because
versions only grow (`OthersPriced`), and the other buyers because orders only get
more (`OrdersKept`, `OthersInOrder`).

Three abstract specifications are implemented: `StockLedger` by
`StockReservation`, `JobQueue` by `WorkerPool`, and `OrderSaga` by
`OrderWorkflow`. Each refinement is an `INSTANCE ... WITH` and is proved; TLC
checks the first two in the runs listed above. `OrderWorkflow` and `Checkout` are
built on the actions of `StockLedger` and of `ProductCache`; that they do nothing
else to the stock and to the product holds by their definitions and is a lemma,
not a result.

Only model-checked: liveness (`TxEnds`, `OrderSettles`, `EventsDrain`,
`EventsAcked`, `BroadcastReaches`, `DisconnectedLeavesHub`,
`ErrorEndsConsumeOrders`, `GoroutinesEnd`, `StartEnds`, `StopEnds`, `PoolEnds`),
which is beyond the prover, as is `ENABLED`. What can be said of single states is
proved instead: `NeverStuck`, `WaitsAreDetected` and `OrderNotLost` say that there
is always somebody who can go on, with guards (`CanGo`, `WorkerCanGo` and the
like) that are written out; TLC was used to compare them with `ENABLED` of the
actions in every reachable state of the runs' instances, and they agree. What
remains to the runs is that those who can go on do so in the end, and that this
leads somewhere.

Proved, and in no run of their own: the theorems whose properties are in the
tables above but not in section 4. They were checked with TLC on the instances of
the runs before they were proved (`CancelledIsUnreserved` and `SagaSpec` with two
orders, two workers and two faults of the three kinds that `OneAttempt` and
`OutcomeKnown` leave: 5.2 million states).

## 7. Findings

Each is a run whose property TLC violates; `PROJECT.json` quotes the documents.

1. `stock_reservation_repeated` - two lines for one product: the second is
   taken for already reserved, and the order is confirmed short
   (`src/internal/inventory/repository.go:56`).
2. `cancelled_but_reserved` - a failure is published, the service stops before
   the acknowledgement, the redelivered order succeeds; the order is cancelled
   with its stock taken (`src/internal/inventory/service.go:138`). A second
   attempt is not the only way there: when the answer to the COMMIT of the first
   is lost, `ReserveOrder` returns an error, and a failure is published for an
   order that holds its stock. `CancelledHasNoStock` proves that there is no third.
3. `reserved_never_confirmed` - the offset is committed before the result is
   published (`src/internal/inventory/service.go:145`); the order service can
   lose a result likewise (`src/internal/order/service.go:166`).
4. `confirmed_without_stock` - an administrator's `CREATED` publishes an
   `OrderCreated` with the user's id as the order's
   (`src/internal/order/service.go:114`).

5. `acked_on_database_error` - the database fails while an order that could be
   reserved is being reserved; the code publishes a failure and commits the offset
   (`src/internal/inventory/service.go:139`), where `docs/failure-scenarios.md:17`
   asks that the message not be acknowledged. The order is cancelled, and nothing
   tries it again. `AckedIsHandled` proves that nothing but the database is to blame.

The tags behind finding 4 have a second effect: the order service publishes
status events with `InventoryResultPayload`, which writes the user's id under
`order_id` and no `user_id` at all (`src/internal/order/model.go:39`). The
notification service reads `user_id`, so it stores the notification of a
status for user 0. `Events` models this as it is; the properties of
`Notification` are about the owner that the stored notification names.

## 8. Not modelled

- Listings, `GetMine`, `Get` of the stock, `FindByUserID`: they only read, and what
  they return is cached nowhere.
- The rename of a category: no product shows the name, so nothing depends on it.
- Field checks, wording, timestamps, decoding and encoding that no property is
  about; hashing of passwords and signing of tokens, which are libraries' work.
- Routing, CORS, roles per route and logging of the gateway, which keep no
  state. The handler of its WebSocket route upgrades the client's connection
  and dials the notification service with a copy of all of the client's
  headers (`src/cmd/gateway/main.go:121`). These include the headers of the
  upgrade itself, which the dialer of the WebSocket library sets and refuses to
  be given, so the dial fails and the goroutines after it are never started.
- How long the cache stays out of date. Once a cause has left an old copy, it goes
  when Redis expires the key, or when somebody updates the product; but a
  reader that found the old row earlier may set it again, so "in the end up to
  date" holds only under an assumption about readers which the code does not
  justify. `Expire` is an action, and no liveness is claimed.
- Configuration, logging, HTTP helpers, gRPC stubs, entry-point wiring beyond
  the fact that a consumer's error stops its service; the examples.
- Shutdown of the services with a Kafka consumer: a stop is one step there
  (`OrderStop` and the like), and what their HTTP servers do meanwhile is what
  `ServiceReplicas` shows for the services without a consumer.

## 9. Plan

Done: stock reservation, order workflow, inventory workers, notification,
product cache, accounts, checkout, worker pool and service replicas, and the
proofs about each of them. What is left, in this order:

1. More action properties of `Checkout`: what a request may never do to an
   order or an account once it was answered.
2. `StockReservation` composed with `OrderWorkflow` in place of the atomic
   ledger. The refinement of `StockLedger` already justifies the atomic step,
   so this would confirm what is proved.
