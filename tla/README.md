# TLA+ verification of the order and inventory system

The repository is a small distributed shop. **Sales** (`apps/sales-api`, REST, NestJS and
PostgreSQL) takes customers and orders; **Inventory** (`apps/inventory-grpc`, gRPC, NestJS and
its own PostgreSQL) owns the catalogue and the stock. Creating an order reserves stock in the
other service, cancelling it gives the stock back. There is no distributed transaction: what
keeps the two databases together is idempotency (by order id in Inventory, by
`Idempotency-Key` in Sales), row locks, and a compensation.

These modules model that core at the level of statements, commits and messages, check it with
TLC on small instances, and prove with TLAPS, for every instance, what the two services promise
about stock, orders, answers and calls, connections, requests and the lists. Every safety property
that a run checks is also a theorem; what only TLC checks is liveness.

## 1. Inventory of the system

| Component | State | Operations | Talks to |
|---|---|---|---|
| Inventory stock ledger (`stock.service.ts`) | `parts.stock_available`, `stock_operations`, `stock_operation_items` | `reserve`, `release` | PostgreSQL (advisory and row locks), called over gRPC |
| Inventory catalogue (`parts.service.ts`, `prisma/seed`) | `parts` | `GetPart`, `ListParts`, seed, `seed --reset` | PostgreSQL |
| Inventory health (`health.service.ts`) | serving status, `shuttingDown`, timer | `probe`, `markShuttingDown` | PostgreSQL, Docker's health check |
| Inventory process (`main.ts`, server options) | used signal listeners, server and pool open or closed | start, signals, drain, disconnect, forced exit | gRPC calls in progress, Docker |
| Sales orders (`orders.service.ts`) | `orders`, `order_items`, `idempotency_requests` | `create` (claim, transaction, `recoverFailedCreate`), `cancel`, `get`, `list` | Inventory by gRPC, PostgreSQL through a pool |
| Sales gateway (`inventory-grpc.gateway.ts`, `inventory-service-client.ts`, `inventory-error.ts`) | the channel; a deadline per call | `reserveStock`, `releaseStock`, `getPart`, `listParts` | Inventory |
| Sales customers (`customers.service.ts`) | `customers` (unique normalised email) | `create`, `findById`, `list` | PostgreSQL |
| Request parsing, on both sides (`order.dto.ts`, `stock-request.ts`) | none | limits, duplicates, request hash, fingerprint of a command | handlers |
| API key guard and its configuration (`api-key.guard.ts`, `app-config.ts`) | two keys, fixed at start-up | `canActivate` | every REST route |
| Logging, tracing, error envelope, experiments | none | | |

**What is hard here**

- Several calls for one order id, and several orders for one part, run at the same time on
  READ COMMITTED transactions; correctness rests on which locks are taken, and in which order.
- Sales calls Inventory *inside* an interactive transaction that holds the key's row. The
  transaction can expire while the call is running, and the call can be executed although its
  caller has seen a failure.
- A commit can succeed and its acknowledgement be lost, on both sides.
- Between a failed transaction and its recovery the key is unlocked: other requests get in.
- The process can die between any two steps; only the databases survive.
- A request uses several connections one after the other, and waits for its key's row with one
  of them in hand: the pool is shared by the requests that wait and by the one they wait for.
- A shutdown runs beside the calls in progress, and a second signal finds no listener.
- Sales and Inventory each judge a command with code of their own: where they differ, a key is
  claimed for a request that Inventory then refuses.
- The seeder writes rows that calls hold and orders depend on, in an order of its own.
- Cancel reads, releases remotely, and only then locks and writes.

**What makes each component correct**

- *Stock ledger*: all or nothing, once per order; no unit created or lost; refusals true of one
  moment; replays identical to the original; no deadlock; every call answered.
- *Orders*: an order exists exactly for a confirmed key; a confirmed order has its stock; a
  cancelled one has given it back; a failed key holds none, but for one case (section 6); answers
  of a key never change; retries settle everything.
- *Gateway and process*: a call is carried out at most once, a definite answer is what was done,
  a clean exit takes the answer from no caller who still waits, a shutdown ends.
- *Parsing and guard*: what Sales lets through Inventory accepts; one key, one order; the reader's
  key never writes.
- *Pool*: it moves, and no transaction expires from waiting for others.
- *Health*: follows the database within a bound, however probes overlap; never SERVING after
  shutdown has begun.
- *Customers and lists*: one row per normalised email; pages neither skip rows nor invent them
  while the table changes.

The same list, line by line, is under `hazards` in `PROJECT.json`.

## 2. Modules

```
InventoryLedger          abstract: atomic reserve / release, and the status of every call
   ^ implemented by                ^ EXTENDED by (as Sales' view of Inventory)
StockService <- Seeding  OrdersService        (ErrorMapping: used by all that translate errors)
   ^             ^              ^
MCStockService  MCSeeding   MCOrdersService
StockService_proofs         OrdersService_proofs
   ^
StockBooks_proofs (of StockService and Seeding)

RemoteCall               abstract: a call carried out at most once, and what its caller knows
   ^ implemented by
InventoryCalls           gateway, network, server, process; EXTENDS ErrorMapping
   ^             ^
MCInventoryCalls InventoryCalls_proofs

StockRequest <- OrderRequest <- MCOrderRequest        ConnectionPool <- MCConnectionPool
                     ^                                       ^
             OrderRequest_proofs                     ConnectionPool_proofs

Listing  <- EXTENDED by Customers               HealthService
   ^                     ^      ^                      ^
MCListing       MCCustomers   Listing_proofs    HealthService_proofs
```

### InventoryLedger

`stock` and `ledger` (per order id: status and items) with two atomic actions, `Reserve` and
`Release`, and the status each call is answered with, in the order in which `stock.service.ts`
makes its checks. `LedgerSpec` is the promise; `ReserveCall` and `ReleaseCall` add the answer,
for a caller.

### StockService

One process per gRPC call in progress. The steps of a call are those of its transaction:

| `pc` | Code (`stock.service.ts`) | Actions |
|---|---|---|
| `idle` | request not received yet | `Start` |
| `lockOrder` | `pg_advisory_xact_lock` of the order id | `LockOrder` |
| `read` | `findUnique` of the operation, replay or refusal | `ReserveOnExisting`, `ReserveOnNone`, `ReleaseAnswered`, `ReleaseOnReserved` |
| `lockParts` | `SELECT ... ORDER BY id FOR UPDATE`, row by row | `LockPart`, then `ReserveReject`, `ReserveAccept`, `ReleaseAccept` |
| `write` | one `UPDATE` per item, the operation row, `COMMIT` | `UpdatePart`, `Commit`, `CommitAckLost` |
| `done` | answered | |

`seen[c]` are the rows a call holds, with the value it read; `staged[c]` its uncommitted
updates, which only `Commit` publishes. Locks are formulae of the state, not variables: the
advisory lock belongs to the call of that order that is past `lockOrder`, a row to the call
whose `seen` has it, so ending a transaction frees them, as in PostgreSQL. `Rollback` may happen at any
statement (connection lost, transaction timeout, death of the process: they leave the same
state) and `CommitAckLost` commits while the caller gets an error.

An operation row also stores, per item, the stock before the movement; the stock after it is
that value and the quantity, so it is not a field of the model. `CHECK (stock_available >= 0)`
of the schema is deliberately left out: `TypeOK` shows that the code never relies on it.

### ErrorMapping

The two tables between an Inventory error and a public answer: `toGrpcError`
(`grpc-error.filter.ts`) and `toInventoryApiError` (`inventory-error.ts`), with the test
`ambiguousFailure` (HTTP 500 and above) on which `create` decides whether a key may be closed.

### OrdersService

One process per REST request. An order id is drawn when a key is claimed and never changes, so
one value stands for both. `key` is the `idempotency_requests` row, `order` the row of
`orders`, `wire` the calls on their way to Inventory.

| Code (`orders.service.ts`) | Actions |
|---|---|
| claim of the key (its own statement) | `Claim` |
| `SELECT ... FOR UPDATE`, then replay, conflict, compensation, customer check | `EnterConflict`, `EnterSettled`, `EnterCompensating`, `EnterUnknownCustomer`, `EnterReserve` |
| `reserveStock` inside the transaction | `EnterReserve` sends, `Reserved` and `ReserveFails` get the answer |
| `releaseStock` of a COMPENSATING key | `EnterCompensating` or `Compensate` sends, `Released`, `ReleaseFails` |
| end of the transaction | `Commit`, `CommitAckLost`, `TransactionFails`, `FindsExpired` |
| `recoverFailedCreate`: two transactions | `Prepare`, `CommitPrepared`, `Compensate`, `RecoverSettled` |
| `cancel`: read, release, lock and update | `CancelRead`, `CancelReleased`, `CancelReleaseFails`, `CancelPersist`, `CancelPersistFails` |
| outside Sales | `Execute` (Inventory serves a call), `Lose`, `GivesUp` (deadline or lost answer), `Expire` (transaction timeout during a call), `Crash`, `Retry` (client) |

A call that its caller has given up on, or whose process has died, stays on `wire` without a
caller: it may still be executed, later, or be lost. The calls for one order id may take effect in
any order, since neither gRPC nor the advisory lock keeps the one in which they were sent.
`overtaken` is a history variable for one property: the order ids for which Inventory refused a
reserve while an earlier one was still on its way.

Abstracted: `CancelPersist` is one step (it locks, reads and updates a row that only cancels
write); a commit that may or may not have happened is decided when its error is seen; bodies are
records `[customer, items]` and equality stands for equal fingerprints. What is malformed, and
which bodies have equal fingerprints, is `OrderRequest`; the connections a request takes are
`ConnectionPool`.

### InventoryCalls and RemoteCall

`RemoteCall` is what `create` and `cancel` assume of a call: Inventory carries it out at most once,
possibly after its caller has given up, and whatever the caller learns is either the truth or
`"unknown"`. `InventoryCalls` is the machinery behind it:

| Code | Actions |
|---|---|
| gateway `invoke`; on a closed channel it throws | `invoke`, `InvokeThrows` |
| callback of the RPC: reply, empty reply, deadline, connection gone | `Callback`, `DeadlineExceeded`, `Unavailable` |
| gateway `onModuleDestroy` | `onModuleDestroy` |
| the server: controllers and `GrpcErrorFilter` | `Accept`, `Succeeds`, `Refuses`, `Fails` |
| network; a stream closed by its deadline or with its connection | `Lost`; `StreamCloses` |
| Inventory's `main.ts`: first signal, second signal, `app.close()` in two halves, exit codes | `Signal`, `SignalAgain`, `Drained`, `Disconnect`, `Completed`, `CloseFails` |
| the shutdown timer, Docker | `ForceExit`, `Kill`, `Start` |

`server[c]` follows the call, `client[c]` its caller, so that each can end without the other. A
handler is one step here (its statements are `StockService`): it does all of its work or none, and
one that fails after its commit answers INTERNAL like one that did nothing. A graceful shutdown
waits for streams and not for handlers: `Drained` needs the streams that are `Open` to end, and a
handler whose stream is closed (`"detached"`) runs on, may find the pool closed (`Disconnected`: it
can then only fail, with nothing done that it had not committed), and may be ended by an exit with code 0. The refinement maps
the caller's side to `known`: what an answer means to `create`, which reads 500 and above as
"unknown" (`ambiguousFailure`).

### StockRequest and OrderRequest

`StockRequest` is Inventory's `parseReserveRequest` and fingerprint, `OrderRequest` all that
happens to a request in Sales before `OrdersService` works on it: the environment the process
started with, the guard, the pipes, the claim with its hash, the encoding, and what
Inventory makes of the message. An id is `[form, name]` (UUID in lower or upper case, the
shape of a UUID with no version of one, other text, a number, nothing), the names being in the order
of the ids; a quantity is counted in halves. Each program judges with definitions of its own:
Inventory's `isUuid` takes the shape and Sales' `IsUUID` wants the version; the limits are
`MAX_ITEMS_PER_ORDER` and `MAX_QUANTITY` in Inventory, `ArrayMaxSize` and `MaxQuantity` in Sales
(literals in both, which nothing ties together: the mutant of `InventoryAgrees` moves one). `ByPart` is
`Array.sort`, which is stable: the place of an item is the number of items before it. A request is one step: all of this but the
key's row is decided without waiting. `Ordered` says in other words what an order is, whatever its
spelling, and is the reference for the two fingerprints.

### ConnectionPool

`create` and its recovery in discrete time, as users of connections and of their key's row:

| Code (`orders.service.ts`) | Actions |
|---|---|
| the claim: one statement | `Arrive`, `Claim` |
| a transaction begins, asks for the row `FOR UPDATE` | `Begin` |
| it calls Inventory, or ends without a call | `Calls`, `EndsWithoutCall` |
| it ends after its call; or fails, and `recoverFailedCreate` begins | `EndsAfterCall`, `Recover` |
| the first transaction of the recovery, then the second | `Prepare`, then `Begin` again |
| `connectionTimeoutMillis`, timers | `ConnectTimeout`, `Tick` |

Which branch is taken is left open (that is `OrdersService`); what is kept is who holds what, and
for how long. The pool of `pg` is first come, first served, and so is the queue of a row.

### Seeding

`seed.ts` beside the calls of `StockService`: `InsertMissing` changes no row of a catalogue that is
complete; a reset is a transaction of upserts (`Upsert`, one row at a time, `ResetCommits`,
`ResetFails`) that keeps the rows it has written locked, so calls wait for it (`CallStep`) and it for
them. `SEED_PARTS` is not in the order in which calls lock, so a call and a reset can wait for each
other: PostgreSQL ends one of the two (`ResetFails`, or the call's `Rollback`).

### Listing and Customers

`Listing` is `GET /v1/orders` and `GET /v1/customers` seen by a client that walks the pages while
the table changes. `where` is the set of statuses the filter lets through. `Count` and `FindMany`
are the two statements of one call, in either order and with changes between them, since each has
a snapshot of its own; `skip` and `take` are stated on the rank of a row in `orderBy`. `Start`,
`LastPage` and `Receive` are the client, which is not in the repository: it stops at the first
short page, or when the pages it has asked for cover `total`. A row's `createdAt` is fixed before
it becomes visible, so a row may appear behind a newer one, and several may have the same
millisecond. `entered` and `left` count the rows that came under the filter and dropped out of it
since the walk began; they exist for the properties only.

`Customers` adds `POST /v1/customers`: an `INSERT` that succeeds, is refused by the unique index,
fails, or succeeds unheard. An e-mail is a mailbox and a way of typing it, which is what
`normalizeEmail` removes (`EmailAssumption`). Each request is a row of its own: nothing in the code makes a repeated
create the same one, so the repetition of a create whose answer was lost gets a 409 for its own row.

### HealthService

`health.service.ts` in discrete time. `probe[a]` is the probe started `a` ticks ago, if it is still
awaited, `timer` the interval, `since` the time since the database changed.

| Code (`health.service.ts`) | Actions |
|---|---|
| `onApplicationBootstrap`: a first probe, then the interval | `Init`, `Ended` |
| `probe`: started by the interval, unless shutting down | `IntervalFires` |
| `probe`: `SELECT 1` wins or loses its race against the timeout | `ProbeSucceeds`, `ProbeFails` |
| `markShuttingDown`, `onModuleDestroy` | the same |
| outside | `DatabaseChanges`, `DatabaseReplies`, `Tick` |

Nothing stops an interval from starting a probe while earlier ones are awaited: with the legal
setting of 500 ms and the fixed timeout of 2 s there are up to five, and an old success may be
processed after a new failure. Callbacks that are due run before time goes on, and a database
that is up answers within `Latency` (the time to get a connection of the pool included). There is
always a step that lets time go on: a timer that is due fires and is reset to at least one tick, a
probe that is due ends, and neither is created again at the same age.

## 3. Runs

| Run | Instance | Shows |
|---|---|---|
| `stock_service` | 4 calls, 2 orders, 2 parts of 2 units, 3 item lists (one with an unknown part), 2 failures | every safety property of `StockService`, and that it implements `InventoryLedger` |
| `seeding` | 3 calls, 2 orders, 2 parts, 1 failure, 2 runs of the seeder, which locks in the opposite order | every started call is answered, with or without a reset; what a reset does to the books |
| `release_twice` | 3 calls, no failure | *violated*, see section 6 |
| `orders` | 3 requests, 2 keys that compete for 1 unit, 2 bodies (one with an unknown part), 3 faults, calls for one order in any order | agreement of Sales and Inventory, stable answers, conflicts |
| `orders_live` | 3 requests on 1 key, 2 bodies (one of an unknown customer), 2 faults, any order of calls | keys settle and cancels complete once faults stop; answers are kept, of an unknown customer too |
| `inventory_calls` | a reserve and a release, one restart, every loss and signal | the refinement of `RemoteCall`, clean exits, shutdowns that end |
| `order_request` | 16 environments, 4 presented keys, bodies of up to 3 items in every spelling that matters, limits of 2 | Sales and Inventory agree, one key is one order, the reader never writes |
| `malformed` | the same | *violated*, see section 6 |
| `connection_pool` | 5 requests, 4 of them on one key, 3 connections, deadline 2, margin 5, connection timeout 3 | the pool moves, no transaction expires by waiting for others |
| `listing` | 4 orders, two in one millisecond, pages of 1, rows come in and drop out | a walk skips nothing, or no more rows than dropped out |
| `customers` | 5 creates for 3 mailboxes, pages of 1, lost acknowledgements | one row per mailbox, true answers |
| `health` | interval 2, timeout 5, latency 2: three probes overlap | the status follows the database within the bounds, shutdown is final |

**Why the bounds are enough.** The lock conflicts of the ledger are between two calls on the
same order, two orders on the same parts, and a reader of a third outcome: two orders and two
parts give both kinds of lock, four calls give reserve, duplicate, release and duplicate
release of one order against the other order. Two units allow two orders to fit or one to be
short. In `seeding` one order takes all of a part, so a reset makes room for a second one while the
first is still to be released; two runs put one reset after another. The shortest damage we know of
in `OrdersService` takes a create, its retry and a cancel, with up to three faults (expired
transaction, lost answer, process death); two keys and one unit make one key's failure the other's
success. With the customer unknown a create never calls Inventory, so that body is in `orders_live`,
where it competes with the other for the key. `MaxFaults` bounds faults only, never steps of the handlers; `MaxStarts` and `MaxSeeds`
bound restarts and runs of the seeder; the models have no other bound on behaviours, since calls
and requests are finitely many. A request may be retried for ever, so `OrdersService` has cycles
and its liveness is a real question. In `order_request` the limits are 2 in place of 50 and
999: the code compares with them and does nothing else, and orders of no, one, two and three items,
with quantities of a half to three units, lie on both sides of each. Three connections and
four requests on one key make the pool run out while the row's holder still has its recovery to
come; the deadline and the margin are the least for which `MarginAssumption` is tight. The list
needs a row to pass from one page still to come to one already read, hence four pages; `health`
needs a timeout above twice the interval to have an answer overtaken by two newer probes. Its time
is capped only in `since`, beyond the last bound a property mentions, and the pool's clocks beyond
the timeouts they are compared with.

**Deadlock checking is off**, except in `health`, because the models stop when all calls are answered (or the process has exited for good, or has
refused to start); `NoDeadlock` (stock), `PoolMoves` and the liveness properties are the checks
that nothing is stuck before.

### Properties

`StockService`
- `StockConserved`: stock plus live reservations is what was seeded, at every moment.
- `NoStaleRow`, `NoStaleOperation`: what a call read under a lock is still so when it writes.
- `EvidenceChains`: the before/after evidence of all movements of a part forms one chain from
  the seed to the current stock.
- `AnswersMatchLedger`: originals and replays carry the stored evidence; one call made the change.
- `NoDeadlock`: no set of calls waits for itself.
- `Linearizable`, `ImplementsLedger`: the answers and the changes are those of the atomic ledger.

`Seeding`
- `EveryCallAnswered`: liveness of the calls, with a reset that waits for them and they for it.
- `NoStaleRow`: no value read before a reset is written from after it.
- `ResetDrift`: after a reset the stock is off by what orders reserved before it give back, to the
  unit and by nothing else; without a reset it is `StockConserved`.

`OrdersService`
- `OrderFollowsKey`, `CancelledIsReleased`, `ConfirmedIsReserved`, `NoOrphanReservation`: the four
  relations between the tables of the two services. The last one excludes the order ids of which
  a refused reserve overtook an earlier one (`overtaken`, section 6).
- `AnswersAreKept`: equal requests under a key never get two different definite answers.
- `KeyMovesForward`: the state machine of a key, and that body and answer are written once.
- `KeysSettle`, `CancelsComplete`: liveness.

`InventoryCalls`
- `ImplementsRemoteCall`: at most once, and an answer below 500 is what Inventory did.
- `CleanShutdown`: the pool is not closed while a stream is open, and exit code 0 took the answer
  from no caller who still waited on its stream. It says nothing of handlers without a stream.
- `ShutdownEnds`: liveness; a handler or `app.close()` that hangs does not keep the process.

`OrderRequest`
- `InventoryAgrees`: nothing Sales accepts is malformed, or another payload, to Inventory.
- `SameKeySameOrder`, `ReservedIsOrdered`: a key is answered 409 exactly for a different order,
  and what Inventory holds for it is the order, not a truncated or reordered one.
- `ReaderNeverWrites`: in every environment the process could start with.

`ConnectionPool`
- `PoolMoves`: requests that wait for a connection see one given or freed within one deadline.
- `NeverExpires`: with `MarginAssumption`, no transaction times out by waiting for its predecessors.

`Listing`, `Customers`
- `ListingTypeOK`: a page is never longer than asked for, which rests on the tie-break.
- `NothingSkipped`: while no row drops out of the filter, a row that was there at the start is
  given or still ahead, in every page read so far.
- `MissesAtMostChanges`: what a finished walk has missed is bounded by the rows that dropped out,
  and, for a client that trusts `total`, by those that came in too.
- `OneCustomerPerEmail`, `AnswersAreTrue`: uniqueness as the design states it, and what 201 and 409 mean.

`HealthService`
- `ShutdownIsFinal`: whatever probes were awaited when it began.
- `DownIsReported` (an interval and two timeouts), `UpIsReported` (an interval, a timeout and the
  latency): the README's promise, as bounds. Both are safety properties of the clocked model.

Every property has a mutant: an operator, marked `\* mutant` just before the original, with the
slip in the code that the property would catch (a missing `FOR UPDATE`, a lock order that differs
in release, a timeout taken for a refusal, a recovery that does not read the key again, ...).

### Fairness

- `StockService`: strong fairness of each call's own steps. A step that waits for a lock is
  enabled again and again; PostgreSQL queues waiters and grants in turn, so a call that is
  granted its lock infinitely often gets it. Faults are never required to happen, or not to.
- `Seeding`: the same of the calls, and weak fairness of a reset that has begun: it goes on, commits
  or fails. That one that waits for a call which waits for it fails is PostgreSQL's deadlock detection.
- `InventoryCalls`: only that the shutdown timer fires (weak fairness of `ForceExit`). Nothing is
  assumed of handlers, of the database or of the network.
- The other modules: none; only safety is stated. Bounds on time are safety in the clocked ones.
- `OrdersService`: strong fairness of a handler's steps (same reason, for the key's row), weak
  fairness of Inventory executing the calls that reach it, and of the client's retry, which
  `ERROR-MAPPING.md` and `RELIABILITY.md` ask of clients after a 5xx. Without retries a key may
  stay IN_PROGRESS for ever: the service has no background recovery.

## 4. Proofs

Checked by TLAPS for every value of the constants that satisfies the named assumptions of the module.

| Theorem | Statement |
|---|---|
| `StockService_proofs!TypeCorrect` | `Spec => []TypeOK`; no stock is ever negative |
| `StockService_proofs!RowsAreFresh`, `OperationsAreFresh` | `[]NoStaleRow`, `[]NoStaleOperation` |
| `StockService_proofs!Refinement` | `Spec => ImplementsLedger` |
| `StockService_proofs!Linearization` | `Spec => Linearizable` |
| `StockService_proofs!AnswersKept` | `Spec => []AnswersMatchLedger` |
| `StockService_proofs!DeadlockFree` | `Spec => []NoDeadlock` |
| `StockBooks_proofs!NoUnitIsLost`, `EvidenceIsAChain` | `[]StockConserved`, `[]EvidenceChains` |
| `StockBooks_proofs!ResetDriftIsExact`, `RowsAreFreshBesideResets` | `SeedSpec => []ResetDrift`, `[]NoStaleRow` |
| `OrdersService_proofs!TypeCorrect` | `Spec => []TypeOK` |
| `OrdersService_proofs!OrdersFollowKeys` | `[]OrderFollowsKey` |
| `OrdersService_proofs!CancelledOrdersAreReleased` | `[]CancelledIsReleased` |
| `OrdersService_proofs!ConfirmedOrdersAreReserved` | `[]ConfirmedIsReserved` |
| `OrdersService_proofs!KeysMoveForward` | `Spec => KeyMovesForward` |
| `OrdersService_proofs!AnswersLast` | `[]AnswersAreKept` |
| `OrdersService_proofs!NothingOrphaned` | `[]NoOrphanReservation` |
| `InventoryCalls_proofs!TypeCorrect`, `ShutdownIsClean` | `[]TypeOK`, `[]CleanShutdown` |
| `InventoryCalls_proofs!CallsImplementRemoteCall` | `Spec => ImplementsRemoteCall` |
| `ConnectionPool_proofs!PoolNeverStops`, `TransactionsEndInTime` | `[]PoolMoves`, `[]NeverExpires` |
| `OrderRequest_proofs!InventoryTakesWhatSalesSends` | `[]InventoryAgrees` |
| `OrderRequest_proofs!KeyStandsForOneOrder`, `ReservationIsTheOrder` | `[]SameKeySameOrder`, `[]ReservedIsOrdered` |
| `OrderRequest_proofs!ReadersOnlyRead` | `[]ReaderNeverWrites` |
| `HealthService_proofs!Withdrawn`, `DownReported`, `UpReported` | `[]ShutdownIsFinal`, `[]DownIsReported`, `[]UpIsReported` |
| `Listing_proofs!ListingTypes`, `NeverSkipped`, `FewMissed` | `[]ListingTypeOK`, `[]NothingSkipped`, `[]MissesAtMostChanges` |
| `Listing_proofs!WalkComplete` | a walk to the first short page, with no row dropped out, is complete |
| `Listing_proofs!OneCustomer`, `CustomersAnswered` | `[]OneCustomerPerEmail`, `[]AnswersAreTrue` |

**From which assumptions.**

- *Stock*: `CatalogueAssumption` (part ids are numbers, finitely many; PostgreSQL orders UUIDs, numbers
  stand for that order), `SeedAssumption`, `CommandAssumption` (what `parseReserveRequest` guarantees:
  at least one item, positive quantities) and `FaultAssumption`. The set of orders may be infinite.
- *Seeding*: besides, `SeedPartsAssumption`: the list of the seeder names every part of the catalogue,
  in any order.
- *Orders*: bodies have items of the ledger's `Payloads`; `NobodyAssumption` (the caller of an abandoned
  call is no request); `TransportFailures` are statuses that the mapping makes 500 and above.
  Nothing is assumed of the order in which calls take effect.
- *Calls*: any set of calls, method of each and number of restarts.
- *Pool*: `PoolAssumption` (types), and `MarginAssumption`, without which `NeverExpires` is false
  (section 6); `PoolNeverStops` does not use it.
- *Requests*: `LimitsAssumption` (the limits are positive) and `BodiesAssumption` (an id is one of the six
  forms, items are a sequence). Any environments, keys and ids.
- *Health*: any interval, timeout and latency below the timeout (`TimeAssumption`).
- *Lists, customers*: any finite table, order of creation, page size and filter (`RowsAssumption`,
  `QueryAssumption`); an e-mail is a mailbox and its typing (`EmailAssumption`).

**The arguments.** *Stock* (`IInv`). `NoStaleRow` is not inductive: a commit changes the stock under a
call that has read it, unless the two hold different rows, and it writes only rows it holds. `IInv` adds
just that: one owner per order (`OneOwnerPerOrder`) and per row (`OneOwnerPerRow`), and what a
call holds at each `pc` (`Transactions`: rows only of its own items, all of them and validated when
it writes, staged values computed from what it read). Two lemmas cover almost every step: a
call that ends without publishing (`EndKeepsIInv`), and a step that changes only its own call
(`OthersUnchanged`). Commits are the interesting case (`PublishKeepsIInv`).
Refinement and linearization follow: under `IInv` the values a
call has seen are the committed ones, so its commit, or its refusal, is the ledger's step, or
answer, in the present state. `AnswersKept` adds that an OK answer rests on an operation that
is never taken back (`AInv`). `DeadlockFree` adds `LocksInOrder` (held rows come before the
rows still to lock); among blocked calls one with the fewest parts above its next row waits
for none of the others, by well-foundedness of strict inclusion on subsets of the catalogue.

*Books* (`StockBooks_proofs`). The sums of `StockConserved` are folds over sets, which take the
elements in an order of their own. That the order does not matter is shown once (`SumWithout`: a sum is
any element and the sum of the others), by a least set for which it fails; then a commit moves one order
from one sum to another (`TakingKeepsBalance`, `GivingBackKeepsBalance`). Beside resets the same balance
holds against the set of orders `carried` over the last one (`SeedBooks`), because a reset commits only
while it holds all rows, when no call is between reading a row and writing it
(`SeederIsAlone`, `ResetFindsNoReader`). The chain of evidence is a count for each stock level v: movements
that start at v and movements that end there balance, but for the seed and the present stock
(`Chained`).

*Orders* (`OrdersService_proofs!IInv`). `ConfirmedIsReserved` is not inductive: nothing in it says why
the release that is on its way, perhaps without a caller and overtaken by others, is not of this
order. The invariant says who may do what, in four parts: one handler holds a key's row
(`OneHolder`); what a handler at each place holds, is about to write and waits for (`Handler`: only
one that holds the row and has seen IN_PROGRESS under it will write CONFIRMED or COMPENSATING, and only
after Inventory's OK); a call on its way is still justified by the tables (`Wires`: a release only if
the key is being compensated, or a cancel of its order was asked for); and what key, order and
reservation say of one another (`Record`). A step is then a step of one key (`Progress`: nothing is
ever taken back), which all the other handlers and messages survive (`MayRelease` is stable). The
interesting cases are a commit, which may come after the caller has lost its row and must then
write nothing, and `Execute`, where Inventory acts on a message whose sender is long gone.
`AnswersLast` adds `AInv`: a definite answer is the stored one, or the conflict,
from the moment a handler intends it until it is given. `NothingOrphaned` adds `OInv`: a key is closed
as failed only when its order is `Drained`, that is released, or not reserved and with no reserve on its
way, or `overtaken`. What makes this inductive is `LastIsOwn`: while a handler holds the key's row and waits, no call
follows its own. When Inventory refuses it, either no reserve was sent before it and none is left, or one
was and the order is `overtaken` from then on. A compensation closes the key only after Inventory's OK.

*Calls* (`InventoryCalls_proofs!IInv`). A reply says what the handler did, and INTERNAL says nothing
(`Reported`); a call that can still reach the server has not been carried out. With the tables of
`ErrorMapping` (`Rejection`: below 500 only from a definite status) each step of gateway, server or
process is a step of `RemoteCall` or changes nothing it sees. `StillRunning` is what `CleanShutdown`
needs to be inductive over a restart.

*Pool* (`PInv`). Who stands in the queue of a row holds a connection, so at most `Connections` do
(`RowsFit`, by the pigeonhole principle), and only the first calls. One at place i has waited for at most
`Connections - i` calls and the one that is running (`WaitsBounded`; `EndStep` moves everybody up by one place
at the price of one call). `PoolMoves` needs `StallsBehindCalls`: time goes on only while the first of every row is in a
call, each of those calls is at least as old as the stall, and with no connection left there is one.

*Requests* (`RInv`). The key's row is the hash of an accepted order, and what Inventory holds is
nothing or that order (`Claimed`). The rest are facts about the operators: the pipe accepts what the reference
calls well-formed, and nothing else (`PipeIsReference`); sorting is a permutation (`Places`), and two sequences
with the same items and no part twice sort alike (`SortsAlike`), because an item has the same number before it in both;
hence a hash stands for an order (`HashIsOrder`), and what Sales sends survives the encoding and
the parsing and is its own fingerprint (`Canonical`).

*Health* (`HInv`): a status that is out of date for longer than a timeout is `Watched`: a probe that
will put it right is on its way, or the timer will start it within the interval, and the sum of
ages is bounded. Without that, nothing bounds how long a stale status lasts. Answers of a database
that is down are as old as the change (`DownInv`), and refusals of one that is up (`UpInv`).
*Listing* (`LInv`): the tie-break makes the order total (`TotalOrder`), so ranks differ
(`RankInjective`) and a page is never too long (`PageBound`); a row of the least rank beyond a page
shows that the page is full (`FullPage`), so a short page has all that was left. Rows that come in
only increase the ranks of others (`InsertKeepsSteady`). `FewMissed` adds `MInv`: of the rows not yet
given, those `Behind` the walk are no more than have dropped out, since only a row that drops out moves others
forward, each by one place.
*Customers* (`CInv`): rows of one mailbox exclude each other, and a 201 has its row; the index
compares normalised e-mails, which are equal exactly for one mailbox (`OneSpelling`).

**Only model-checked**: the liveness properties `EveryCallAnswered`, `KeysSettle`, `CancelsComplete` and
`ShutdownEnds`. They rest on fairness and on ENABLED, which the prover does not reach.

## 5. Not modelled, and the plan

Not modelled: the Docker health probe (one call, whose result is an exit code); logging, trace ids
and the mapping of rows to JSON; the wording and envelope of errors (status and code are modelled);
what the single-statement reads (`GetPart`, `ListParts`, `get`, `findById`) read; ports, URLs and log
options of the configuration; the query parameters of the lists and the fields of a customer, which
are bounds on one value each; experiments and deployment files. None of them keeps state that the
protocols above depend on.

Done: all modules of section 2, with a theorem for every safety property that a run checks.

Left, in order:
1. Safety parts of the liveness properties that can be stated without fairness: a key that is not settled always
   has a request that may still settle it.
2. The deadlock between a call and a reset: that PostgreSQL's detector is needed only for that pair.
3. `OrdersService` over `StockService` instead of `InventoryLedger`: the refinement shows that nothing
   new can happen, so this would only check the composition itself.

## 6. What was found

- **Releasing twice.** `docs/architecture/ERROR-MAPPING.md:57` lists a release of a
  reservation that is "inexistente o ya liberada" as `NOT_FOUND` / `FAILED_PRECONDITION`. The code
  (`stock.service.ts:204-206`) answers OK with `replayed = true`. The run `release_twice`
  shows it. The rest of the system needs the code's behaviour: with the table's, a cancel whose
  answer was lost could never be completed (the mutant of `CancelsComplete`).
- **A part id that is a number.** `docs/architecture/ERROR-MAPPING.md:20` answers a malformed request
  with 400 `VALIDATION_ERROR`. The identifier of `@ArrayUnique` (`order.dto.ts:33`) calls
  `toLowerCase` on whatever was sent: for a number it throws inside the validation, and the filter makes it a 500. The run
  `malformed` shows it. No state is touched.
- **A second signal.** `main.ts` registers its listeners with `process.once` and means to ignore
  further signals. A second signal of the *same* kind finds no listener and kills the process in the middle
  of the drain (`SignalAgain`); one of the other kind is ignored. The process is then not
  reported as cleanly exited, and callers get unknown outcomes, so no property fails.
- **Deadlines beyond the margin.** The transaction's timeout is its own deadline and 10 s more. Up to nine
  predecessors on the key, each with a call of its own, fit into that for the default of 800 ms
  (`MarginAssumption`), but `INVENTORY_RPC_DEADLINE_MS` may be set up to 120 000, and then requests that
  repeat one key can expire while they wait. `OrdersService` shows that this is safe; it costs answers.
- **Order of rows in the reset.** The seeder locks in the order of its list and the calls in that of ids, so
  a reset can deadlock with a call. PostgreSQL ends one of the two and nothing is lost; the
  ledger itself is free of deadlock (`DeadlockFree`).
- **Order of delivery.** A `ReserveStock` that timed out may be executed after its retry was refused for
  lack of stock and the key was closed as failed; if another order has given stock back meanwhile, it
  reserves units that no order accounts for and no retry releases. Nothing in the gateway, in gRPC
  or in the order in which advisory locks are granted excludes this. `NoOrphanReservation` names the case
  (`overtaken`) and shows, as does `NothingOrphaned`, that there is no other: no crash, expired transaction
  or lost answer alone leaves such a reservation. It is listed as a hazard and not as a disagreement:
  no document says more than the code does here.
- **Handlers without a stream.** `main.ts:42-44` and `apps/inventory-grpc/README.md` say that a shutdown lets the
  calls in progress end. What gRPC's graceful shutdown waits for is their streams: a caller who gives up at
  its deadline closes its own while the handler works on, so the pool may be closed under that handler and
  the process exit with code 0. Its transaction is then rolled back or was committed, and its caller has
  long taken the outcome for unknown, so no answer becomes false (`ImplementsRemoteCall`). `CleanShutdown`
  promises nothing for it.
- **Trusting `total`.** The total of a page may be older than the page. A client that stops when its
  pages cover `total` can miss a row although rows were only added; one that goes on to the first
  short page cannot. With the filter `status=CONFIRMED` both may miss rows when an order is
  cancelled meanwhile. No document says otherwise; `MissesAtMostChanges` is what does hold.
