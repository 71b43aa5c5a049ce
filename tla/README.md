# A TLA+ model of PILOTS

PILOTS is a logistics backend in TypeScript: an HTTP and WebSocket API over
PostgreSQL and Redis, background jobs, engines that plan routes, allocate
orders, track shipments and watch for anomalies, and a client that runs in the
truck. Nearly every operation is an `async` function whose awaits on PostgreSQL
and Redis are the only points where another request, another server or a crash
can come in. This directory models the parts whose correctness depends on what
happens at those points.

Conventions: each await is a step of its own, named after what the call does;
variables keep the source's names where TLA+ allows; history variables (marked
"history") only record the past for a property. Sources are given relative to
`src/`.

## 1. The system

| Component | State | Operations | Interacts with | Hard behaviour | What makes it correct |
|---|---|---|---|---|---|
| Job queue and worker (`core/queue/queue.ts`, `worker.ts`, `api/routes/jobs.ts`) | job hashes with a TTL, three lists of ids, a dead-letter list; per worker: running, active jobs, retry timers | enqueueFull, replayDlqJob, processJob, requeueJob, moveToDlq, stop | scheduler and API enqueue; handlers | destructive pop, timeout racing the handler, retries through in-process timers, failed calls half way, stop() during a pop | a job is in one place, runs at most its budget, and disappears only through a failure |
| Recurring scheduler (`core/queue/scheduler.ts`) | sorted set of entries, a lock with a TTL | scheduleJob, cancelScheduledJob, tick, stop | enqueues into the job queue | several servers, lock that expires under a tick and is released by anybody, reschedule-then-enqueue | each run enqueued once; cancelled means cancelled |
| Shipment event log and cached state (`engines/tracking`) | `tracking_events` with a hash chain, cached state in Redis | recordEvent, getCurrentState, verifyEventChain, findLateShipments | shipment and driver routes; retention deletes rows | three statements per append, cache fill racing invalidation | verification blames only what was touched; the cache is current |
| Retention (`core/compliance`) | policies | runAll | scheduler, event log | deletes the head of a chained log | what is left verifies as an edited log would: `VerificationIsJust` names it |
| Shipments (`api/services/shipment.service.ts`, routes) | shipment rows | create, status, exception, location | event log, WebSocket rooms | row and event in separate statements; no guard on status changes | row and log agree |
| Route planning (`api/services/route.service.ts`, `core/queue/simple-queue.ts`) | route and order rows, simple queue | optimizeRoutes, runOptimizationJob, confirm, reassign, complete | optimizer, orders | check-then-update, stale input, swallowed errors | an order is on one live route; a route moves planned, confirmed, completed |
| Orders, allocation, inventory (`order.service.ts`, `warehouse.service.ts`, `engines/allocation`) | order and warehouse rows, decisions | create, allocate, reallocate, upsert | event bus | stale order, two-statement sync of totals | totals equal the sum; the assignment is a cheapest one |
| Route optimizer (`engines/route-optimizer`) | search stack | solveVRP | route planning | bound of the pruning | never worse than greedy; optimal when it says so |
| In-process jobs (`core/jobs`) | timers, locks with an owner, SMS list | executeJob, processSmsQueue | Redis | timeout releases while the handler runs; retry copies | one execution at a time; a message is in one list |
| WebSocket server (`core/ws`) | connections, rooms, pong timers | join, leave, publish, heartbeat | shipments, truck client | timers per connection, local and Redis delivery | no membership of closed connections; delivered once |
| Truck client (`clients/truck`) | SQLite queue, socket, timers | collect, sync, reconnect | WebSocket server | overlapping syncs, marks before acknowledgement, stale timeouts | no reading lost or duplicated silently |
| Login and lockout, refresh tokens (`auth.service.ts`, `core/auth`) | failure counters, token rows | login, refresh, logout, password change | Redis, PostgreSQL | counter and expiry in two calls; rotation in several statements | lockout ends; one live refresh token |
| Rate limiter | sliding windows | one middleware | every request | count, then add | at most the limit in a window |
| Webhooks and billing (`core/webhooks`, `integrations`) | processed ids, subscriptions, failure counts | webhook handlers | Stripe, Shopify, Twilio | redelivery, concurrency, reordering | each event applied once |
| Key rotation, field encryption (`core/crypto`) | encrypted columns | rotateField, rotateTable | writers of the column | read, re-encrypt, write back | no write is lost |
| Database access, migrations (`core/db`) | `_migrations` | migrate | server start | migration and record in two statements | each migration applied once |
| Pricing, fraud, analytics engines | baselines | updateBaseline and pure arithmetic | PostgreSQL | read-modify-write of a baseline | no observation is lost |
| HTTP server, event bus, audit, logging | - | - | all | - | - |

The hazards this gives rise to are listed, each at its line, in `PROJECT.json`
with the properties that would catch them.

## 2. Order of the work

The modules were written in the order of their importance, and this is also the
order of section 3: the queue every background job goes through (`JobQueue` and its
abstract specification `JobLifecycle`), what feeds it (`Scheduler`), a shipment's
audit trail and its row (`TrackingLog`, `Shipments`), planning and life of routes
(`RoutePlanning`, `RouteSolver`), orders and their assignment (`OrderAllocation`, `Hungarian`),
the truck and the servers it talks to (`TruckClient`, `Realtime`), and the smaller services, each a
protocol of a few calls (`AuthManager`, `ApiAuth`, `RateLimiter`, `Billing`, `Twilio`, `RecurringJobs`,
`KeyRotation`).

The proofs follow the same order, and cover every invariant and every action property that a run checks. What no theorem
states is liveness, which stays with TLC.

## 3. Modules

### JobQueue, JobLifecycle

`JobQueue` models one queue name: callers, any number of workers
(`startFullWorker`), their concurrency slots and their timers.

| State | In the code |
|---|---|
| `record` | the hash `pilots:job:<id>` (status, attempts, maxRetries, priority; `None` once expired) |
| `list`, `dlq` | the three `pilots:queue:<name>:<priority>` lists and `pilots:dlq:<name>` |
| `fresh`, `submitting` | ids not drawn yet; jobs between `saveFullJob` and `RPUSH` |
| `scan` | where `tryDequeue` of a worker is blocked |
| `slot` | each running `processJob`: the call it awaits and the copy of the job it holds |
| `timers` | ids waiting in the `setTimeout` of `requeueJob` |
| `running`, `stop` | the worker's flag, and the promise `stop()` returned |

| Action | In the code |
|---|---|
| `Submit`, `Enlist`, `EnlistFails` | `enqueueFull`: save, then push |
| `Replay` | `replayDlqJob` up to its save |
| `BeginScan`, `Miss`, `Pop`, `PopFails` | `loop` and `tryDequeue` |
| `GetJob`, `MarkRunning`, `HandlerSettles`, `MarkDone`, `HandleFailure` | `processJob` |
| `ReadForRequeue`, `SaveRequeued`, `FireTimer`, `TimerFails` | `requeueJob` |
| `MoveToDlq` | `moveToDlq` |
| `CallFails` | a Redis call of `processJob` throws, whether or not it took effect |
| `Stop`, `Crash`, `Expire` | `stop()`, death of the worker's process, the 24 h TTL |

The handler is a choice: it fulfils, rejects or is timed out. A handler that
has been timed out keeps running in the program; it holds no state of the queue,
so what it does is outside the model. Payloads, results and timestamps are left
out (`executionTrace` is always empty: no code appends to it). A hash that has
expired is created again by the next `HSET` with a status and nothing else; `HSet`
models what the next reader makes of it. A second `stop()` of the same
worker, which replaces the first one's resolver, is not modelled. A call that
the Redis client sends again after a lost connection is not modelled either.

`JobLifecycle` is what the queue promises about one job: a phase (accepted,
queued, active, backoff, then done, failed, lost or gone) and a number of
retries that only decreases. `JobQueue!Lifecycle` maps the lists, slots, timers and
hashes to it.

### Scheduler

`entry` is the sorted set, reduced to whether an entry's score has passed; `lock`
is the lock (the model keeps who set it, which the code does not);
`pc`, `batch`, `current` are what each server's tick awaits, has read and is
enqueueing. `Acquire`, `ReadDue`, `Reschedule`, `Fire`, `Release` are the five
calls of `tick`, each with its failure; `LockLapses` is the TTL that runs out under
a tick still going, `AbandonedLockExpires` the one of a tick that is no more.
`CancelFinds` and `CancelRemoves` are the two calls of `cancelScheduledJob`;
`Schedule` is `scheduleJob`, which each server calls again when it starts.

### TrackingLog

The rows of one shipment in `log`, in order of `created_at`, and its cached state in
`cache`. `Start`, `Insert`, `WriteHash`, `Invalidate` are the four calls of
`recordEvent`; `Miss`, `Replay`, `Fill` those of `getCurrentState`; `Edit` is any
other statement that changes a row, `Trim` the retention policy. A hash is the
sequence of the contents it was computed from, so two are equal only if the
contents are. `Reduced` is `reduceEvents`, and `Valid`, `FirstBroken` are what
`verifyEventChain` returns (nothing in the program calls it yet). Rows are taken
to be numbered in the order they are inserted. `kind` stands for the columns the
hash covers, `status` for the one it leaves out (`event_status`), which `EditStatus`
changes; neither `reduceEvents` nor the verification reads that one. `Edit` leaves the stored
hashes and `created_at`, by which the events are ordered, as they are.

### RoutePlanning

| State | In the code |
|---|---|
| `order`, `route` | rows of `orders` (the status, and whether a warehouse is allocated); rows of `routes` (the job that inserted one is history) |
| `record`, `list` | the hash `job:<id>` (status, and whether the payload is still there) and the list `queue:route-optimization` |
| `request`, `wanted` | `optimizeRoutes` between its check and its answer; the orders of its payload |
| `worker` | the loop of `startWorker` in each server and the job it holds |
| `call` | `confirmRoute` or `completeRoute` between its SELECT and its UPDATE |
| `profile` | the cell of `speed_profiles` the calls feed |

`Accept`, `SaveJob`, `PushJob` are `optimizeRoutes` and `enqueue`; `Pop`, `Read`, `Mark`,
`Solve`, `Insert`, `Allocate`, `Finish` the worker with `runOptimizationJob` as its handler,
each with its failure (`ReadFails`: `getJob` then returns a synthetic job without a
payload, `SaveFails`: outside the try the loop is dead); `ReadToConfirm`, `Confirm`,
`Reassign`, `ReadToComplete`, `FeedLeg`, `Complete` the life of a route. `AllocateToWarehouse` is
the UPDATE of `runAllocation` (`order.service.ts:128`), the other writer of an order's status: `createOrder` with coordinates and
`reallocateOrder` come to it at any moment and for an order in any status, on a route or not. `OrderAllocation` has
what leads to it, and the converse, `RouteOrder`. The solver is any
choice of disjoint groups of the orders. A call that fails leaves the effect of the step
it stands at to that step, or has none. The history variables record which
requests, calls and failures overlapped, for the exceptions the properties name.
The worker's `stop()` has no caller and the 24 h expiry of a hash is not modelled.

### RouteSolver

One call of `solveVRP` on an input chosen in `Init`. `Assign` is an iteration of `greedyInit`;
`Solve`, `Prune` and `Branch` the three ways through an iteration of `branchAndBound`, whose
`stack` keeps the order in which children are pushed; `TimePasses` the time
limit; `Answer` what `solveVRP` makes of the result. Distances are those of any metric
with natural numbers, so the code's margin of 1e-9 is nothing; weight and
volume, two limits of one kind, are one. The capacity buffer, which only
the stochastic planner asks for, is left out. `Plans` and `CostOf` define what a shortest
plan is, without reference to the search.

### Shipments

Extends `TrackingLog` by the row of the shipment (`row`: status and exception flag), the
request each append serves (`what`) and what that request awaits (`handler`). `CreateRow` is the
transaction of `createShipment`, `RecordCreated` the event it records after the commit,
`PostEvent` the route that records any event, `MarkException` and `Flag` the event and the UPDATE of
`markException`, `UpdateLocation` the driver's location, which is recorded only for a row whose
status says that it is under way and that has a driver: no statement of the program
writes either. Between them run the steps of `TrackingLog` itself, unchanged; `CreateDies`, `RecordFails` and
`FlagFails` are the failures.

### OrderAllocation, Hungarian

`orders` are the rows, `decisions` the table of allocation decisions, `inventory` and `currentUnits` the
lines of the warehouses and their totals. `CreateOrder` and `ReallocateOrder` begin an
allocation (`allocation` is what it awaits); `ReadWarehouses`, `UpdateOrder`,
`RecordDecision` are the statements of `runAllocation`, `SetLine` and `SyncUnits` the two of an inventory PATCH. The penalty
of a warehouse that is over 80 % full is computed as in `buildCostMatrix`, so
what is read may be stale by the time it is written. `RouteOrder` is what `RoutePlanning`
does to an order's status.

`Hungarian` runs the solver on a cost matrix chosen in `Init`: `NextRow`, `Grow` and `Augment` are the rounds of its three
loops, with the arrays `u`, `v`, `p`, `way`, `minDist` of the source. `Cost` and `IsAssignment` define the cheapest
assignment without reference to them. A matrix that is not square is filled
up with `Padding`, half of the largest exact integer in the code, an ordinary number in either place (in units of a half);
`Infinity`, which `minDist` begins with, is no number, and every cost is below it. Ties are
broken as in the code, by the least index: `nearest` is the column `j1` the inner loop ends with.

### TruckClient, Realtime

| State of `TruckClient` | In the code |
|---|---|
| `mode`, `awaited`, `collecting` | the process: what `start()` and `stop()` wait for; the intervals are set |
| `socket`, `ws`, `connected` | every WebSocket made, `this.ws`, `this.connected` |
| `retryCount`, `retryTimer`, `timeouts` | `this.retryCount`, the reconnect timer, the connection timers of all sockets |
| `rows`, `synced`, `inserting` | the SQLite table, the rows marked, INSERTs under way |
| `sync` | each call of `syncQueue`: at its SELECT, its send, its UPDATE |
| `wire`, `received` | readings sent on each socket; what the backend got |

`Start`, `Stop`, `Exit`, `Crash` are the process; `Open`, `Refused`, `PeerCloses`, `CloseEnds`, `Breaks` the events of a socket,
`Timeout` and `Reconnect` the timers; `Collect`, `Enqueue`, `EnqueueFails` a reading; `BeginSync`, `ReadRows`,
`SendBatch`, `MarkSynced`, `SyncFails` a synchronisation, which the 'open' event starts as well as the
interval; `Receive` is the backend. A reading is one number; what is measured, and the alerts made of it, are left out.

`Realtime` models the servers' maps: `connections`, `rooms` and `connRooms` of the room manager,
`missed` and `missTimer` of the heartbeat, and the Redis subscription of each server in `channel`. Handlers and
timers run to their end, so each is one action: `Attach`, `Join`, `Leave`, `CloseFrame`, `End`, `SocketClosed`, `SocketError`,
`Heartbeat`, `Pong`, `Miss`, `Broadcast`, `Publish`, `PMessage`, and the death of a server. `GoSilent` is a client that stops to
answer. The interval and the timers drift: a heartbeat may find two or three
of its predecessors unanswered.

### AuthManager, ApiAuth, RateLimiter

Two services answer for logins. `AuthManager` is `core/auth/authentication-manager.ts` for one user:
the count in memory (`failed`, `locked`), the rows of `login_attempts` of the last 15 minutes (`recent`), the row of
`refresh_tokens`, the blacklist, and up to two calls at a time: `CheckBruteForce`, `SelectUser`,
`PasswordWrong`, `PasswordRight`, `InsertAttempt`, `StoreToken` of a login; `BeginRefresh`, `DropOldToken`, `StoreToken` of an exchange; `Logout`;
`BeginChange` or `BeginReset`, `UpdatePassword`, `ClearResetToken`, `RevokeTokens` of a new password. `ApiAuth` is
`auth.service.ts` with `jwt.ts`: the counter in Redis with its two calls, and the blacklist entry of a token, told to the
millisecond while its expiry is told in seconds (`TicksPerSecond` ticks each). Redis may be away for any call
and is then passed over, as in the code. `RateLimiter` is one key's sorted set: `Expel`, `Count`, `Add`.

### Billing, Twilio

`Billing` has the two Stripe connectors, which share nothing. `CreateCustomer`, `CreateInStripe`, `StoreSubscription` create a
subscription; `StripeEvent` is Stripe's side, where events are numbered as they happen and delivered late, again or in another
order; `InvoicePaid`, `FindFailed`, `PaymentFailed` handle them; in `CreateFails` and `DeliveryFails` the failed statement
may have had its effect. The other
connector counts: `ReadFailures`, `CountFailure`, `ResetFailures`, and `ThirtyDaysPass`, after which its SELECT finds no count
whatever was added since. `Twilio` has the replies of customers with the marks of
the webhook handler (`Incoming`; then `FindDelivery`, `RequestReschedule` and the confirmation, or `FindNothing`, after which nothing is requested or
sent; then `MarkProcessed` either way), what is sent through `sendSms` with its count of rows (`Outgoing`, `ReadLogs`, `LogSent`,
`LogFailed`), and the notifications with their key in Redis (`SetIfAbsent`, `ExpireKey`, `Post`).

### RecurringJobs, KeyRotation

`RecurringJobs` composes `executeJob` (`Acquire`, the race that `Settle` ends on either side, `ReadLock` and `DeleteLock`) with the handler it runs,
`processSmsQueue` (`ListPending`, `Send`, `Remove`, `Record`, and for a message that was not sent `Retry` or `GiveUp`); the handler of a race that timed out goes on. A lock's TTL
outlives the race by 10 s, so it expires only once the race is over. Copies of a message
are told apart as the strings in the list are.

`KeyRotation` has one column: each row's key version and value, `Write` of a server that
encrypts with its own newest key, and `SelectRows`, `SelectField`, `UpdateField` of a rotation, by servers that know
different keys.

### MC modules and proofs

`MCJobQueue`, `MCScheduler`, `MCShipments`, `MCRoutePlanning`, `MCRouteSolver`, `MCTruckClient` name the values of an instance.
The constants of `MCServices` that are functions or sets of them (`Matrices`, `Distance`, `Capacity`, `Keys`) get
their values in the cfg from definitions of the module, so that the proofs are about any.
`MCFleet` and `MCServices` check several modules in one run: the variable `part` chooses in `Init` which of them
takes steps, the others stay as they begin. The parts share no state in the program either, or
only through rows that another module also writes and that this one then treats as a step of its
environment (`RouteOrder`). A module of proofs extends the module it is about: `JobQueueProofs`, `SchedulerProofs`,
`ShipmentsProofs`, `FleetProofs`,
`RoutePlanningProofs`, `RouteSolverProofs`, and for `MCServices` `ServicesProofs` (each service's invariant) with, on top of it,
`AssignmentProofs` (the Hungarian algorithm, and the types of all services).

## 4. Runs

| Run | Shows |
|---|---|
| `job_queue` | Types and limits; `NoDoubleDelivery` (an id is in one place: about to be pushed, one list entry, one slot, one timer); `RetryBudget` (at most maxRetries + 1 runs); `NothingDropped` (only a failure or an expired hash makes a job disappear); `ImplementsLifecycle` (refinement of `JobLifecycle`). |
| `job_queue_live` | Every accepted job comes to rest and every stop() returns, under fairness. |
| `scheduler` | How far the lock protects: `OneScheduler` (one more tick per lapse), `ExactlyOncePerRun` (no run is skipped or doubled without a lapse, failure, cancellation or registration), `CancelledForGood`, and `DueIsServed` under fairness. |
| `shipments` | `VerificationIsJust`: an edit of a column that the hash covers (type, position, details: not `event_status`) is always reported, and an event untouched in these only when its append overlapped another, failed, or followed a failed one. `CachedIsCurrent`: when the cached state may differ from the log. `RowAgreesWithLog`: what an answered request left in the row is in the log and the other way round. |
| `shipment_location` | Expected violation: a shipment whose log says in transit does not record its driver's location, against the product document. |
| `route_planning` | `PlannedTwiceOnlyByRivals` (an order is on two routes only if the second request was accepted before the first job had ended, or a job was cut short); `RoutedIffAllocated` (an order on a route is allocated, but for a job between its statements or cut short; an allocated order is on a route or has a warehouse, whatever `order.service.ts` allocates in between); `DoneIsTrue` (a job reported done had its payload and finished its statements); `JobsEnd` (a queued job ends while a worker is alive, unless a failure cut it short). |
| `route_life` | `CallsAreTruthful` (who was told that a driver is confirmed was told the truth; each leg feeds the speed profile once), `UncontestedMovesForward` (planned, confirmed, completed): unless two calls overlapped, one failed or, for the driver, somebody reassigned the route. |
| `route_solver` | What the search holds can be driven and costs what it says (`SearchIsSound`); `NeverWorseThanGreedy`; `OnlyBoundLosesPlans` (for vehicles all alike, branching covers every plan better than the best so far: only the bound can lose one). |
| `route_exact` | Expected violation: an answer certified as proven optimal is not the shortest. |
| `fleet` | The truck: `OneConnection` (this.ws is the only socket alive, and no retry waits beside it), `ReadingsAccountedFor` (a reading is lost only with a broken connection, a failed statement or a stop, and received twice only if two syncs or a restart sent it twice), `StopEnds`, `QueueDrains`. The servers: `MapsAgree` (rooms, their inverse, connections and timers; a message reaches a subscriber once, or twice if it was published on the subscriber's own server), `DropsTheSilent` (the heartbeat drops a connection only after unanswered pings, and drops every silent one). |
| `truck_start` | Expected violation: after a refused first connection the client never collects, against its README. |
| `services` | `AssignmentIsOptimal`; `OrdersConsistent` (an order's latest decision is what its row says; totals are the sum of the lines); `SessionsEnd` (logout and new passwords end sessions, a refresh token is exchanged once, a token that logged out is refused); `LimitsHold` (failed logins and requests exceed their limits by overlapping calls at most; a lockout ends); `BillingFollowsStripe`; `JobsExcludeEachOther` (one execution in its race; a message is sent once); `MessagesLimited`; `RotationKeepsAll`. Each names the overlaps and failures under which it does not hold; a property of several conjuncts is one because they are one promise about one piece of state. |

Deadlock is not checked where the system may stop: routes, shipments and services whose bounded
calls are used up, a search that has answered, a truck that is switched off. The queue and the scheduler
cannot stop, and it is checked there.

A bound found while modelling: after a single lapse, two servers can keep
releasing each other's locks for as long as their ticks overlap, so
the number of extra enqueues is not bounded by the number of lapses but by
lapses times runs; `AtMostOncePerRun`, a part of `ExactlyOncePerRun`, states that.

### Bounds

* `MCJobQueue.cfg`: two jobs, three slots on two workers, so two jobs can meet on one
  worker, on two, or in one slot after the other; retries requested above the
  cap (2, cap 1), so the clamp, one retry and the last failure all happen; a
  dead-letter list of one entry, so the second failed job pushes the first out;
  one failure (call or crash) at any point and one expired hash. The second
  job exists only once it is submitted or replayed from the first. Ids and the two
  slots of a worker are symmetric: no action, invariant or action property tells
  them apart. The priority is fixed in each run: the property of interest, that a
  requeued job goes back to a list that is polled, does not depend on which.
* `MCJobQueueLive.cfg`: no symmetry and no expiry, since an expired hash resets the
  retry count and so permits no bound (nor, when it keeps happening, an end).
* `MCScheduler.cfg`: two servers, the least that can overlap; two entries that share a
  name, so that a cancellation has to choose; one of them becomes due twice; one lapse
  and one failure. `lapses` being a parameter of the properties, more lapses only
  weaken them.
* `MCShipments.cfg`: three requests, the least for an append that follows one of two overlapping ones and for
  a creation beside two exceptions; one reader, failure, edit and deletion. `MCShipmentLocation.cfg`: the three
  requests of the story, no failure.
* `MCRoutePlanning.cfg`: two requests, so one can be accepted at any point of the
  other's job; two orders and two vehicles, so a job may insert two
  routes and fail between them or leave an order out; two workers, so the jobs can
  overlap; two failures, so that both workers can die. Either order may be allocated to a
  warehouse at any point. Four rows, two for each job, suffice; no route by hand, no calls on routes.
* `MCRouteLife.cfg`: one route, by the job (one or two legs) or by hand; three calls at
  once, any number after one another, two drivers, two failures.
* `MCRouteSolver.cfg`: all inputs of up to three stops and two vehicles on five places of
  a line, the smallest where a stop fits between two others or before them, a stop
  does not fit the first vehicle, the heuristic goes the wrong way first, and the
  exact threshold (2 here, 8 in the code) has inputs on both sides. `MCRouteExact.cfg`:
  one vehicle and the threshold of the code.
* `MCFleet.cfg`: one reading and two overlapping syncs, which can already send it twice; two sockets, the
  old one of which has a timer while the new one is connecting (a socket that is closed and
  whose timer is gone is used again); two attempts to reconnect, one
  fault of each kind, a second start. Two servers with both connections on one of them, so that two heartbeats, a close and
  a message meet; three missed pings as in the code; one message; one server that dies.
* `MCTruckStart.cfg`: one reading, two sockets, no faults: the refusal is the network's.
* `MCServices.cfg`: two calls at a time everywhere, the least that overlap, and one failure (two for messages).
  Matrices of 2 by 3, 3 by 2 and 3 by 3, so that rows or columns are left over and a path is turned over;
  one order with three runs of the allocation and two warehouses, the nearer of which fills up; two failed
  logins that lock and three tokens; two ticks to a second, so that a logout falls between two seconds; a window of two
  ticks with two requests let through; two events and two subscriptions; three failed
  payments suspend, as in the code; three executions, the least for two releases that meet
  a third lock; one message with one retry; three key versions, one of them new to one server. Calls, requests,
  payments, notices and subscriptions are model values no property tells apart.

### Fairness

`JobQueue!Fairness` is weak fairness of each worker's loop, of each slot's `processJob`
and timers, and of a caller's push once it has saved: Node.js runs continuations
of settled promises and expired timers, BLPOP is given 0.1 s, and the timeout
of `jobTimeout` settles the race even if the handler never does. Nothing forces a caller to
submit, stop() to be called or a failure to happen. Weak fairness is enough: a
slot's next step stays enabled until it is taken.
`Scheduler!Fairness` is weak fairness of each instance's tick, which a timer starts
again every 5 s, and of the expiry of an abandoned lock, which Redis does.
`RoutePlanning!FairSpec` is weak fairness of each worker's loop, which ends only when an
error escapes it. `TruckClient!Fairness` is that of timers, of the truck's own
statements and of the closing of a socket, which the library completes after 30 s;
nothing makes an attempt to connect succeed, and nothing brings the server's close. `Realtime!Fairness` is that
of the heartbeat interval and the pong timers. In `MCFleet` both are assumed; each
is vacuous in a behaviour of the other part, where none of its actions is enabled.
The liveness properties are checked on instances where failures, lapses and runs
that become due are bounded, that is, once they stop.

### Findings

`route_exact`, `truck_start` and `shipment_location` are expected to fail; `PROJECT.json` quotes the lines they
contradict. The start of the truck: the first connection is refused and its retry scheduled;
the retry opens within the 5 s of the first one's timeout; the timer then finds
`connected`, so it neither rejects nor resolves, the promise of `connect()` stays pending
and `start()` never reaches its intervals. An earlier or later retry does not do it.

## 5. Proofs

All for every value of the constants that satisfies the modules' named
assumptions: finite sets of ids, instances, sockets and appends, of calls, requests and logins at one time, of SKUs and
of the key versions a server knows; limits that are natural numbers, and not zero where zero would switch the service off;
`None` not among the values it stands in for (`NoneIsNoHash`, `NoneIsNoShipment`, `NoneIsNoRow`, and in the
assumptions of `Billing` and `OrderAllocation`); the kinds of event the code names among the kinds (`KindsOK`). What is proved of a run's
property is proved of the formula the run checks.

Queue and worker (`JobQueueProofs`)

* `TypeCorrect`: `Spec => []TypeOK`. `TypeOK` is inductive by itself; the parts
  with content are the limit on stored retries, carried by the copies in the
  slots as well as by the hashes, and the length of the dead-letter list.
* `DeliveredOnce`: `Spec => []NoDoubleDelivery`. The property is not
  inductive alone: an id just drawn could already be somewhere. The
  invariant `Delivery` adds `FreshNowhere`, that ids not drawn yet are in none of the
  places. Every action moves at most one id from one place to another or takes
  ids away; `MoveDelivery` states this once, and each action is shown to be such a
  move.
* `BudgetKept`, `NoneDropped`: `RetryBudget` and `NothingDropped`, from `Life`, which says for every job what its
  hash, the copy in its slot, its place and the calls made so far must have to do with each
  other (`JobOK`), and that a job is lost only after a failure. Each action touches one job; for the others
  `JobOK` is framed once.
* `QueueImplementsLifecycle`: `Spec => ImplementsLifecycle`. The initial state maps to the
  abstract one, and each action to one abstract step or to a stutter; the abstract guards follow from
  `Life`. Of the abstract specification only safety is proved, it has no fairness.

Scheduler (`SchedulerProofs`)

* `TypeCorrect`, `LockCounts` (`OneScheduler`) and `CancelHolds` (`CancelledForGood`).
  `OneScheduler` is inductive relative to types: an
  instance enters only while no lock is held, which then becomes its own, so
  the count of others does not grow; the lock's leaving while its owner is still
  inside is what a lapse counts. The argument is about cardinalities of finite
  sets.
* `RunsOnce` (`ExactlyOncePerRun`): while no lapse, failure, cancellation or registration has happened,
  the one instance inside knows the run it read, the run it enqueued is still the one Redis lists as
  next, and the runs before that are enqueued once each.

Shipments and their log (`ShipmentsProofs`)

* `ShipmentsInvariant`: `ShipSpec => []ShipInv`, which relates the log (rows hashed on
  the last row their append had read), the appends in progress, the cache and the requests; it also says which of them
  can still be wrong because another append overlapped or failed. From it `VerifiesJustly` (`VerificationIsJust`, which is about the columns the hash covers;
  a change of `event_status` leaves every part of the invariant as it is),
  `CacheStaysCurrent` (`CachedIsCurrent`) and `RowsAgree` (`RowAgreesWithLog`).

Truck and servers (`FleetProofs`)

* `FleetInvariant`: `FairSpec => []FleetInv`, the conjunction of one invariant for each half, since
  a step of one leaves the other's variables alone. The truck's says where the only live socket is
  (with the timers and retries that may still act on it) and, for every reading, in which of
  table, batches, messages and backend it is. The servers' relates rooms, their inverse, connections, timers and
  unanswered pings. From it `FleetTypes`, `OneConnectionAtATime` (`OneConnection`), `ReadingsStayAccounted`
  (`ReadingsAccountedFor`), `MapsStayInAgreement` (`MapsAgree`) and, an action property, `OnlySilentAreDropped`:
  the half of `DropsTheSilent` that is safety. Which server a connection is on (`Home`) and which organization
  it belongs to (`Org`) are constants.

Routes (`RoutePlanningProofs`)

* `PlanningInvariant`: `Spec => []PlanningInv`, types with one part for the queue and its workers (`QueueInv`: which
  orders a job at each of its statements has read, inserted and still to allocate, that a job is in one
  place, and which pairs of requests overlapped) and one for calls on routes (`LifeInv`: what a call that
  has read a row and not yet written it may find changed). A step of the queue keeps the second part and a call on a route the
  first; an allocation to a warehouse only ever makes an order allocated, and leaves its mark on the row. From it `RoutesAndOrdersAgree` (`RoutedIffAllocated`), `DoneMeansDone` (`DoneIsTrue`), `OnlyRivalsPlanTwice`
  (`PlannedTwiceOnlyByRivals`), `CallersAreTold` (`CallsAreTruthful`) and the action property
  `RoutesMoveForward` (`UncontestedMovesForward`).

Keys, jobs and messages (`ServicesProofs`). Each service has an invariant of its own, and `part` says which one holds:
the steps of the others leave its variables alone.

* `RotationsKeepAll` (`RotationKeepsAll`): what a rotation read of a row is what the row still has, or the row was written
  in between; the rows at the old version are those it has still to visit.
* `JobsAreAlone` (`JobsExcludeEachOther`): the lock belongs to the execution in its race, or to none that can
  delete it unseen; of a message there is one copy, or a handler holds it and knows what became of it.
* `MessagesAreLimited` (`MessagesLimited`): a call that is past its UPDATE has recorded its request, and one about to mark its reply has, or found no pending
  delivery; calls that never met find no row when they are about to send.

Logins, limits, orders and payments (`ServicesProofs` too)

* `SessionsDoEnd` (`SessionsEnd`): the tokens are numbered, each has the epoch its owner was authenticated in, and two
  calls that exchange one token read it at the same time; the blacklist entry of `jwt.ts` is compared with a clock of any resolution.
* `LimitsDoHold` (`LimitsHold`): the requests in the window and those that counted and have not added yet never exceed the limit by more than the number of
  requests (`RateInv`, and the like for logins). A window is a sum over the times in it.
* `BillingDoesFollow` (`BillingFollowsStripe`): while nothing went astray, each event not yet answered is later than what the row
  knows, and the row has the standing as of the last answered event; each payment's count is that of the streak (`PaymentInv`).
* `OrdersAgree` (`OrdersConsistent`): the row of an order has the warehouse of its latest decision, or one run stands
  between its UPDATE and its INSERT; a total that is not the sum of its lines has a PATCH that is about to sum.

Two of these are about sums. `MapThenFoldSet` is a `CHOOSE` of a recursive function, and induction is not
at hand; `SumExists` and the lemmas after it show, from a smallest counterexample, that over a finite set there is such a function, and that it
does not depend on the order in which the elements are taken.

The assignment, and all services' types (`AssignmentProofs`)

* `CheapestAssigned` (`AssignmentIsOptimal`): for every rectangular matrix of natural costs and every `Padding`, the result is an
  assignment and none is cheaper. The inductive invariant (`HungarianInv`) says of the padded matrix that the potentials never
  exceed a cost (`Fits`) and that each row so far has one column, where they add up to it (`Matched`); while the tree grows, that each of its columns was
  reached along such an edge from one that joined before (`Tree`, with a rank that shows there is no way round), and that `minDist` is the
  distance of each column outside (`Frontier`); while the rows move along the path, that what is left of it still has these edges (`Path`). Once
  the rows are through, `PotentialsDecide` sums up: the potentials, less `Padding` in the padded rows or columns, give the cost of the
  result exactly and that of any other assignment, completed to a permutation (`AssignmentCompletes`), at most. Sums are of integers here, and a
  permutation does not change them (`SumInOrder`).
* `ServicesKeepTypes` (`ServicesTypeOK`): the invariants above with what they leave open (`ServicesInv`). Some types need more than themselves: the
  warehouse in an allocation's decision is one that its run compared, which it took the costs for two statements before (`Chosen`); the retries of a copy stay within
  `MaxRetries` because a handler decides on a retry by the copy it has in hand (`Copies`); what is revoked was issued (`Revocations`).

The route search (`RouteSolverProofs`). Places are the points of any metric, and there are any number of stops and vehicles.

* `SearchStaysSound` (`SearchIsSound`) and `AnswerIsNoWorseThanGreedy` (`NeverWorseThanGreedy`), from one inductive invariant, `SolverInv`. The
  properties are not inductive by themselves: a node's children are sound because its routes are of different vehicles and their stops are those before
  `next`, so that the stop to insert is on none of them; the best solution is drivable because it was a complete node or the heuristic's, whose tours are disjoint and within
  the capacities (`ToursOK`).
* Lengths and loads are sums over the places of a list. That the increments add up is a lemma about them (`insertionCostDelta` is what the length of a route
  changes by when a stop goes in at a place of it, the legs after it moving up by one), and so is that the triangle inequality makes no increment negative (`DeltaIsNat`).
* `SearchLosesOnlyByBound` (`OnlyBoundLosesPlans`), for equal vehicles. A node leads to a plan when its routes, which are never empty (`NoneIdle`), are
  parts of different routes of the plan, in the plan's order (`NodeLaid`). A part of a list is no longer and no heavier than the list
  (`InsideIsShorter`, by leaving out one stop at a time), so a node costs no more than any plan it leads to (`LeadsCostsMore`), and a
  complete node, or a child that is not pushed, takes no plan with it that is better than the best. The next stop fits where the plan has it, because the plan's
  route is within the capacity (`InsertedLeads`); if the plan has it on a vehicle that the node has no route for, the node has fewer routes than there
  are vehicles and one of them is free (`VehicleIsFree`), any of which is as good as the plan's (`NewRouteLeads`). What a step of `branchAndBound` can lose is then what
  the lower bound cuts off, and that bound is too high at times (`route_exact`): it is no part of this theorem.
* `Cheapest` and `InOrder` are choices; that there is something to choose is shown from a smallest counterexample, as for the sums.

Only model-checked, because the prover does not reach it: liveness under fairness (`EveryJobComesToRest`,
`StopReturns`, `DueIsServed`, `JobsEnd`, `StopEnds`, `QueueDrains`, and of `DropsTheSilent` that every silent
connection is dropped). No module uses recursive operators.

## 6. Not modelled

`PROJECT.json` lists every component with its status. Outside the scope for good:
request parsing, routing and formatting; SQL construction; cryptographic primitives;
floating-point estimation (pricing, demand forecasts, the stochastic planner, fraud
scores), where a bounded integer model would say nothing about the code;
outgoing HTTP calls; deployment files. Left out because they keep no state, or none that two steps share: the Shopify
connector, `chargeOverage`, `jobs/key-rotation.ts` and the route-optimization job of `jobs/` (stubs), the in-process
retry counter, which nothing reads, and the fraud baseline. `migrate()` applies a migration and records it in two
statements without a lock (`migrator.ts:41`); whether doing it twice does harm depends on the SQL.

The models assume, beyond what section 3 says: one queue name, shipment, organization, account, phone
number and truck each, because nothing of the code relates two of them but the database; a lock of `jobs/scheduler.ts` outlives
its race by the 10 s its TTL adds; no call that sends a message takes an hour.

## 7. Observations

Met while reading and modelling. Where a module models the code in question, it behaves in the same way.

Queue and scheduler. `replayDlqJob` leaves the original in the dead-letter list (the comment at `queue.ts:220` says that it
"takes a job from the DLQ"). A tick that takes longer than the 10 s of the lock lets a second server enqueue the same run (the product
document, line 245, says that each scheduled job runs exactly once). The retention job, registered again by each server start, is then due a full interval later, so frequent restarts postpone it
(`gdpr-cleanup.ts:88`).

Shipments. Two overlapping appends make `verifyEventChain` reject an untouched log (`event-log.ts:51`), which is why
`VerificationIsJust` has its exception; a change of `event_status`, which `computeEventHash` leaves out (lines 35-44), is never
reported, so the log is not tamper-evident as the comment at line 51 has it, and the property claims it of the hashed columns only (in the model: `EditStatus`, after which `Valid` is what it was). The event log is called append-only (product document, line 148) but retention deletes from it; that a shipment cannot
skip states (line 138) is enforced nowhere; the comment "fail-open" at `shipment.service.ts:85` is on a call whose errors reach
the caller; `shipments.ts:235-283` listens for 'delivered' and changes nothing.

Routes. The greedy solution may leave stops out when
capacity is short and, being shorter for that, is then preferred to a plan that serves all;
a search that opens only the first vehicle that fits may miss plans of a mixed
fleet; a search that ran out of time is certified as exact all the same
(`vrp.ts:112`); `NUMERIC` columns reach the solver as strings unless the driver is
told otherwise, whereas the types, and the model, say numbers. A route made by hand
stores stops without a distance, so completing it feeds `NaN` into the speed
profile (`route.service.ts:281-292`; `profile.nan` in the model). The comment
at `simple-queue.ts:221` says that errors are caught inside the loop; those of `saveJob`
at 198 and 213 are not, and end it. `confirmRoute` checks the driver
against `users`, while `routes.driver_id` refers to `drivers`.

Orders. `createOrder` with coordinates allocates at once, so 'allocated' may mean a warehouse or a route; an allocation that falls between the
check of an optimisation request and its job puts the order on a route all the same; and `optimizeRoutes` accepts only
pending orders; what it returns is the row from before the allocation. `requiredSkus` is never set, so stock never
keeps a warehouse out. A PATCH of `reservedQuantity` alone sets the quantity to 0.

Truck and servers. `stop()` on a socket that has already closed waits for an event that never comes; a `stop()` during
`start()` has its intervals set afterwards (both excepted in `StopEnds`). The location of a driver is broadcast to `shipment:<id>`, whereas
clients join `<org>:shipment:<id>`; `publish` has no caller.

Logins. Nothing imports `AuthenticationManager`; its count in memory is not reset when a lock ends, so the next
failure locks again. The blacklist entry of `jwt.ts:113` may end within the second of `exp`, or not be made in it, while the token is accepted to the end of that second. `middleware.ts`
answers errors of the handlers behind it with 401 TOKEN_INVALID.

Billing and messages. No handler compares an event with what the row already knows, so the later delivery wins; an event that comes before its row is
answered and lost; `payment_failures.created_at` is never renewed, so 30 days after the first failure the count reads 0; nothing lifts a
suspension. Shopify's numeric order ids make the handler throw outside its try (`key.replace`), and the key of an order is its id, so an update counts as the creation
already seen. A reply from a number without a pending delivery is marked as processed with nothing done and nothing sent back
(`twilio/connector.ts:171`). No migration creates `deliveries`, and PostgreSQL refuses the SELECT of it, which is DISTINCT and ordered by a column
it does not select (`twilio/connector.ts:164`): as deployed, each such reply ends in a 500, `CallThrows` in the model, whose other steps are for a
database where the SELECT works. A message logged as failed counts for the limit of one an hour. A notification's key stays when its POST fails.

Jobs and keys. `setInterval` of a month exceeds 2^31-1 ms, which Node takes as 1 ms (`jobs/scheduler.ts:59`). A retry of a message is pushed
while the copy it replaces may stay in the list; a message in the failed list was in fact sent. The
UPDATE of a rotation is unconditional and loses a concurrent write; rows two versions old are
never rotated; a version a server does not know ends the rotation; `LIKE '%"key_version":1%'` also
matches 10 to 19.
