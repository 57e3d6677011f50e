# EquipSense: specifications, model checking and proofs

EquipSense is an equipment monitoring and maintenance platform: a .NET 8 back end
(`src/src/EquipAI.*`), a React client (`src/frontend`) and a gateway program that runs
beside the machines (`EquipAI.EdgeGateway`). Telemetry comes in from the gateways, rules
turn it into alerts, alerts become work orders, work orders go through execution and
approval, and what is learned goes into a knowledge base. This directory holds TLA+
specifications of the parts whose correctness depends on interleavings, failures and time,
TLC configurations that check them on small instances, and proofs that TLAPS checks for
every instance.

Paths below are relative to `src/src/` unless they start with `docs/`, which is
`src/docs/`, or with `src/`.

## 1. Inventory

### Parts, state, operations

| Part | State it keeps | Operations | Interacts with |
|---|---|---|---|
| **Outbox** (`EquipAI.Infrastructure/Messaging/OutboxMessageStore.cs`, `OutboxDispatcher.cs`, `TransactionalEventBus.cs`) | table `outbox_messages`: `PublishedAt`, `AvailableAt`, `LockedUntil`, `LockToken`, `AttemptCount` | register an event in the business transaction; fetch a batch, claim, re-read, publish, mark published or failed; clean up | every service that publishes an event; the broker |
| **Inbox and consumer** (`RabbitMqEventBus.cs`, `InboxMessageStore.cs`, `RabbitMqRetryCountReader.cs`) | main, retry and dead queue per handler; table `inbox_messages` with lease and `ProcessedAt` | deliver, claim (read, insert, take over), run the handler with a time limit, record, ack or nack, move to the dead queue | the broker; the event handlers |
| **Work orders and approvals** (`EquipAI.Application/WorkOrders/WorkOrderService.cs`, `Approvals/ApprovalChainService.cs`) | `work_orders` row; `work_order_approvals` rows; log; outbox events | assign, start, complete, submit, accept, reject, close, cancel; create, approve and reject approval records | controllers; outbox; knowledge capture, notification and integration handlers |
| **Edge gateway buffering** (`EquipAI.EdgeGateway/Pipeline/LocalBuffer.cs`, `CloudUploader.cs`, `Persistence/SqliteBufferStore.cs`) | bounded memory queue; SQLite table `buffer_messages`; replay gate; MQTT client | upload with fallback, enqueue with eviction, store, replay, mark, clean up | collectors; MQTT broker |
| **Alert engine** (`Alerts/AlertEvaluationService.cs`, `AlertAggregator.cs`, `AlertEvaluationConcurrencyGate.cs`, `AlertQueryService.cs`) | `alerts` rows; counting window in Redis with a local fallback; per-key gate in the process | evaluate a rule, create, update, silence, resolve; acknowledge | telemetry handler (inbox); outbox |
| **Distributed lock and timers** (`Cache/RedisDistributedLockProvider.cs`, `Hosting/LockedTimerService.cs`) | Redis key with expiry | acquire, renew at a third of the expiry, cancel the work when renewal fails, release | every periodic job (SLA, health, retention, outbox-independent clean-ups) |
| **Automatic work orders**, SLA (`WorkOrderAutoCreateHandler.cs`, `WorkOrderCodeGenerator.cs`, `SlaManagementService.cs`) | work orders with `alert_id`; unique code; escalation level | create once per alert, generate a code, escalate | inbox; locked timers |
| **Offline queue of the client** (`src/frontend/src/lib/offline.ts`, `hooks/useOfflineQueue.ts`, `sw.ts`) | IndexedDB store of operations with owner and retry count; registered background syncs; session cookie | queue, send one by one from a page or from the service worker, count failures, drop, cancel; log in and out | web API; browser |
| In-memory event bus (`Eventing/InMemoryEventBus.cs`) | channel of 10000 events | publish with a 5 s limit, dispatch once | development and tests |
| Email delivery (`EmailNotificationDeliveryStore.cs`) | delivery rows with lease | claim, renew before sending, finish | notification handlers |
| Integrations (`WorkOrders/Router/IntegrationRouter.cs`) | none of its own | send with retries | DingTalk, Feishu, EAM, webhooks |
| Knowledge base, authentication, tenant quotas, telemetry and MQTT ingestion, analysis and reports, web API, simulator, rest of the client | see `PROJECT.json` | | |

How they are wired (`EquipAI.WebAPI/Program.cs:446-458`): `TelemetryReceived` goes to the
alert engine; `AlertTriggered` to alert notification, root cause analysis and automatic
work orders; `WorkOrderStatusChanged` to knowledge capture, integration and notification.
Every arrow is one outbox row, one broker message per handler queue and one inbox row
per (event, handler).

### What is hard, and what makes each part correct

* **Outbox.** Several instances run the dispatcher on one table, publishing has no time
  limit of its own, and a process may die between any two calls. Correct means: no committed
  event is lost; two dispatchers never work on a row within the time each was granted for
  it; a late result does not overwrite a newer lease; a duplicate has a cause the design
  names; undeliverable rows do not starve the others.
* **Inbox.** Duplicates, redelivery after a lost channel, handlers that outlive their
  time limit, failures of the database in every call, an unreachable dead queue. Correct
  means: the broker drops a copy only after the work was recorded or buried; "processed"
  is final and true; two deliveries do not await the handler at once; every delivery is
  settled; a dead consumer's lease is recovered.
* **Work orders.** Each request reads, decides, and saves the columns it changed; nothing
  is locked in between, and approvals set the order's status from a second service.
  Correct means: an order has the columns its status presupposes; decisions are made by
  those entitled; the chain is followed in order; events tell what was stored.
* **Gateway.** Eviction, replay and new points run at once; disk, broker, connection and
  process fail independently. Correct means: no point vanishes without a reason that is
  counted or logged; the backlog on disk survives; one record is not replayed twice at
  once; what was buffered is uploaded in the end.
* **Alert engine.** The trigger is counted before the alert is committed, the gate is
  local to a process, silencing does not look at the alert, and a row read in one call is
  saved in another. Correct means: the duplicates that instances can create are bounded; a
  lasting condition does not stay silent; a condition that is over leaves no active alert.
* **Automatic work orders.** Two creations generate the same code; a handler dies between
  its commit and the record in the inbox, or runs on beside its retry; users create orders
  of the same alerts; orders are closed meanwhile. Correct means: the handlers of an event
  open one order of its alert at a time, no alert is forgotten, no conflict without a new
  rival.
* **Timers.** The lock expires while the job runs, a call to Redis succeeds and its reply
  is lost, an instance dies with the lock. Correct means: the job runs on one instance at a
  time, and goes on being run.
* **Offline queue.** Pages and the service worker send the same operations without
  knowing of each other; every await may be the last; the session changes under a running
  sync, and its cookies are shared by all tabs. Correct means: no operation vanishes; one
  that is carried out twice has a reason; no page sends for another account, as far as its
  tab can know; nothing stays queued for ever.

`PROJECT.json` lists the hazards line by line, with the properties that cover them.

## 2. Plan

The order follows the way of an event through the system; every item is done.

1. `Outbox`, `Inbox`, `WorkOrder`, `EdgeBuffer`, each with its proofs.
2. `Handover`, the abstract promise of a stage that passes work on, with four components
   shown to implement it by refinement mappings: `Outbox` (`KeptUntilSent`), `Inbox`
   (`KeptUntilSettled`), `OrderCreation` (`DueUntilOrdered`) and `OfflineQueue`
   (`KeptUntilAnswered`).
3. `Lifecycle`, the abstract promise of a work order to its users, with `WorkOrder` shown to
   implement it while requests follow one another (`WholeRequests`).
4. `AlertEngine` and its proofs: instances, window, gate, alert rows, users.
5. `OrderCreation` and its proofs: alert events become work orders, beside users'
   creations.
6. `TimerLock` and its proofs: the lock with expiry and renewal, and the job under it.
7. `OfflineQueue` and its proofs: the client's operations on their way to the web API.

The stages are composed through `Handover`: what one releases, the next has accepted. A
product of two detailed modules would multiply states without adding a shared variable,
since `Outbox` and `Inbox` share only the broker, which takes a copy in one step.

Modules to be proved about declare no `RECURSIVE` operator, take their parameters as
`CONSTANTS` with named assumptions, and have one action per operation.

## 3. Modules

Time is modelled as what is left of each interval (`lock` is what remains until
`LockedUntil`), so that no clock grows. The clocks of instances and database are assumed
to agree; the code compares `DateTime.UtcNow` of the instances. Variables named in a
module as *history* are not in the program: they record what the properties speak of.
Operators commented "Mutant of X" are not used by any specification: each is X with a
plausible bug, and shows that a property can tell the difference.

### Outbox

`row`, `avail`, `lock`, `token`, `attempts`, `age` are the columns; `pc`, `todo`, `cur`,
`tok`, `tries`, `expired` the local variables of the `DispatchBatchAsync` and
`CleanupPublishedMessagesAsync` of each instance. One action per call that can be
interleaved: `Register` (transactional publication), `Fetch` (the candidate query, in
creation order), `Claim`/`Skip`/`ClaimThrows` (`TryClaimAsync`), `Read` (re-read after the
claim), `PublishOk`/`PublishThrows`, `MarkPublished`/`MarkPublishedThrows`, `MarkFailed`
(backoff `2^attempts`, capped), `SelectExpired`/`Sweep`, `RoundThrows`, `Crash`, `Start`,
`Tick`. `Poison` events cannot be deserialized. The history `hold` is the time for which
each dispatcher was granted the row it works on; it runs down beside the lease in the table,
whatever becomes of the row, so that `LeaseIsExclusive` compares what two dispatchers may
believe and not what the table says. The 1000-row limit of clean-up is left out. A sweep
deletes by primary key, so a delayed one may delete a row registered anew under the same id
after another instance's sweep; the event was published before, so nothing is lost, and
`LeaseIsFenced` leaves deletion out for this reason.

### Inbox

One (event, handler) pair. `place`, `rejected`, `ttl`, `buried` are the broker's queues and
the `x-death` count; `row`, `lock`, `token` the inbox row; `pc`, `cop`, `seen`, `owns`,
`left`, `tok`, `zombie` a consumer: its step, delivery, the count in the headers it
received, whether its delivery tag is still good, what remains of its time limit, its claim,
and whether a handler it gave up on still runs. The actions follow `HandleMessageAsync` and
`InvokeHandlerAsync`: `Deliver`, `Find`/`Insert`/`Claim`/`Latest` (the four database calls
of `TryClaimAsync`), `HandlerOk`/`HandlerThrows`/ `HandlerTimesOut`/`ZombieEnds`,
`MarkProcessed`, `MarkFailed`, `Ack`, `Reject`, `Bury`, their failures, `Crash`, `Restart`,
`ChannelLost`. `TryClaimAsync` works with the `now` that its caller took before the first
query: `NowAges` is how old it may be by then, `LockedAt` and `Lapsed` compare with it and
`Lock` grants a lease that is shorter by as much. An acknowledgement on a closed channel
throws inside the `try` (`AckThrows`), and the `catch` clause goes on to reject or bury a
copy whose work is recorded. A copy that is prefetched but not dispatched counts as queued.
The quorum queue's own delivery limit and the age of inbox rows (nothing removes them) are
left out.

### WorkOrder

One order. `order` is its row, `rows` its approval records by identity, `req` what each
request has loaded and is about to save, `announced` the newest status event. A service
call is two steps, loading with the check of `ValidTransitions`, and `Save`, which writes
the columns that differ from what was loaded (EF Core's change tracking). `Submit` goes on
with `Match` and `Replace`, the second scope and transaction that creates the approval
records. Approving and rejecting is `Pick`, `ReviewApproval`/`ReviewRejection`, `LoadOrder`,
`Decide`: four awaits with nothing locked. `RowVersion` is a `[Timestamp]` on a nullable
`bytea` column: PostgreSQL does not change it and EF Core does not write it, so its check
compares NULL with NULL and guards nothing; a save fails only when a row it updates or
deletes is gone (`SaveThrows`). With one slot, requests follow one another; with two, they
overlap. Which template matches is left open, because templates are edited
independently; the log entries are left out, and so is the deactivation of users. The steps
of a chain are numbered 1 to n. The code copies the `StepOrder` of the template as the
client sent it (`ApprovalChainService.cs:79-85`, `:186-197`), so equal numbers are possible
there and are outside this model (section 5).

### Lifecycle

What a user may count on about one order: a status that moves along the table of
transitions, and the sets of `open`, `approved` and `rejected` steps of its chain. Each
request is one step: `Move`, `NewChain` (only for a submitted order, and nothing of an
earlier chain stays), `Approve` (the lowest open step; the last one accepts the order),
`Reject` (closes every open step and sends the order back to work). `WorkOrder` implements
it with the mapping `open <- StepsIn("Pending")` and so on: a request's queries are
stutters, its saves the abstract steps. A decision does not look at the status, here as in
the code (section 5). No comparable specification is given for overlapping requests: what
holds of them is `MilestonesRecorded`, `DecidersEntitled` and the theorems of section 6.

### EdgeBuffer

`queue` is `LocalBuffer`, `row` and `age` the SQLite table, `gate` the replay gate,
`pc`, `cur`, `sub`, `todo` each collector in `UploadWithFallbackAsync` and
`ReplayOfflineDataAsync`. `Enqueue` is the locked part of `EnqueueAsync`; the evicted point
is stored by a later step, as in the code. `ReplayThrows` is the exception that reaches the
caller's `catch` and makes it buffer a point it has published. `Restart` stands for crash
and stop alike: `DisposeAsync` clears the queue and nothing flushes it. A point's name is
reused once the point is nowhere, so that collecting never ends on a finite set.
`Connect` is `CloudUploader.ConnectAsync`; nothing in `src/` calls it, so as `Program.cs`
wires the gateway it stays offline for ever and every point is buffered. The model lets it
be called, as the tests do, to say something of the component itself.
`FlushToOfflineStoreAsync`, `DequeueBatch` and `UploadAsync` have no production caller and
are left out.

### Handover

The abstract stage: `kept` are the items it answers for, `finished` those whose outcome is
final. Accepting again, finishing again and keeping what is finished are allowed; letting go
of an unfinished item is not. Every refinement above also says that an outcome is never
taken back.

### AlertEngine

One alert key (tenant, device, rule, metric). `status` is the table `alerts`; `count` and
`local` are the aggregation window in Redis and its fallback in the process; `gate` is
`AlertEvaluationConcurrencyGate` of each instance; `pc`, `reading`, `target` an evaluation,
`act`, `seen` a user's request. `Receive`/`Redeliver` start an evaluation of what was read
(the metric may change at any time, `Change`); `Enter` takes the gate; `Count` or, when
Redis fails, `CountLocally` decide between creating, updating and silencing; `CheckNothing`,
`CheckActive`, `Insert`, `Update` follow `EvaluateForDeviceAsync`, `CreateAlertAsync` and
`UpdateExistingAlertAsync`; `Recover` and `AutoResolve` follow `TryAutoResolveAsync`, the
branch of a reading back to normal, which is an unconditional write of a row read before;
`ReadToAcknowledge`, `ReadToResolve`, `SaveAct` the same for users. A window may expire at
any moment, so no clock is needed. Evaluations of other rules, device presence and severity
are left out: they touch no state of the key.

### OrderCreation

The orders of one day. A creation is a transaction at READ COMMITTED: `Look` (the handler's
query for an open order of the alert), `GenerateCode` (the greatest code a transaction can
see, plus one), `Insert`, `Conflict` (the unique index refuses; the savepoint is rolled back
and the next attempt reads again; after three the request fails, and the handler returns as
if it were done), `Commit`, `MarkProcessed` (the inbox). An insert of a code that an open
transaction holds waits, as the index makes it. `Fail` is a failure or crash at any point.
Codes are numbers, but compared as the text they are written as, with at least four digits
(`WorkOrderCodeGenerator.cs:80`): `Widest` stands for 9999, and a code above it is never the
greatest (`Greatest`). The day therefore has room for `Widest + 1` orders and is then
`Full`: every creation generates the same code and is refused.
A user's order may name any alert (`Request`): `WorkOrderService.CreateAsync` stores
`request.AlertId` and does not look for an open order, but the handler's query sees such an
order. The inbox lets one delivery of an event await its handler (`AwaitedAlone`), so
`Deliver` gives an event to one holder at a time. A handler that was given up on, because
it timed out or its lease lapsed, is `stray`: it runs on and commits beside the next
(`GiveUp`). The history `aside` has the orders that no holder created, which are the users'
and those of stray handlers; `SecondOrderHasCause` says that of the other open orders an
alert has at most one.

### TimerLock

`key`, `ttl` are the Redis key; `pc`, `left` each instance's round: `Ask`, `ExecuteSet`
(`SET NX PX`), `Start` or `Skip`, `SendRenewal`, `ExecuteRenewal`, `Renewed`,
`RenewalFails` (which cancels the job), `BodyEnds`, `CloseRenewal`, `Release`
(compare and delete). Sending, execution in Redis and the reply are separate steps, so a
call may succeed and its reply be lost. Time is discrete and `Tick` waits for whoever must
act by now. `Timely`, `2 * Answer + Interval + Grace < Expiry`, is what the guarantee
needs: it holds with the expiries of `src/` (5 minutes to 6 hours, renewed every 30
seconds at most) as long as a job that is cancelled stops within the rest. `LockWaitTime`
is zero in every service and is left out.

### OfflineQueue

One tab and its service worker. `stored`, `owner`, `retry` are the object store, `user` the
account in the tab's store (`authStore`), `tags` the registered background syncs; `pc` to
`resp` each run of `sync`, by a page (stopped by its `AbortController` and the tab's store)
or by the worker (which asks `/auth/me`). Every await is a step: `Begin` (the snapshot),
`Check`, `Send`, `Answer`, `Remove`, `Count`/`Put` (the two halves of `incrementRetry`),
`Review`. `Close` cuts a sync off anywhere.

The cookies `access_token` (`cookie`) and `refresh_token` (`session`) belong to the browser
and are shared by its tabs. In the tab, `SignIn`, `Refresh` (restoring or renewing a session,
whoever's it is by now), `Expire` and `Logout` change cookies and store; when the store names
another account, the effect of `useOfflineQueue` aborts the syncs (`NewUser`). Other tabs
are there by what they do to the cookies: `Elsewhere` logs in, renews or logs out at any
moment, and this tab's store does not learn of it. The history `overtaken` says that such a
login has put another account's session in the place of the tab's own. An answer of the
server and `setAuth` are one step; a login in another tab that falls between the two comes
after the step in the model. Failures of IndexedDB are left out, and `remove` is one step,
since what its two requests find is the same. Syncs of other tabs' pages are left out.

## 4. Runs

| Run | Shows | Instance |
|---|---|---|
| `outbox_safety` | `TypeOK`, `LeaseIsExclusive`, `DuplicateHasCause`, `KeptUntilSent`, `LeaseIsFenced` | 2 events, 2 dispatchers that may crash at any point, failing database, lost confirmations, re-registration |
| `outbox_delivery` | `EventuallyDelivered`, `EventuallyCleaned` | one event that cannot be deserialized beside one that can and a batch of one, so that they compete; one mortal dispatcher; publishing stays within the lease (`Timely`) |
| `inbox_safety` | `TypeOK`, `EffectsMatch`, `KeptUntilSettled`, `ProcessedIsFinal`, `LeaseIsFenced` | 2 copies, 2 consumers, all faults, timers that fire late (`Prompt = FALSE`) |
| `inbox_settled` | `AwaitedAlone`, `EventuallySettled` | 1 copy, 2 consumers, all faults, prompt timers |
| `wo_serial` | `TypeOK`, `ChainInOrder`, `FinishedChainAccepts`, `EventsChain`, `WholeRequests` | one request at a time, cut off anywhere, chains of one and two steps |
| `wo_overlap` | `MilestonesRecorded`, `DecidersEntitled` | two overlapping requests, a two-step chain |
| `alert_engine` | `ActiveBounded`, `EventuallyAlarmed`, `EventuallyCleared` | 3 alerts, 2 evaluations in one instance or in two, 1 user, 1 failure, redelivery or crash |
| `order_creation` | `BeatenByOthers`, `CodesInSequence`, `SecondOrderHasCause`, `DueUntilOrdered`, `EventuallyOrdered` | 2 events, 2 handlers, 1 creation of a user with or without an alert, 1 failure, crash or timeout, 1 order closed, a day with room for 3 orders |
| `timer_lock` | `TypeOK`, `OneBody`, `RunsAgain` | 3 instances, 3 failed calls, lost replies or crashes; the shortest expiry that is `Timely` with room for two renewals |
| `edge_safety` | `TypeOK`, `Accounted`, `DuplicateHasCause`, `StoredUntilSent` | 4 points, 2 collectors, a queue of 1, batches of 2, all faults |
| `edge_backlog` | **violates** `BacklogReplayed` | 1 collector, 3 points, no faults |
| `offline_queue` | `DuplicateHasCause`, `KeptUntilAnswered`, `SentByOwner`, `EventuallyLeaves` | 1 operation, 2 accounts, a page and the worker, other tabs, 2 retries, 1 cut-off, all faults |

**Why the bounds are enough.** Two actors are what every race here needs: one that is
delayed and one that overtakes it; `outbox_safety` and the proofs agree on that, and the
proofs are for any number. Four lease tokens cover two rows and two local claims at once; a
token comes back only when nobody holds it, which a `Guid` guarantees. Intervals of one or
two units suffice for "before", "at" and "after" an expiry, since only the order of
expirations matters. `copies` and `effects` saturate at two because the properties ask for
one or more than one. `AttemptCap` saturates where the backoff does (`BackoffSaturates`).
`MaxCrashes` is one in the inbox runs: a crash may hit any step, and takeover after takeover
repeats the same situation. `MaxTime` bounds the clock of an order at three instants, enough
for started, completed and closed to differ; `Rounds` gives identities to two generations of
approval records per slot. `wo_overlap` leaves out cutting requests off, because a request
that is cut off behaves like one that is never continued, which the run has anyway.
`CHECK_DEADLOCK FALSE` is set for the work order and for the creation of orders: a closed
order with the clock at its bound, and a day whose events, requests and faults are used up,
have nothing left to do. `alert_engine` has one alert more than instances, so that the bound
of `ActiveBounded` could be passed, and `MaxCount` is one more than the triggers that are
not silenced. In `order_creation` one event may be handled twice, after a crash, a timeout
or behind a closed order, which makes four creations with the user's: a creation may lose to
three others and be refused, `Widest` is 2 so that the third order fills the day and a
fourth creation meets a full one, and an alert gets a second open order from the user and
from a stray handler. `outbox_delivery` has a batch of one: without back-off the event that
cannot be deserialized would be the whole of every batch, which is what its mutant shows.
`timer_lock` has an instance that waits beside the one that is cancelled and the one that
took over. One operation is enough for `offline_queue` because operations share nothing but
the order in which a sync visits them; the proofs are for any number.

**Serial and overlapping requests.** `ChainInOrder`, `FinishedChainAccepts`, `EventsChain`
and `WholeRequests` are true of requests one after the other and false when they overlap:
two users who decide one record at once leave the later one's verdict on the record and both
statuses announced. `MilestonesRecorded` and `DecidersEntitled` hold under any overlap. All
six are proved, the first four under the assumption `Serial`. That a waiting order always
has a step to decide is not claimed: `SubmitAsync` saves the status in one transaction and
creates the records in another.

**Fairness.** `Outbox`: time passes; the loop of a hosted service goes on and the
process is restarted; crashes stop some time; the broker does not reject one event for
ever (strong fairness of `PublishOk` per event, since retries come again and again). `Timely`
adds that database calls take no time and polls come round before a back-off ends (`Behind`).
`Inbox`: time, the retry queue's time to live, the consumers and their restart; strong
fairness of `Bury`, since a dead queue is offered the copy again after each retry.
`EdgeBuffer`: the host connects, the collectors go on, the broker does not refuse for ever.
`AlertEngine`: telemetry keeps coming and is delivered again after a failure, calls return,
windows expire (both have a time to live), users' saves finish. `OrderCreation`: calls
return, and the inbox delivers again what is not processed. `TimerLock`: time passes, calls
are executed and answered unless they fail, a cancelled job stops; nothing makes a job
that was not cancelled end. `OfflineQueue`: promises settle and the user goes on pressing
*sync*; nothing makes a request succeed or renews the session.
None assumes that a database call never fails where the run has that fault; the liveness run
of the outbox has no failing database.

## 5. Disagreements found

* `edge_backlog` (defect). Only SQLite is replayed; what an outage leaves in the memory
  queue stays there until it is evicted or lost with the process.

Seen while modelling, without a run of their own:

* A consumer that dies with the lease blocks the event for `2 * HandlerTimeoutSeconds`, 240 s
  by default, while refused redeliveries count as rejections and reach the dead queue after
  about 120 s (`RabbitMqEventBus.cs:570`): the event is buried although no handler failed.
  `docs/superpowers/specs/2026-08-09-transactional-outbox-inbox-design.md:76` and `:112`
  expect it to be taken over. `EventuallySettled` is therefore what `Inbox` claims.
* `Closed` and `Cancelled` are called final (`WorkOrderService.cs:48`,
  `docs/evaluation/02-后端架构分析.md:193`), but approval records survive leaving
  `SubmittedForApproval` by another way, and deciding one sets the status unchecked.
* `RowVersion` (`WorkOrder.cs:113`) detects no conflict: an order cancelled by one user is
  assigned by another who loaded it before.
* An automatic resolution overwrites an acknowledgement saved since it read the alert
  (`AlertEvaluationService.cs:361-366`; the comment at `:150-152` says acknowledged alerts are
  left alone), and acknowledging an alert that was resolved meanwhile opens it again. Two
  instances create two active alerts of a key even with Redis up, when the window expires
  between their counts.
* `WorkOrderCodeGenerator` takes the greatest code in string order: once a day has its
  10000th order, every further creation generates code 10000 again, conflicts three times
  and is refused, although the comment at `WorkOrderCodeGenerator.cs:52` says that the next
  attempt is bound to read a greater code. `BeatenByOthers` is therefore claimed while the
  day is not `Full`, which `order_creation` reaches. After three conflicts
  `WorkOrderAutoCreateHandler` returns normally: the event is recorded as processed and has
  no order.
* Instances that start at different times each run a locked job every period: the lock
  excludes simultaneous runs, not repeated ones.
* The service worker's sync never rejects, so the browser does not repeat it, and nothing
  synchronises on the `online` event, although the client's text `autoSyncHint` and
  `docs/superpowers/plans/2026-06-02-phase3E-pwa-offline-push.md:5` say so. A 401 counts as
  a failure, so three syncs without a session drop an operation. A result of the worker is
  reported to nobody. Between its `/auth/me` and its request the cookie may change, so
  `SentByOwner` is claimed of pages. `incrementRetry` reads and writes in two transactions
  (`src/frontend/src/lib/offline.ts:136`) and may bring back an operation that was removed
  in between, which is a cause of duplicates in the model.
* `src/frontend/src/lib/offline.ts:22-24` says that requests of an old session are aborted
  when the cookie session changes, and `isOwnerActive` that a sync still belongs to the
  current login. A page asks its tab's store only (`useOfflineQueue.ts:51`), which is per tab
  and is not compared with the cookie once it names an account (`App.tsx:90-93`,
  `authStore.ts:53`). When another account logs in in a second tab, the running sync of the
  first sends with the new account's cookie, and so does every later one until the tab renews
  its session. `SentByOwner` is false without the exception `overtaken`, and
  `PagesSendTheirOwn` proves that there is no other.
* An alert can have two open work orders: `POST /work-orders` stores any `AlertId`
  (`WorkOrderService.cs:106`) and does not look for an open order, as
  `WorkOrderAutoCreateHandler.cs:76-86` does; and a handler that `WaitAsync` gave up on
  commits its order beside the retry that has found none. `SecondOrderHasCause` allows both.
* A handler that `WaitAsync` gave up on (`RabbitMqEventBus.cs:529-531`) runs on beside its
  retry. Two deliveries never *await* the handler at once (`AwaitedAlone`); that no two runs
  of it overlap holds only where handlers end within their time (`HandlersApart`).
* A template may give two steps the same `StepOrder`, which nothing checks
  (`ApprovalChainService.cs:79-85`). A rejection closes the records with a greater one only
  (`:338`), so one with an equal number stays pending on an order that is back in work. The
  specification takes the steps as numbered apart, and what `WholeRequests` says of
  rejection is claimed for those templates only.
* Two verdicts on one record both set the order's status, and the later save stays for the
  record and the order alike; what should come of them the code does not say.
* `api.ts` and `useTokenRefresh.ts` may both send the same refresh token
  (the comment at `useTokenRefresh.ts:67` says that they do not race).
* Nothing calls `CloudUploader.ConnectAsync` (see *EdgeBuffer*).
* `WorkOrderService.SubmitAsync` keeps a `CompletedAt` from before a rejection, so after
  complete, reject, start, submit the order was completed before it was started, and its
  hours are clamped to 0 (`WorkOrderService.cs:545`). Clearing the column in `StartAsync`
  looks like the remedy, and breaks `MilestonesRecorded` when requests overlap: it is the
  mutant of that property.
* Approvals write no `WorkOrderLog`, although `WorkOrderService.cs:577` says every operation
  does, and `ApprovalChainService.cs:203` relies on it when it removes earlier records.
* `docs/EVENT_BUS.md:37` says that `MaxRetryCount=5` means at most five executions; when the
  dead queue does not confirm, the copy goes round the retry queue and the handler runs
  again.
* `SqliteBufferStore.cs:35` says that sent records are cleaned up after their retention;
  `CleanupOldAsync` removes unsent ones as well.

## 6. Proofs

All proofs are for every value of the constants that satisfies the named assumptions
(`ConstantsOK`, `BackoffSaturates`, `NullsOK`, `Timely` of `TimerLock`), which TLC evaluates
in the runs; theorems with a further assumption state it (`Prompt`, `Serial`, `Undisturbed`,
`Reliable`, `Faults = {}`).

**Refinement.** `Outbox_proofs`, `Inbox_proofs`, `OrderCreation_proofs` and
`OfflineQueue_proofs` each end with `ImplementsHandover`: the initial state maps to the
initial state of `Handover`, and under the inductive invariant every step maps to
`Accept`, `Finish`, `Release` or a stutter. `WorkOrder_proofs` has `ImplementsLifecycle`, under
`Serial`: what a request has read is still so when it saves (`SerialAt`), so each of its
saves is one step of `Lifecycle`; that the steps of a chain are numbered apart and that
none is open once one is rejected (`ChainShape`) makes sets of steps stand for records.

**What is no cause of duplicates.** `DuplicateHasCause` and `EffectsMatch` say that a
duplicate has one of the causes that set `excused`. Three theorems show that without
faults nothing sets it, and so that interleaving alone duplicates nothing.
`ConcurrencyNeverDuplicates` (outbox, `Undisturbed`: publishing stays within the lease,
outcomes are known, nobody dies; publications may still be refused) and
`RedeliveryNeverRepeats` (inbox, `Reliable` and `NoTrace`: prompt timers, a database that
works, no crash, handlers that throw leave no trace; copies are still repeated, failed and
redelivered, channels close, the dead queue refuses) rest on the same invariant
`Attended`: whoever has a token is at work under a lease that runs, so there is nothing to
take over. `CollectorsNeverDuplicate` (gateway, no faults; connections come and go and
publications fail) needs only that each cause is a fault.

**`Outbox_proofs`.** `TypeCorrect` ([]`TypeOK`), `NoLoss` ([]`NoSilentLoss`),
`ExclusiveLease` ([]`LeaseIsExclusive`), `CausedDuplicates` ([]`DuplicateHasCause`) and
`Fenced` (`LeaseIsFenced`). None of the invariants is inductive alone. `IInv` adds:
dispatchers hold a message and a token exactly while they work (`LocalShape`); only
unpublished rows are leased (`RowShape`); a dispatcher whose time is not over has its row
under its own token with exactly that time left, unless the row is published already
(`TimeIsLease`, from which `LeaseIsExclusive` is kept by a claim, since what is claimed is
pending and lapsed); a token is in one hand and its row is the one its
holder works on (`TokensApart`, which makes the conditional updates exclusive); whatever
may be marked or swept is at the broker already (`MarkedAreCopied`, which is why a crash,
a late answer and a sweep lose nothing); only registered events are known
(`OnlyRegistered`); and of an event without an excuse there is at most one copy, with the
row still leased or past pending and nobody about to publish it again (`UnexcusedOnce`).
`Inductive` states Spec => []`IInv`, one step per action. `Fenced` needs only `TypeOK` and
`LocalShape` of the step before: a token changes by a claim, which needs a lapsed lease,
or by an update conditional on it.

**`WorkOrder_proofs`.** `Inductive`, `TypeCorrect`, `Milestones` ([]`MilestonesRecorded`)
and `Deciders` ([]`DecidersEntitled`), for any number of overlapping requests, users and
templates. The invariant behind `Milestones` is monotonicity: no action ever unsets a
milestone column, so whatever a request has seen set is still set when it saves
(`Below(snap, order)` in `CopiesSound`), and merging its changed columns into a newer row
gives a row that has all its new status presupposes. `StagesSound` says that approvals touch
only orders that were worked on. For requests one after the other (`Serial`),
`StepByStep` ([]`ChainInOrder`), `LastApprovalAccepts` ([]`FinishedChainAccepts`) and
`EventsTellChanges` (`EventsChain`) are proved for any users and chains: what a request has
read is still so when it saves (`SerialAt`), in particular its record is still of the
lowest pending step, from which `DecideInOrder` concludes that every earlier step is
approved and no later one is. `Deciders` adds that a request is entitled to the record
it holds as long as that record exists, which needs that identities are not reused while a
request knows them (`FreshRows`). Two action properties hold under any overlap:
`ColumnsStaySet` (no save unsets a column, `Below(order, order')`) and `VerdictsStay` (a
decided record never becomes pending again and never asks for another approver).

**`Inbox_proofs`.** `TypeCorrect`, `NoLoss` ([]`NothingLost`), `WorkAndRecordAgree`
([]`EffectsMatch`), `CompletionIsFinal` (`ProcessedIsFinal`), `Fenced` (`LeaseIsFenced`) and,
under the assumption `Prompt`, `OneAwaited` ([]`AwaitedAlone`) and, where no handler is slow,
`HandlerAlone` ([]`HandlersApart`: no two runs of a handler overlap, the abandoned ones
included). `IInv` adds: a consumer has a
token exactly while it works under a lease (`LocalShape`) and shares it with nobody
(`TokensApart`); only an open row is leased (`RowShape`); whoever is about to acknowledge
has the row processed or its copy buried (`AcksSound`), and whoever is about to record has
done the work (`RecordsSound`). `UnexcusedOnce` carries `EffectsMatch`: without an excuse
a running handler has the current lease and runs for the first time, and once it took
effect the row is processed or still has a token, so that the only way to another run is a
takeover, which is an excuse. `LeaseOutlives` carries `AwaitedAlone`: a lease is twice the
timeout from the `now` of the claim, at which the timeout began as well, both run down
together, so a prompt handler is cut off while its lease stands; this holds for every
timeout. The rows of all actions are summed up once, in `RowSteps`.

**`EdgeBuffer_proofs`.** `TypeCorrect` (the queue stays within its capacity),
`NoPointVanishes` ([]`Accounted`), `NoUncausedDuplicate` ([]`DuplicateHasCause`) and
`BacklogKept` (`StoredUntilSent`), for any queue, batch, retention and number of
collectors. `IInv` adds: a collector has a point and a batch only at the stages that work on
them (`LocalShape`); who replays holds the gate (`GateHeld`), so that a batch stays pending
while its owner works through it (`BatchPending`); a record that is being marked is at the
broker (`MarkedAreCopied`); and an unexcused point is in one place, one collector's hands,
one position of the queue or the store (`OnePlace`), and once it was sent only as a record
that is being marked (`SentOnce`). `Appended` and `Shifted` say what an enqueue without and
with eviction does to the queue.

**`AlertEngine_proofs`.** `TypeCorrect` and `AtMostOnePerInstance` ([]`ActiveBounded`), for any
number of instances and evaluations. `GateHeld` gives one evaluation per instance inside
the gate; `Shared` counts active alerts and instances about to insert one together: an
evaluation decides to insert when it sees no active alert, so both share the instances.

**`OrderCreation_proofs`.** `TypeCorrect`, `LostToOthers` ([]`BeatenByOthers`), `OnePerAlert`
([]`SecondOrderHasCause`), `CodesUnique`. `IInv` adds: two handlers never hold one event
(`LocalShape`); an inserted code is nobody else's until it commits (`CodesApart`); a
handler that found no open order and still holds its event finds none of a holder's
(`NoneOpen`); whoever is about to record
an event has ordered it or lost three times (`MarksSound`); and a creation has lost at most
as often as orders came since while the day is not `Full` (`Outrun`), because the greatest
code exists and the code after it is free. `CodesWithoutGaps` ([]`CodesInSequence`) follows
from `Dense`: below a code that is used, or about to be inserted, all codes are used.
`RefusedAfterThree` says of each event left without an order what `Outrun` says of
creations: three orders came in between, or the day is full.

**`TimerLock_proofs`.** `TypeCorrect`, `LockOutlivesJob` ([]`HolderIsSafe`) and `MutualExclusion`
([]`OneBody`), for any durations that are `Timely`. `HolderIsSafe` is the invariant: the
time for which an instance may go on believing in its lock is always less than the time
the lock has left. `OneBody` follows, because the key has one value.

**`OfflineQueue_proofs`.** `TypeCorrect`, `TwiceOnlyWithCause` ([]`DuplicateHasCause`) and
`PagesSendTheirOwn` (`SentByOwner`). `IInv` adds: a live sync of a page is the logged-in
account's, whose session is the only one there may be unless another tab has overtaken it
(`OneSession`); a retry count and the
syncs still to count stay within the failures (`CountedOnce`: overlapping syncs lose
counts and gain none); what is about to be removed was settled (`RemoveSound`); an
operation without an excuse is held by one sync (`HeldOnce`).

**Not proved.** Liveness (`EventuallyDelivered`, `EventuallyCleaned`, `EventuallySettled`,
`EventuallyAlarmed`, `EventuallyCleared`, `EventuallyOrdered`, `RunsAgain`,
`EventuallyLeaves`) rests on fairness and ENABLED, which the prover does not handle: TLC
only. Every other property that the passing runs check is proved.

## 7. Not modelled

* **Email delivery.** A delivery row per recipient under the lease protocol of the inbox:
  claim, token, conditional completion. What `Inbox` shows of it is not repeated.
* **Integrations.** A fan-out without state, with three attempts per adapter; its
  repetition is that of the inbox.
* **In-memory event bus.** A bounded channel without retry, for development and tests.
* **Knowledge base.** A rule and its version are loaded and saved in one SaveChanges; what
  overlapping loads and saves come to is modelled for the work order.
* **Authentication and sessions.** Not modelled beyond what the client sees of a session
  (`OfflineQueue`).
* **Tenant quotas.** A reservation is one statement under the lock of the tenant's row.
* **Telemetry and MQTT ingestion.** Parsing and bulk insertion; `AlertEngine` starts where a
  point has become an event.
* **SLA escalation.** A job under `TimerLock` that compares times; its arithmetic is left
  out.
* **Template administration** of the approval chains: which template matches is a free
  choice in `WorkOrder`.
* **Analysis, reports, dashboards**: numerical evaluation and queries without state of their
  own. **Web API, middleware, SignalR hub, the rest of the client, simulator, deployment**:
  request plumbing, presentation and tools. Large script files under `src/output/` are
  recorded browser resources, not code of the system.
