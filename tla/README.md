# Verification of notify_system

TLA+ specifications of the two services of this repository, the TLC
configurations that model-check them on small instances, and proofs that TLAPS
checks for every value of the constants.

- [The system](#the-system): its parts, and what makes each of them correct
- [Modules](#modules): how specifications and code correspond
- [Runs](#runs): what TLC checks, with which bounds and which fairness
- [Proofs](#proofs): what holds for every instance, and why
- [Where code and documents disagree](#where-code-and-documents-disagree)
- [What is not modelled](#what-is-not-modelled), and the [plan](#plan)

Run everything from this directory: `tlc -config ep_safety.cfg MCEventProcessor`
checks a configuration, `tlapm EventProcessorProofs.tla` checks the proofs of a
module. Paths below are relative to the root of the repository; `EP/` stands for
`event_processor/internal/` and `NS/` for `notification_service/internal/`.

## The system

A client posts an event to **event_processor**, which writes it to the PostgreSQL
table `events` and pushes its id onto the Redis list `events:queue`. A worker pops
ids and posts the events to **notification_service**, which writes one record per
channel to the table `notifications` and dispatches them. A reconciler pushes
events again that have been pending for a minute.

    client --POST /events--> handler --INSERT--> events <---UPDATE---+
                                |                  |                  |
                                LPUSH       SELECT stale pending      |
                                v                  v                  |
                           events:queue <--LPUSH-- reconciler         |
                                |                                     |
                                +--BLPOP--> worker -------------------+
                                              |
                                     POST /notifications
                                              v
                             SaveAll, dispatch, UpdateStatus --> notifications

### Components

| Component | State | Operations | What makes it correct |
|---|---|---|---|
| event ingest (`EP/handlers/event_handler.go`, `EP/service/event_service.go`) | the request in flight | validate, INSERT, LPUSH, answer 202/400/409/500/503 | the answer tells the client whose event the row is; nothing is queued that is not persisted; a row is not forgotten when LPUSH fails |
| event repository (`EP/repository`) | table `events` | Save, FindByID, UpdateStatus, ListPendingOlderThan, List | a terminal status was earned and is final |
| event queue (Redis) | list `events:queue` | LPUSH, BLPOP, both at the head | a lost or doubled id costs neither an event nor its outcome |
| worker (`EP/worker/processor.go`, Run, processOne, sendToNotificationService) | the event in hand, the attempt, the decision | pop, load and guard, POST with retries, mark | events are forwarded while pending only; failed only after all attempts; a bounded number of deliveries |
| reconciler (same file, RunReconciler) | the listed batch | list stale pending rows, push each | every persisted event is settled in the end |
| notification request (`NS/handlers`, `NS/service/notification_service.go`) | the request in flight | validate, route, SaveAll, dispatch, update, answer 201/400/500 | one dispatch per event and channel; records tell the truth; 201 means what it says |
| notification repository (`NS/repository`) | table `notifications`, row locks | SaveAll, UpdateStatus, FindByID, List | the records of an event appear together; no deadlock |
| router (`NS/service/router.go`) | none | Resolve, recipients | every route has a recipient before anything is written |
| dispatchers (`NS/channels`) | the attempt | Send with backoff | failed only after all attempts, or when the caller has gone |
| startup and shutdown (both `main.go`) | contexts, channels | start, drain, wait | the process stops, and within its grace period; what it cuts off |
| migration runner (`EP/db`, `NS/db`) | table `schema_migrations_*` | apply what is not applied | each migration is applied once |
| read endpoints (`GET /events`, `GET /notifications`, both services) | none; the client keeps limit and offset | list a page | a walk through the pages misses a row, or shows it twice, for a reason only |
| middleware, configuration, health | none | | |

### What is hard about it

- **Two stores, no transaction.** INSERT and LPUSH can each fail, or take effect
  and report an error; go-redis sends a command again after a network error, and
  BLPOP runs in a context that may end before the reply is read.
- **Redelivery by design.** The reconciler does not know what is queued or being
  forwarded. Every pass pushes every stale pending event again. Only the guard of
  `processOne` on the status stands between duplicates and their effects, and it is
  a read that comes seconds before an UPDATE without a condition.
- **Overlapping requests downstream.** The worker's client gives up after 10 s and
  sends again, while the first request goes on or is cancelled at any statement.
  Requests for the same event meet on the row locks of a unique index.
- **Timeouts against delays.** The caller waits 10 s, the drain of
  notification_service as long; the jittered backoffs of one channel take up to
  8.75 s, of two up to 17.5 s.
- **Half-done work.** A crash, a cancelled context or a failed UPDATE leaves a
  request between COMMIT and dispatch, or between two channels.
- **Stopping and starting.** A stopping process has one minute for clients, worker
  and reconciler, which learn of the stop by different ways. Instances that start
  at the same time migrate the same database, with nothing locked between the
  check of a file and its transaction.
- **Eventual progress.** With a LIMIT on the listing, a full queue, and a queue
  that serves the newest id first, it is not obvious that each event gets its turn.

`PROJECT.json` lists each of these hazards at its line, with the properties aimed
at it.

## Modules

| Module | What it is |
|---|---|
| `EventProcessor` | event_processor: handlers, table, queue, workers, reconcilers, crashes |
| `EventLifecycle` | what event_processor promises of an event: saved once, forwarded while pending, settled once |
| `MCEventProcessor` | small instances of `EventProcessor` |
| `EventProcessorProofs` | theorems for any number of instances |
| `EventProcessorSingleProofs` | theorems for one instance, with the refinement of `EventLifecycle` |
| `Router` | the routing table as operators |
| `NotificationService` | notification_service: requests, transactions with row locks, dispatch loop, cancellation, crashes |
| `NotificationLedger` | what it promises of an event's notifications: they appear together, are dispatched once, settled once |
| `MCNotificationService` | small instances of `NotificationService` |
| `NotificationServiceProofs` | theorems for any requests, events, retries and faults, with the refinement of `NotificationLedger` |
| `NotifySystem` | both services: the POSTs of the workers are requests of `NotificationService` |
| `MCNotifySystem` | small instances of `NotifySystem` |
| `NotifySystemProofs` | theorems about the composition, from those of both services |
| `RequestTiming` | how long a notification request takes, against the client timeout and the drain of notification_service, in discrete time |
| `MCRequestTiming` | `RequestTiming` with the times of the code |
| `RequestTimingProofs` | theorems for any times, retries and channels |
| `Pages` | a walk through a list page by page while the table changes |
| `MCPages` | a small instance of `Pages` |
| `PagesProofs` | theorems for any rows, transactions, limits and offsets |
| `Shutdown` | how an event_processor process stops: main, server, worker and reconciler, in discrete time |
| `MCShutdown` | `Shutdown` with the times of the code |
| `ShutdownProofs` | theorems for any times and retries |
| `Migrations` | RunMigrations in instances that start at the same time, fail and start again |
| `MCMigrations` | `Migrations` with three instances |
| `MigrationsProofs` | theorems for any number of instances and files |

The two services are specified apart and put together in `NotifySystem`. To
`EventProcessor` the notification service is the answer to a POST, any answer at
any time; to `NotificationService` the worker is a caller who may repeat itself and
disconnect. Each is therefore checked against a more hostile partner than it has,
and what needs both (what the status of an event says about its notifications) is
left to the composition.
`Shutdown` and `RequestTiming` each look inside one process, at the clock that the
services' modules abstract from; what they show to be cut off is a `Crash` or a
`ClientGone` there. `Migrations` comes before all: that the columns and the unique
index exist on which they rely is its `ServingIsMigrated`.

Operators with the comment *Mutant* are plausible mistakes in the definition that
follows them; each property is violated when one of them takes its place.

### EventProcessor and the code

| Variable | Code |
|---|---|
| `status`, `creator`, `createdAt` | a row of `events`: `status`, `request_id`, `updated_at` as a rank (a row keeps it while pending, and only pending rows are listed) |
| `aged` | which rows are older than `staleAfter` |
| `queue` | the Redis list, head on the left |
| `handler[r]` | program counter of IngestEvent for request r, its event id, its instance, its answer |
| `worker[i]` | program counter of Run/processOne/sendToNotificationService, the event, `attempt`, the status to write |
| `batch[i]` | events that requeueStalePending has listed and not pushed yet |
| `accepts`, `rejected`, `transients` | history: what the notification service has answered |

| Action | Code |
|---|---|
| `Refuse`, `Receive` | validation in IngestEvent, `EP/service/event_service.go:61` |
| `Save`, `SaveDuplicate`, `SaveError` | the INSERT and its three outcomes, `:94`; with `SaveError` the row may exist all the same |
| `SaveResent` | the INSERT is committed, its connection breaks, and database/sql sends it again (lib/pq reports `driver.ErrBadConn`), `EP/repository/event_repository.go:57` |
| `Enqueue`, `EnqueueFailed` | LPUSH and the answers 202 and 503, `:102` |
| `Dequeue`, `DequeueLost` | BLPOP in Run, `EP/worker/processor.go:71` |
| `Load`, `LoadError`, `Forwards` | FindByID and the guards, `:166` |
| `PostAccepted`, `PostRejected`, `PostTransient` | one attempt of the retry loop with the decision its answer leads to, `:216` |
| `UpdateStatus`, `UpdateStatusError` | the UPDATE, `:184` and `:192` |
| `TimePasses`, `ListStale`, `Requeue` | ListPendingOlderThan and requeueStalePending, `:125`; one push per step |
| `Crash` | the process ends and starts again with empty memory |

After `SaveResent` the INSERT is tried a second time: with a client id it meets the
row it has just written and is answered 409, with a generated id it writes a second
row (when the model has no id left, the request stays where it is, as if the
database did not answer). An UPDATE that is sent again changes nothing the second
time, a SELECT nothing at all, and the statements of a transaction are not sent
again: none of these needs an action.

A step is as large as one statement on a shared store, so every interleaving at
the stores is there. Delays are not: a retry, a poll or a tick is a later step.
Branches that cannot be taken are left out: an event not in the database (the
invariant `QueuedIsPersisted` says why) and errors of `json.Marshal` on a payload
that was read as JSON.

### NotificationService and the code

| Variable | Code |
|---|---|
| `table` | the committed status of each (event, channel) |
| `lock` | which open transaction holds the row of the unique index |
| `req[r]` | program counter of SendNotification, position in the route list, channels with `Inserted`, attempt, outcome, answer, context cancelled |
| `senders`, `delivered`, `errors` | history: who began to dispatch, and what the provider answered |

| Action | Code |
|---|---|
| `Refuse`, `Receive` | `NS/handlers/notification_handler.go:36`, routing and recipients in `NS/service/notification_service.go:65` |
| `Upsert`, `Commit`, `SaveFails`, `CommitUnheard` | SaveAll and saveNotification, `NS/repository/notification_repository.go:37`. `xmax = 0` (`IsNew`) holds of a row that no transaction has committed before; an upsert waits while another transaction holds the row |
| `Skip`, `StartDispatch`, `Created` | the dispatch loop, `NS/service/notification_service.go:108` |
| `Send`, `BackoffCancelled` | RetryingDispatcher.Send, `NS/channels/retrying_dispatcher.go:36` |
| `UpdateStatus`, `UpdateFails` | `:128`; the error ends the loop whatever channels are left |
| `ClientGone` | the caller disconnects: later statements fail, the backoff ends early |
| `Crash` | a process ends with any set of the requests it was serving |

The stub dispatchers never fail; `Send` lets the provider answer either way, which
is what RetryingDispatcher is written for.

Type and payload belong to the event id (`TypeOf`, `PayloadOf`). The handler itself
does not ensure that: it takes them from the body of each request. It holds because
the worker is the only caller and sends what it has read from the row of the event,
whose type and payload nobody updates.

### NotifySystem and the code

All variables of both modules, and

| Variable | Code |
|---|---|
| `call[i]` | the POST that `httpClient.Do` of instance i waits for |
| `unanswered` | history: events of which the worker gave up an attempt without an answer |

| Action | Code |
|---|---|
| `PostBegins` | the request reaches the handler, `EP/worker/processor.go:232` |
| `PostEnds` | the status code is read, `:253`: 2xx, 4xx or anything else. A process that died answers nothing, which is an error like 5xx |
| `PostFails` | refused or broken connection, or the client timeout, `:242` |
| `CallerGone` | net/http cancels the context of a request whose connection is closed; later, or never. It is no fault: the client timeout of a worker is a normal run of the code |
| `EventCrash`, `NotificationCrash` | either process dies; the other one learns of it by an error, or not at all |
| all others | the steps of one service |

A request that its worker has given up runs on beside the next one: that is the
only way in which the services overlap, and all that `NotifySystem` adds. It leaves
`Post` and `ClientGone` no freedom that the other service does not give them.

### RequestTiming and the code

| Variable | Code |
|---|---|
| `pc`, `k`, `attempt`, `left`, `outcome` | the dispatch loop at channel k and `RetryingDispatcher.Send`, with the time left to its backoff |
| `record` | the status of each channel's notification |
| `client`, `gone` | the time until the caller's `http.Client` gives up, and the context of the request |
| `main`, `drain` | main of notification_service and what is left of `shutdownCtx` |
| `late` | history: calls of the provider after the context was done |

| Action | Code |
|---|---|
| `Accept`, `Send`, `BackoffEnds`, `Cancelled` | `NS/service/notification_service.go:102`, `NS/channels/retrying_dispatcher.go:36` |
| `WithJitter` | `:65`: a quarter of the delay to either side |
| `UpdateStatus`, `UpdateFails` | `NS/service/notification_service.go:128`, with the request's context |
| `ClientGone` | the caller disconnects, at its timeout (`EP/worker/processor.go:45`) or before, when it crashes or the connection breaks |
| `Shutdown`, `Drained`, `Exit` | `notification_service/main.go:83` to `:122`, after a signal or a server error alike |
| `Tick` | a unit of time goes by |

Only backoffs take time. Providers and PostgreSQL answer at once, so a real request
takes longer: what the module shows to be too late is too late, and what it shows
to be in time is so while providers and database answer quickly.

### Pages and the code

| Variable | Code |
|---|---|
| `created`, `visible`, `status` | `created_at` (the time at which the transaction began), is it committed, pending or settled |
| `reader` | filter, limit and offset of a client that asks for page after page, and the rows it got |
| `steady`, `moved` | history: rows that the filter has matched all the time; did a row enter or leave the list |

| Action | Code |
|---|---|
| `Begin`, `Commit`, `Settle`, `Matches` | the transactions of Save, SaveAll and UpdateStatus, and which list a row belongs to |
| `Ask`, `Valid` | parsePagination, `EP/handlers/event_handler.go:108` and the same in NS |
| `List`, `Orders`, `Page` | List, `EP/repository/event_repository.go:91`, `NS/repository/notification_repository.go:102` |

### Shutdown and the code

| Variable | Code |
|---|---|
| `cancelled` | is the context of `signal.NotifyContext` done |
| `server`, `conns` | ListenAndServe with the error in `errCh`, and the requests it serves |
| `main`, `cause`, `grace` | where `main` is after line 114, which case of the select it took, what is left of `shutdownCtx` |
| `worker`, `attempt`, `left` | Run, processOne and sendToNotificationService; the time left to a POST or a backoff |
| `due`, `reconciler` | the ticker and RunReconciler |
| `late`, `elapsed` | history: events popped after the signal; time since `main` left its select |

| Action | Code |
|---|---|
| `Signal`, `ServeError` | `event_processor/main.go:89` and the goroutine at `:107` |
| `BeginShutdown`, `Drain` | select, `shutdownCtx` and `srv.Shutdown`, `:114` to `:129` |
| `Wait`, `WaitReconciler` | `EP/worker/processor.go:142` and `:152` |
| `Check`, `PollNothing`, `PollEvent` | the loop of Run, `:63`: the context is looked at before BLPOP, and BLPOP may return an event after it is done |
| `PostEnds`, `BackoffEnds`, `Mark` | the retry loop, under `context.WithoutCancel`, and the UPDATE |
| `Wake`, `PassEnds` | RunReconciler and a pass of it |
| `Tick` | one second goes by |

A POST takes any time up to the timeout of the client, a backoff exactly its delay,
an HTTP request any time at all. Time passes only while all goroutines wait; calls
to PostgreSQL and Redis take none. A hanging database is therefore outside the
model: it would hold up the worker for as long as it hangs, and `main` leaves after
its minute in any case.

### Migrations and the code

| Variable | Code |
|---|---|
| `tracked`, `applied` | `schema_migrations_*`: does it exist, and its rows |
| `schema` | the files whose statements are committed |
| `lock` | the open transaction that holds the locks of the DDL |
| `pc[i]`, `file[i]` | where RunMigrations is in instance i, `"down"` before and `"serving"` after it |
| `alone`, `failed`, `executions` | history: starts that overlapped no other, starts PostgreSQL refused, commits of each file |

| Action | Code |
|---|---|
| `Start` | `event_processor/main.go:50` and `EP/db/migrate.go:23` to `:33`: without files RunMigrations returns at once |
| `Dies`, `Abort` | error returns, exit and crash |
| `Ensure`, `Create`, `CreateCollides` | ensureMigrationTable, `EP/db/migrate.go:80`. `CREATE TABLE IF NOT EXISTS` looks and creates in two steps; two sessions may both find no table, and the later one is refused |
| `Check` | the loop and migrationApplied, `:41` to `:50` |
| `Execute`, `Record`, `RecordCollides` | the transaction, `:57` to `:69` |
| `Commit`, `CommitUnheard` | `:70`; the error may come after the effect |

Both services have the same runner with a table of their own; the files are 1 to
`Last` in the order of their names (two in event_processor, four in
notification_service). That a file executed once more changes nothing holds of
these files (`IF NOT EXISTS`, `DROP CONSTRAINT IF EXISTS` followed by ADD), as
`migrate.go:22` says, though not by `IF NOT EXISTS` alone.

### Faults

Everything outside the program that goes wrong counts against `MaxFaults`: a
statement that reports an error (with or without effect), a lost reply, a command
or a statement sent again, a crash. What the program must expect in normal
operation is free: duplicates, any answer of the notification service, a caller that
disconnects at its timeout, a full queue, stale rows while a worker is busy.

## Runs

| Run | Instance | What it shows |
|---|---|---|
| `ep_safety` | 1 instance, 2 events, 2 requests, 2 attempts, queue of 2, 2 faults | every safety property of the service, and that it implements `EventLifecycle` |
| `ep_two` | 2 instances, 1 event, 1 request, queue of 3, 2 faults | what still holds when workers race: outcomes are earned, deliveries bounded |
| `ep_live` | 1 instance, 2 events, 2 requests, 1 attempt, queue of 2, 1 fault | every persisted event is settled in the end |
| `ep_final` | as `ep_two`, no faults | **violation**: a terminal status is overwritten |
| `ns_safety` | 2 events, 3 requests, 2 attempts, 3 faults | idempotent dispatch, truthful records, honest answers, no deadlock, and `NotificationLedger` |
| `sys_run` | 1 instance, 2 events (one is rejected), 2 attempts, 2 POSTs, 1 fault in either service | events and notifications agree, or there is a reason; both are settled in the end |
| `sys_settled` | as `sys_run` with one event of two channels, no faults | **violation**: a processed event whose notification nobody will ever settle |
| `rt_request` | 2 channels, 3 retries, delays of 1, 2 and 4 s with jitter, 10 s for client and drain: the defaults | the first channel is always settled in time |
| `pg_walk` | 4 rows in 3 transactions, limits and offsets -1 to 3, at most 2 allowed | why a walk may miss or repeat a row |
| `sd_stop` | 1 HTTP request, 3 retries, 10 s, delays of 1, 2 and 4 s, 60 s: the defaults | a signal abandons no event, and the process ends in time |
| `sd_worker` | as `sd_stop` | **violation**: after a server error `main` does not stop the worker and exits while it is still in its loop |
| `mg_start` | 3 instances, 2 files, 2 faults | starts that race, fail and are repeated leave a complete schema |

### Properties

`EventProcessor`:

- `QueuedIsPersisted`: ids in the queue, in workers and in batches have a row.
- `AnswersMatchRow`: 202 and 503 mean the row is the request's own, 409 that it is
  another's, or, only after a fault, its own (`SaveResent`), 400 that there is none. 500 promises nothing, and rightly so: the row
  may exist.
- `OutcomeIsEarned`: `processed` needs a 2xx answer, `failed` a 4xx or
  `MaxRetries + 1` transient ones, counted over all deliveries of the event.
- `BoundedRedelivery`: workers read a 2xx for an event at most once per instance
  and once more per fault, however many copies the reconciler queues. A 2xx that
  nobody read counts as a transient answer.
- `PendingIsAccounted`: without faults a pending event is queued, in somebody's
  hands, or its client was told 503; so the reconciler is needed for failures only.
- `InFlightIsPending`, `TerminalIsFinal`, `ImplementsLifecycle`: the guard of
  processOne is enough. True of one instance.
- `EventuallyTerminal`: each persisted event ends up `processed` or `failed`.

`NotificationService`:

- `OneDispatcher`: at most one request ever dispatches a channel of an event.
- `RecordIsTruthful`: `sent` after a confirmed delivery, `failed` after all
  attempts or a cancellation, and no dispatch without a record.
- `BoundedCalls`: a provider is called `MaxRetries + 1` times for a notification at
  most; the retries of the worker do not multiply with those of the dispatcher.
- `CreatedIsHonest`: after 201 all records exist and this request's own are
  settled; 400 leaves none.
- `PendingHasReason`: a record stays pending only while the request that inserted
  it runs, or because that request ended in 500 or in a crash.
- `WaitsAreOrdered`: who waits for a row waits for a request that is further on its
  way to COMMIT, never for one that waits for it or has been answered: no deadlock.
- `ImplementsLedger`: the abstract specification.

`NotifySystem`:

- `RejectedLeavesNothing`: an event that was ever rejected was never accepted, and
  has neither records nor dispatches.
- `TablesAgree`: without faults, and if every attempt was answered, a processed event
  has its outcomes and a failed one was rejected.
- `LossHasReason`: a processed event has all its records; one that stays pending was
  inserted by a request whose answer the worker did not get, or which was 500.
- `EventuallyNotified`: workers, reconciler, requests and abandoned requests never
  wait for each other in vain: in the end no event is pending, and without faults
  each notification of a processed one is settled, unless the request that inserted
  it was cut off (`CutOff`) by the timeout of its worker.

`RequestTiming`:

- `AnsweredInTime`: the client timeout does not fire before the first `Fit` channels
  are settled.
- `DrainLetsFinish`: stopping the service does not cut them off, whenever the signal
  comes.
- `OneLateCall`: a caller that has gone costs one more call at most.

`Pages`:

- `MissHasReason`: a walk from the first row shows each row that is in the list from
  beginning to end, whatever is inserted meanwhile and in whichever order it is
  committed, unless a row left the list (a filter on `pending`) or rows share their
  `created_at` (the notifications of an event do, and nothing breaks the tie).
- `RepeatHasReason`: a row is shown twice only if a row that its filter matches
  entered the list since the walk began, inserted or settled into it, or for a tie.

`Shutdown`:

- `SignalAbandonsNothing`: after a signal `main` exits only when the worker has
  left its loop. This depends on the sum of all timeouts and delays.
- `AtMostOneMore`: at most one event is popped after the signal.
- `StopsInTime`: the drain and both waits share one minute and exceed it together
  as little as each alone.
- `EventuallyExits`: a signal or a server error ends the process, though clients,
  worker and reconciler may be busy for ever.

`Migrations`:

- `AppliedOnce`: no file takes effect twice although check and transaction are
  apart.
- `TrackingIsTruthful`: table and schema agree and grow in order, after any crash.
- `ServingIsMigrated`: whoever serves does so on all files, also when others have
  applied some of them.
- `RerunIsSafe`: a start that overlaps no other is never refused by PostgreSQL.
  Overlapping ones may be, and their process exits; somebody must start it again
  (`docker-compose.yml` runs one instance of each service).
- `EveryStartEnds`: a start waits for the locks of another one, but not for ever.

### Bounds

- *Events and requests.* Two of each in `ep_safety`: requests with one client id, a
  generated id against a client's, two events competing for queue, worker and
  `Limit = 1`. There are never more requests than ids, so a generated id
  exists unless an INSERT was sent twice. One event is enough in `ep_two`, whose properties speak of one event at a
  time. Three requests in `ns_safety`: one that fails, one that waits, one that
  comes later; its two events are one with two channels and one with one channel
  whose payload lacks the recipient.
- *POSTs.* `MaxPosts = 2` in `sys_*`: one that is given up or fails, and its
  repetition, which overlap. Beyond the bound connections are refused. `sys_run` uses
  a route of one channel, `sys_settled` one of two; what happens between two channels
  is the subject of `ns_safety`. `RequestIds` are the ids that clients send: in
  `sys_run` clients name one of the two events, in `sys_settled` also none, so that
  PostgreSQL generates it; which of both makes no difference once the row exists, and
  the runs of `EventProcessor` alone have both.
- *Attempts.* `MaxRetries = 1` has a first attempt, a retry and a last one;
  `ep_live` uses 0, where the order of events matters and not the attempts.
- *Queue.* `MaxQueue` stands for the memory limit at which Redis refuses LPUSH. It
  is reached in every run, so refusals by a full list are covered, and three holds
  duplicates on both sides of the id that is served.
- *Resends.* `MaxResends = 1`: one command sent twice; go-redis would send three
  more.
- *Faults.* Two allow a fault and another one during the recovery from it; three
  in `ns_safety` one for each request.
- *Times* in `rt_request` are those of the code in quarters of a second, the unit in
  which the jitter of every delay is whole. `Fit = 1` is what the defaults allow for;
  with `Fit = 2` TLC finds the caller gone (2 * 8.75 s > 10 s).
- *Rows* in `pg_walk`: two events or one-channel notifications and the two of an
  order; two pages of two rows, or four of one.
- *Times* in `sd_*` are those of the code in seconds; the polls of half a second
  and a second are instantaneous, which only adds interleavings at the same time.
- *Instances* in `mg_start`: one that fails, one that races with it, one that
  comes after both. Two files, so that an instance can be a file behind another.
- *Deadlock* is not checked (`CHECK_DEADLOCK FALSE`): the requests are finite, and
  when all are answered and all events settled, a process has exited, or all instances
  serve, the system really is at rest. What must not stop early is stated as liveness.
- *Symmetry* is used in safety runs only.

### Fairness

`EventProcessor!Fairness` is weak fairness of each handler past validation, each
worker, each reconciler, and time. Each of them is a goroutine that is always
runnable or waits for a call that returns: handlers for the database and Redis, the
worker in a loop whose calls have timeouts, the reconciler on a ticker. The choice
*within* one of them, such as which answer a POST gets or whether a statement
fails, is not fair: `EventuallyTerminal` holds although the notification service
may answer with errors for ever, because attempts are bounded, and although the
list may be full, because the worker empties it. Requests need not arrive, and
crashes need not happen. A row may not become stale in a fixed number of steps, only in the
end.

`NotifySystem!Fairness` is the same for handlers, workers, reconcilers and time, and
weak fairness of the handler of each POST. An upsert is enabled as soon as the row is
free and only its handler takes it, so weak fairness is what PostgreSQL gives a waiting
transaction here: the number of requests is finite, and each holds a row once. A worker
reads an answer that is there; that it gives up an attempt (`PostFails`) is not fair,
so `EventuallyNotified` does not rest on timeouts. Nor is it fair that
notification_service notices that its caller has gone.

`Shutdown!Fairness` is weak fairness of `main`, the worker and the reconciler, each
a goroutine that the Go scheduler runs when it can, and strong fairness of `Tick`:
time does not stop because some goroutine is always about to do something. A fair
clock is not fairness of what ends a request or an answer; neither has any.
`Migrations!Fairness` is weak fairness of each instance's RunMigrations. Nobody has
to start, and `Start` is not fair.

## Proofs

`EventProcessorProofs` proves, for any finite sets of events and instances, any
set of requests, any bounds and any number of faults:

| Theorem | Statement |
|---|---|
| `TypeCorrect` | `Spec => []TypeOK` |
| `QueuedIsAlwaysPersisted` | `Spec => []QueuedIsPersisted` |
| `OutcomeIsAlwaysEarned` | `Spec => []OutcomeIsEarned` |
| `AnswersAlwaysMatch` | `Spec => []AnswersMatchRow` |
| `PendingAlwaysAccounted` | `Spec => []PendingIsAccounted` |
| `RedeliveryBounded` | `Spec => []BoundedRedelivery` |

`EventProcessorSingleProofs` adds `SingleInstance`, the assumption that
`SOLUTION.md:139` makes for the deployment, and proves:

| Theorem | Statement |
|---|---|
| `InFlightIsAlwaysPending` | `Spec => []InFlightIsPending` |
| `TerminalStaysFinal` | `Spec => TerminalIsFinal` |
| `ImplementsEventLifecycle` | `Spec => ImplementsLifecycle` |

The arguments:

- *TypeOK* is inductive with two additions it carries: a busy worker and a handler
  about to push name an event. Without them `UPDATE` and `LPUSH` could concern
  nothing.
- *QueuedIsPersisted* alone is not inductive: `Enqueue` pushes what the handler
  saved one step earlier. `PersistInv` adds that a handler in `"enqueue"` holds an
  id with a row. Rows are never deleted, so the set of persisted ids only grows.
- *OutcomeIsEarned* needs to know why a worker is about to write what it writes.
  `EarnedInv` adds `Evidence(i)` for each worker: on its n-th retry it has seen at
  least n transient answers for its event; with `processed` to write, a 2xx; with
  `failed`, a 4xx or `MaxRetries + 1` transient answers. Answers are only ever
  added, so evidence is not lost when another instance works on the same event.
  That is why the theorem holds for any number of instances although
  `TerminalIsFinal` does not.
- *AnswersMatchRow* speaks of answers only. `RowInv` adds what leads to them: a row
  exists exactly where it has a creator, a request has no row before its INSERT (while
  it is about to INSERT, only after a fault: the statement may be sent again), and a
  handler about to push holds its own. Creators never change, since an UPDATE
  concerns a row that exists (`PersistInv`).
- *PendingIsAccounted* follows one id along its way: handler, list, worker. Each of
  the three lemmas `HandlerStep`, `QueueStep` and `WorkerMoves` says how one of them
  lets go of it; `RowInv` says that 503 was answered to the creator of the row, and
  `EarnedInv` that an UPDATE ends the state pending.
- *BoundedRedelivery* bounds a history by the present. `Deliveries(e)`: while e is
  pending, its acceptances are at most the faults plus the workers about to mark it,
  because an acceptance that no longer has such a worker was lost to a fault. Once e
  is settled, nobody begins to forward it, and acceptances plus the workers still
  forwarding it are at most the faults plus the instances. At the UPDATE the one
  turns into the other: no worker marks and forwards at once.
- *InFlightIsPending* is inductive for one instance: the only UPDATE is that of the
  worker that holds the event, and it lets go of the event in the same step. With
  two instances the other worker's UPDATE falsifies it, which is what `ep_final`
  shows.
- *TerminalIsFinal* follows: an UPDATE hits a pending row.
- *ImplementsLifecycle* maps `refused` to the events that were given up. INSERT is
  `Persist`; the answer that decides is `Accept` or `GiveUp`; the UPDATE is `Settle`,
  enabled by `InFlightIsPending` and `EarnedInv`; all else stutters.

The assumptions are `NoneAssumption`, `FiniteAssumption` and `BoundAssumption` of
`EventProcessor`; TLC evaluates them in each run.

`NotificationServiceProofs` proves, for any sets of requests and events, any payloads,
number of retries and number of faults:

| Theorem | Statement |
|---|---|
| `TypeCorrect` | `Spec => []TypeOK` |
| `WaitsOrdered` | `Spec => []WaitsAreOrdered` |
| `DispatchedByOne` | `Spec => []OneDispatcher` |
| `CallsBounded` | `Spec => []BoundedCalls` |
| `RecordTruthful` | `Spec => []RecordIsTruthful` |
| `CreatedHonest` | `Spec => []CreatedIsHonest` |
| `PendingReason` | `Spec => []PendingHasReason` |
| `LedgerImplemented` | `Spec => ImplementsLedger` |

None of these is inductive, and no invariant below is without those above it; each is
proved over the earlier ones:

- `PositionInv`: a handler is within its route list, and at a route while it
  dispatches.
- `LockInv`: a row is locked only by a transaction that has walked past its route
  (*WaitsAreOrdered* follows: a transaction waits at its position for a row that the
  other one has behind it), and what a transaction has inserted is locked by it and
  not visible to others.
- `OwnerInv`: past their transactions, no two requests have inserted the same
  record, and nobody but its inserter has begun to dispatch it. COMMIT carries this
  over from `LockInv`: a row that becomes visible was nobody's until then.
  *OneDispatcher* follows, although the code has no lock around the dispatch.
- `LoopInv`: what a request has inserted is settled behind its position, pending and
  untouched ahead of it, and in between only at its position, where the errors of
  the provider are its attempts and the outcome about to be written is true.
  *BoundedCalls* and *RecordIsTruthful* follow, for nobody else calls the provider
  for that record.
- `HoldInv`: a transaction holds all that it has walked past and has inserted what
  of it had no row. So at COMMIT each route has a record, which is what `AnswerInv`
  needs for 201 (*CreatedIsHonest*) and `TogetherInv` for *ImplementsLedger*: the
  records of an event appear together or not at all.
- *PendingHasReason*: whoever has inserted a record answers for it until it is
  settled, or ends with 500 or a crash (`LoopInv`: a loop that comes to its end has
  settled all that it has inserted).
- `CalmInv`, for the composition: without faults no request is lost, and one that
  ends with 500 does so because its context is cancelled.

The proofs rest on the assumptions of `NotificationService`, and on the routing table of
`Router` only in that a type has one or two routes, none of them twice.

`NotifySystemProofs` proves, for any finite sets of events and instances, any clients,
numbers of POSTs, bounds and faults of either service, with `SingleInstance` where it
is marked:

| Theorem | Statement |
|---|---|
| `TypeCorrect` | `Spec => []TypeOK` |
| `RejectedAlwaysLeavesNothing` | `Spec => []RejectedLeavesNothing` |
| `PromisesKept` | `Spec => []P`, for each P of `OneDispatcher`, `BoundedCalls`, `RecordIsTruthful`, `CreatedIsHonest`, `WaitsAreOrdered` and `OutcomeIsEarned` of the two services |
| `SystemImplementsLedger` | `Spec => NS!ImplementsLedger` |
| `LossAlwaysHasReason` | `Spec => []LossHasReason`, one instance |
| `TablesAlwaysAgree` | `Spec => []TablesAgree`, one instance |
| `SystemImplementsLifecycle` | `Spec => EP!ImplementsLifecycle`, one instance |

The theorems of the parts are used, not repeated:

- *The invariants of the services.* Every step is a step of one service that leaves
  the variables of the other alone, but for the count of faults, which they share
  (`Moves`). Each tolerates that it grows by the faults of the other. So the inductive
  invariants of both (`EventInv`, `ServiceInv`) hold in the system (`ServicesStep`), and
  with them `PromisesKept`. The refinements follow in the same way.
- *What connects them* is `LinkInv`. `WaitInv`: an open POST has begun and is of the
  event that its worker is forwarding. `AcceptInv`: behind each acceptance that
  event_processor counts is a request of that event which answered 201. `RejectInv`:
  a rejected event lacks a recipient. `CalledInv` and `TransientInv`: without faults,
  a running request has its worker waiting for it, or its event is in `unanswered`;
  and an event not in `unanswered` was never answered transiently. `GoneInv`: without
  faults, a context is cancelled only for an event in `unanswered`, so by `CalmInv`
  the same holds of 500.
- *RejectedLeavesNothing*: Receive refuses a payload without recipient each time it
  is sent (*CreatedIsHonest*), so an event cannot be rejected once and accepted once.
- *LossHasReason*, *TablesAgree*: the request behind an acceptance answered 201, so all
  records are there; whose record is not settled, another request inserted, and
  *PendingHasReason* says what became of that one. With two instances it may be
  running still, on behalf of the other worker, which TLC finds without any fault once
  the list holds two copies of the event: that is why these two assume one instance, of which
  the worker with the open POST is the only one.

`RequestTimingProofs` proves, for any delays, timeouts, retries and channels:

| Theorem | Statement |
|---|---|
| `TypeCorrect` | `Spec => []TypeOK` |
| `AlwaysAnsweredInTime` | `Spec => []AnsweredInTime`, if the longest backoffs of `Fit` channels are shorter than `ClientTimeout` |
| `DrainAlwaysLetsFinish` | `Spec => []DrainLetsFinish`, if they are shorter than `DrainTimeout` |
| `OneLateCallAtMost` | `Spec => []OneLateCall`, if no backoff is zero |

`ShutdownProofs` proves, for any requests, times and number of retries:

| Theorem | Statement |
|---|---|
| `TypeCorrect` | `Spec => []TypeOK` |
| `AlwaysStopsInTime` | `Spec => []StopsInTime` |
| `NothingAbandoned` | `Spec => []SignalAbandonsNothing`, if `Longest[0] < Grace` |
| `OneMoreAtMost` | `Spec => []AtMostOneMore` |

`PagesProofs` proves, for any finite set of rows, any transactions, limits and
offsets:

| Theorem | Statement |
|---|---|
| `MissAlwaysHasReason` | `Spec => []MissHasReason` |
| `RepeatAlwaysHasReason` | `Spec => []RepeatHasReason` |

`MigrationsProofs` proves, for any instances, files and faults:

| Theorem | Statement |
|---|---|
| `TypeCorrect` | `Spec => []TypeOK` |
| `AlwaysAppliedOnce` | `Spec => []AppliedOnce` |
| `TrackingIsAlwaysTruthful` | `Spec => []TrackingIsTruthful` |
| `ServingIsAlwaysMigrated` | `Spec => []ServingIsMigrated` |
| `RerunIsAlwaysSafe` | `Spec => []RerunIsSafe` |

The arguments:

- *StopsInTime*: since `main` left its select, time elapsed and time left add up to
  `Grace` (`ClockInv`).
- *NothingAbandoned*: `Longest[n]` is the longest time from attempt n to the end of
  sendToNotificationService, given by its recursion equations. `Need` is what the
  worker may still take before it looks at the context again. `SignalInv` says that
  after a signal `Need` is less than what is left of the minute: no step of the
  worker raises it, and each tick takes one from both. For the defaults
  `Longest[0]` is 4 * 10 + 1 + 2 + 4 = 47; with MAX_RETRIES=4 it is 65, and the
  hypothesis fails: `sd_stop` with `MaxRetries = 4` is violated. The theorem is thus
  the condition on the configuration that `config.go` does not check.
- *AnsweredInTime*, *DrainLetsFinish*: `Longest[n]` is what `Send` may still spend in
  backoffs after attempt n, each with a quarter more for its jitter; `Rest[c]` is
  what the channels after c take, up to `Fit`. `Need` of them together never grows,
  a tick takes one from it, and it is less than the time left. For the defaults
  `Longest[0]` is 8.75 s: the hypothesis holds for one channel and fails for two.
- *AtMostOneMore*: after the event that is late the worker does not poll again while
  the context is done (`LateInv`).
- *OneLateCall*: after a late call the loop is in a backoff with time left, which the
  context ends, or past its last call. A backoff of zero is skipped with its look at
  the context (`retrying_dispatcher.go:46`); `NS/config/config.go:46` excludes it.
- *MissHasReason*, *RepeatHasReason*: `Ahead(r)` is the number of rows of the list
  that come before r. For a row without a tie it is its position in every order the
  database may choose (`UntiedPosition`), and a page holds the rows whose position is
  within its offset and limit (`PageFacts`). `MissInv` says that a row not yet shown
  has at least `offset` rows ahead of it, `RepeatInv` that a row that was shown has
  fewer. What is inserted only raises `Ahead`, what leaves the list only lowers it
  (`AheadOrder`), so each invariant has one of the two as its exception.
- *AppliedOnce*, *TrackingIsTruthful*: `LockInv` says that an instance past
  `Execute` holds the locks and one past `Record` is at a file nobody has recorded,
  that each recorded file has been committed once, and that table and schema agree.
- *ServingIsMigrated*: `OrderInv` says that every file before `file[i]` is applied, and
  that who serves is past the last one; without files it is so from the start.
- *RerunIsSafe*: `AloneInv` says that while a start is alone, what it has read in
  the database is still so.

They rest on `TimeAssumption` of each module, `RowAssumption` (a walk meets finitely many
rows) and `MigrationAssumption`, those of the composition on `SystemAssumption`; TLC
evaluates each of them in a run.

Every invariant, `TerminalIsFinal` and both refinements of the passing runs are
theorems. Checked by TLC only are the liveness properties: `EventuallyTerminal`,
`EventuallyNotified`, `EventuallyExits` and `EveryStartEnds`. They rest on fairness, and
this prover has neither fairness nor ENABLED. The properties of the three runs that
expect a violation are false, as the next section explains.

## Where code and documents disagree

- `ep_final`: `SOLUTION.md:139` says that with several instances "each event goes to
  one worker", and `SOLUTION.md:101` that the terminal-state guard "makes duplicate
  queue entries safe". The latter is proved for one instance. With two, the reconciler
  pushes an event whose row is still pending while a worker is forwarding it; the other
  instance pops it and forwards it too. Both have passed the guard before either
  writes, and the UPDATE has no condition: an event marked `processed` becomes
  `failed`, or the reverse. No fault is needed, only a delivery that takes longer than
  `staleAfter`.
- `sys_settled`: `README.md:56` and `SOLUTION.md:85` say that a record is persisted as
  pending, dispatched, and then updated to `sent` or `failed`. If a request ends
  between COMMIT and the last update, the repeated request finds its records, skips
  them all and answers 201. No fault is needed: TLC's trace is a worker that gives
  the first request up at its timeout, and a context cancelled before the update. The worker marks the event `processed`, and the
  notification stays pending for ever: the reconciler looks at events only. The price
  of `OneDispatcher` is that nobody finishes another's work.
- `sd_worker`: `SOLUTION.md:57` says that main "explicitly waits for the worker
  loop to stop before exiting". When ListenAndServe fails, `main` leaves its select
  by `errCh`; the signal context stays live, so the worker goes on popping events
  for the minute that `main` waits, and is still in its loop when the process ends. An
  event in its hands then stays pending until a reconciler, of another process or after
  a restart, queues it.

Three more follow from the bounds of properties that hold:

- The same line says that "the current event is not abandoned mid-request". After a
  signal that is proved for the default configuration, but `MAX_RETRIES=4` is accepted
  and makes the longest processOne 65 s (`NothingAbandoned`).
- `README.md:164` and `README.md:166` call `MAX_RETRIES` and `DISPATCH_MAX_RETRIES` the
  greatest number of attempts (最大尝试次数). Both loops make one attempt more;
  `BoundedCalls` is sharp.
- The backoffs of an event with two channels may outlast the client timeout of 10 s
  (`AlwaysAnsweredInTime`), which is how the timeout of `sys_settled` comes about
  once providers do fail; the stub dispatchers of today never do.

## What is not modelled

- Configuration is read once. That it refuses negative retries and delays that are not
  positive is what the modules assume of their constants.
- Health and readiness checks, middleware and GET by id change no state and relate
  nothing. The request id is modelled as the `creator` of a row.
- The shifts of the backoffs overflow from the 35th retry on; by then the delays before
  it have taken longer than any process lives.
- Calls to PostgreSQL and Redis take no time in `Shutdown` and `RequestTiming`.
- Texts, payload contents and their JSON coding: a payload is the set of recipient
  keys it holds.
- `NotificationRepository.Save` has no caller outside tests.
- `ErrNoRoutes` and the missing dispatcher cannot occur: Resolve falls back to the
  default route, and `notification_service/main.go` registers both channels.

## Plan

What is left is to widen the theorems that assume one instance: what of `LossHasReason`
and of `EventLifecycle` remains true when several workers forward the same event
(`ep_final` shows that the finality of a status does not), and to state it as an
abstract specification for any number of instances.
