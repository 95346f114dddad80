# Verification of the client gateway

The repository is an API gateway written with NestJS. A request of a browser
is either forwarded to a microservice over NATS, or turned into a BullMQ job
that a worker of the same process runs later; the client polls or listens on a
WebSocket for the outcome. One Node.js process holds everything: the HTTP
handlers, the workers, the cache, the statuses. What makes it hard is not
parallelism but the awaits: between two of them every other handler may run.

This directory models that process with TLA+: the modules, their TLC
configurations, the theorems that TLAPS checks, and this text. All paths below
are relative to `src/src/` of the repository.

## 1. Inventory

| Component | State | Operations | Talks to |
|---|---|---|---|
| LRU cache, `common/cache/services/lru-cache.service.ts` | entries, access times, a logical clock, a cleanup timer | `get`, `set`, `delete`, `has`, `clear`, periodic cleanup | called by the workers (through `JobCacheService`) and the monitoring endpoints |
| Request interception, `common/interceptors/queue.interceptor.ts`, `queue-config.service.ts` | the queue switch, the exclusions | `intercept`, `enableQueue`, `disableQueue`, `toggleQueue` | router, queue service, status service, controllers |
| Job processing, `common/workers/processing`, `workers/cache` | none of its own; result records and history in Redis | `processJob`: lookup, dispatch against a timeout, store, save | BullMQ, NATS, Redis, the cache |
| Worker factory and pool, `common/workers` | the map of workers, their statuses | create, shut down, add, remove, ensure, pause, resume | BullMQ workers, the queue service |
| Queue service, `common/queues/dynamic-queue.service.ts` | queues, definitions, the configuration in memory, in Redis, in `config/queues.json` | add a job; create, update, remove a queue; set the number of workers | Redis, the file system |
| Queue administration, `common/controllers/queue-admin.controller.ts` | none | the HTTP calls that change queues and workers | queue service, pool, configuration repository |
| Job status, `common/websockets/job-status.service.ts` | job id -> status and times | mark queued, completed, failed; cleanup of old jobs | interceptor, worker events, WebSocket service |
| WebSocket, `common/websockets` | clients and their subscriptions | register, subscribe, broadcast, unregister, cleanup of inactive clients | job status |
| Queue routing and history, `common/queues/utils` | none; the history lists in Redis | choose the least loaded of the matching queues; read results | Redis |
| Request routes, `common/messaging/request-routing.service.ts` | a table of routes | resolve a method and a path | interceptor |
| Cache keys, `common/cache/strategies` | none | key, cacheability and time to live of a request | workers |
| Idempotency, `common/services/idempotency.service.ts` | operations under way, completed operations | execute once per key, cleanup | the atomic enrollment endpoints |
| Load test, `common/testing` | tests, their jobs and metrics | start, poll, record, finish, clean up | queue service |
| Monitoring, `common/monitoring` | measurements, counters | periodic checks, reports | pool, cache, Redis |
| Seeding, `common/seeding` | the ids passed from seeder to seeder, per request | seed, clear | microservices |
| Proxies, guards, filters (`programs`, `enrollments`, `calendar`, `facilities`, `teaching`, `assessments`, `auth`, ...) | none | one request in, one message out | microservices |

Behaviours that are hard, and what is right about each component:

* **Cache.** `set()` awaits its capacity test, and the loop in the test awaits
  each eviction. Right means: the two maps agree, the overshoot is bounded and
  transient, evictions take the least recently used entry, every `set` ends.
* **Interception.** The job is added by a call that may fail after Redis has
  executed it, and the status is set after the job may already have ended.
  Right means: an accepted job exists; a request is executed no more often than
  its failures explain.
* **Job processing.** Timeouts race late answers; retries, stalls and lost locks
  repeat work. Right means: the record tells how the job ended, two slots never
  work on a job whose lock is held, every job settles, and what it completes with
  came from the microservice or is the echo of a test.
* **Pool and definitions.** Five administrative calls share a map, an array and
  two persistent copies, and wait for workers that take minutes to close.
  Right means: the copies agree when the calls are over, no closed worker stays
  in the map, no running one falls out of it.
* **Routes, keys, choice of a queue.** A table repeats by hand what eighteen
  controllers say. Right means: a queued request becomes the message its
  controller would have sent; the queue chosen is the best of those that were
  there; a kept response is only given to whom it was made for, and is no older
  than its kind allows.
* **Idempotency.** Right means: one execution per key and time to live, nobody
  waits for an operation that has ended, no answer is made up.
* **Load test.** Polls race the jobs' end, their removal and the cleanup. Right
  means: every job is counted once, the report is true, the test ends.
* **Seeding.** Nothing is rolled back when a message fails. Right means: what
  is created belongs together, and a reported success was earned.
* **Status and WebSocket.** Right means: nobody is told "completed" of a job
  that did not complete; the last message a confirmed subscriber got is the job's status;
  sessions and statuses do not pile up.

`PROJECT.json` lists every component with its sources, and every hazard with
its line and the properties aimed at it.

## 2. Plan

Done first, in this order: `RecencyCache` and `LruCache` with proofs,
`JobLifecycle` with proofs, `QueueAdmin`, `StatusHub` with proofs. Then the way
of a request (`HttpEndpoints`, `RequestRoutes`, `HttpCacheKeys`, composed by
`RequestPath`), `Idempotency` with proofs, `LoadTest` with proofs, `Seeding`,
and the proofs about `QueueAdmin`, `RequestPath` and `Seeding`.

Left, in the order of what it would add:

| Next | What | Checked against | Worth proving |
|---|---|---|---|
| 1 | `QueueAdmin` with pause and resume: BullMQ's pause waits for the running jobs, so a resume may overtake it, and a status is set by an id that a later worker may have been given | the status that is shown is the worker's | |
| 2 | `ResourceMonitor`: consecutive measurements over the limit | an alert comes only after the promised number | the counter's bound |

Conventions: parameters are CONSTANTS with a named ASSUME; one action per
operation, or per stretch of an operation between two awaits; a definition whose
name ends in `Mut...` is a deliberately wrong version of the definition after
it, kept to show that a property notices the mistake.

## 3. Modules

### `RecencyCache`, `LruCache` (the cache)

`LruCache` follows `LRUCacheService`. `cache` and `accessOrder` are its two maps,
`currentTime` its clock, `timer` the cleanup interval. JavaScript runs one
continuation at a time: `ready` is the queue of continuations (served in order),
`pc[w]` says where the `set()` of writer `w` is, `pending[w]` what it will store.
`set` is the code up to the first await (the expiry is fixed there),
`resumeEviction` one more turn of the eviction loop, `resumeStore` the rest,
which stores without another test. `get`, `has`, `delete`, `clear` have no await
that lets others in and are single steps. A timer callback runs only when no
continuation waits. A worker calls `set()` at most once before the queue is
empty (`called`): before the next call it needs answers of the network. The
counters of hits and misses and the size estimate are left out: no decision
reads them.

`RecencyCache` says what callers may rely on, without clock, continuations and
writers: entries that expire, a strict order of use, evictions only from a full
table and only of the entry nobody is older than. `LruCache` implements it
under the mapping `table <- cache`, `older <-` the order of the access times.

### `JobLifecycle` (interception, job processing, status)

A request and its job share a name, since the interceptor draws a fresh id for
each request. `request[r]` is where its handling is: `intercept` (up to the
await of the router), `queueChosen` (up to the add), `jobAdded` (Redis executes
the add), `accept` (the answer is back: the status becomes "queued"), `addFails`
(an error before or after the add was executed: the controller handles the
request). A slot is one job a worker may run at a time; `phase[s]` is its place
in `processJob()`. `dispatchFails` is the lost race against the timeout:
the message stays with the service as an orphan and `orphanExecutes` may still
execute it. `saveJobResult` writes the record or, if Redis fails, nothing.
`jobReturns` and `jobThrows` are BullMQ's handling of the end: it counts only
if the slot still holds the lock.

The load test and the two test endpoints add jobs of their own, whose pattern
`queue.test` makes the dispatcher return an echo: `Echoes`, added by `addEcho`,
served by `dispatch` without a message to anybody. They go through the slots
and the cache like the others. `result[s]` says whose result an attempt ended
with, `cached` whose result the cache holds, `returned[r]` whose result a job
completed with: its own, or that of a job with the same cache key, echoes
included. A job without a message is returned as it is by the dispatcher too;
no caller of `addJobToQueue()` adds one.

Not in the repository, and modelled from its use (marked external in the map):
BullMQ (states, attempts, locks, the stalled check, the delay of retries), Redis,
the microservice. Faults are a lock that is not renewed (`lockExpires`) and a
restart of the gateway (`crash`), which loses what the process keeps in memory
and leaves jobs, records and messages as they are.

Abstractions: the cache is the entry of one cacheable resource, which may be lost
at any time (`cacheLoses`); `LruCache` is the
detailed cache. Exclusions and routes are the constant `Routable`. The store in
the cache is not awaited by the code; it is one step here because it finishes
before any answer of Redis can arrive.

### `QueueAdmin` (definitions, workers, administration)

One queue, since queues share nothing but the file that holds all definitions.
`definition` is the entry of the map of definitions, `config` the entries of
the array with the queue's name (there may be two: a disabled definition of the
file and one created later), `workers` the map of the pool in insertion order,
`instance` the BullMQ workers that have not closed, whether or not the map
knows them. `redis` and `file` are the persistent copies.

A call is a process. `call[c]` records its kind, what it waits for (`at`) and the
step that follows (`next`). The operators from `setQueueWorkers` to `newQueue` are
the methods of the code, cut at their awaits; `Continue` is the order in which
the five handlers call them. Three kinds of await are told apart:

* of the outside world (a worker or a queue closing, Redis, the file): anything
  may happen meanwhile;
* of something that needs no such answer (the await of `createWorker()`, the
  return from `removeQueue()` inside `updateQueue()`): only calls that are ready
  as well alternate there, since no request or answer is let in before they have
  run (`Quiet`);
* of calls of this kind between which nothing is read or written: no step.

Calls that wait for the same worker are woken together, and so are those that
wait for the queue. A save in Redis is
applied when it is issued (one connection, executed in order). The file is
truncated when the write begins (`Torn`), its content is what the configuration
was then, and writes that overlap may leave a garbled file. A save may fail
before or after taking effect; the failure is thrown, swallowed or reported as
in the code. `restart` ends the process at any moment and starts it from the
file, or from the defaults if the file does not parse; the initialisation of
queues and workers is part of it: `InitialWorkers` and `InitialInstances` are its
result. Every enabled definition gets its workers, numbered from one, in one
map, so those of a second enabled definition take the places of those of the
first, which run on unknown to the pool. `doubled` is the history of that:
some start has found two enabled definitions. (`createQueue()` beside a
disabled definition of the file, and `setQueueWorkers()`, which overwrites the
first entry of the name, make such a file.)

Left out: requests that are refused before they change anything; `reloadWorkers`,
`setQueueConcurrency`, `getConfig` and `subscribe`, which nobody calls; the
`onModuleDestroy` handlers, since `main.ts` does not enable shutdown hooks and
nothing closes the application; pause and resume (planned). The environment
variable `QUEUE_<NAME>_WORKERS` is taken as unset. Two simplifications lie within
steps: persisting a count reads the definition and overwrites it in one step,
with no turn of another call between (no property mentions the number that is
saved); and a worker that is being closed closes, while `shutdownWorker()` would
also swallow an error of `close()` and go on in the same way.

### `StatusHub` (job status, WebSocket clients)

`jobStatuses` is the map of `JobStatusService`; `clients` and `jobIds` are the map of
`WebSocketService`, `socket` the sockets themselves, `seen` what each client's
socket was last sent about each job, by an update, at a subscription or as an
answer, and `confirmed` the subscriptions of which it was sent the confirmation.
Subscribing adds to the client's set of jobs first and then sends twice, the
status and the confirmation. Either send may throw (`Confirm`): the client is
sent an error and stays subscribed, without the status, and
`SubscribersCurrent` does not speak of it. `markJobQueued` and `markJobCompleted` store a status and push it to
every subscriber in one step, as the code does (the event is emitted
synchronously); a send may throw for any of them, which unregisters that client
and leaves its socket open. A client has two ways to send each request (an event
of the socket, a message of the gateway); both end in the same method and are
one action. `disconnect` is the socket's own listener and the gateway's handler
together: the second finds nothing left. `timer` runs both cleanups.

The events of a job are the ones `JobLifecycle` produces, without what leads to
them: it is added, its addition is reported, it may complete, and its
completion is reported after an answer of Redis. Time is kept as ages that
stop growing one step above the limit they are compared with, so the model is
finite without a bound on time; the timer may be late, never early.

`markJobProcessing`, `markJobFailed`, `updateJobProgress`, `broadcastToAll` and
`notifyJobUpdate` have no caller; statistics and ping change nothing.

### `HttpEndpoints`, `RequestRoutes`, `HttpCacheKeys`, `RequestPath` (from a request to a message)

`HttpEndpoints` is the controllers and services that forward a request, one
record per endpoint: method, path, guard, and the pattern and the fields of the
message, each field with the part of the request it comes from.
`RequestRoutes` is the table of `RequestRoutingService` in its order, and its
lookup: the first route whose method and path match, which then may lack a part
the payload insists on. `HttpCacheKeys` says which responses are kept, for how
long and under which key. The three are operators; `RequestPath` has the state.

One request at a time goes through `arrive` (the guard), `intercept` (exclusions
and the route, up to the await of the router), `getLoad` (the load of one queue
after the other) and ends queued, handled by its controller or refused. At any
moment an administrator adds or removes a queue or an exclusion. The router
goes over the array of definitions it started with: `createQueue()` pushes to
that array, `removeQueue()` replaces it (`choice.array`). `choice.steady` is a
history variable: the definitions that have been there since the choice began.

A URL is the sequence of its segments. A parameter has a list of values. The
text of a key is a sequence of words and the separators `:`, `/`, `&` and `=`, put
together as the code does and without escaping; `spell` takes apart a word that
has separators in it, as a decoded value may. The digest of the text is taken to
be free of collisions. Whether the validation pipe accepts a request is one
Boolean of it (`valid`); what the pipe makes of what it accepts is `transform`: it
converts a body and the query of a list, and fills in the defaults of
`PaginationDto`. It stands after the interceptor, so nothing of this happens to a
request that is queued. Express tells no capitals in a path, `matchPath()` does: a
request may have them in its first word (`first`). `live` is the map of queues,
which holds the enabled ones. The state of the switch belongs to
`JobLifecycle`.

### `Idempotency` (IdempotencyService, atomic enrollment)

`inProgress` and `completed` are the two maps of the service; `call[c]` is where
the call of a caller is. `replay`, `join` and `start` are the three ways through
`executeWithIdempotency()` up to its await, `succeed` and `fail` what follows it:
the call that started the operation and those that joined it run one after the
other before anything else is let in, so they are one step. A run is its own
result, which tells answers apart; `succeeded` and `sinceSuccess` are history
variables. Ages stop growing one step above the time to live. `restart` loses the
maps. `TransactionService` beside it has no caller.

### `LoadTest` (LoadTestService, job history)

`stage`, `sent` and `rounds` are where `executeLoadTest()` is, `track[j]` and
`polls[j]` where `createAndTrackJob()` and the polls of job `j` are, `verdict` the map
`jobResults`, `metrics` the three counters, `listed` whether the test is still in
the maps (`cleanupTest` takes it out at any time). A poll is two awaits:
`getJob` finds the job or not, `getState` reads its state, and in between the job
may have ended or been removed. `status`, `phase` and `result` are the job in
BullMQ and in `processJob()`, shortened to what a poll can see: attempts and
locks are in `JobLifecycle`. All jobs, one of a client included, are GET requests
of one resource, whose response `cache` may hold; a job of the test is echoed by
the dispatcher. `history` is the Redis lists by name, the one that is written and
the two that are read.

Latencies, throughput and the advice computed from the results are left out, as
is the choice of method and path of a job.

### `Seeding` (SeedingService and its eight seeders)

`op[r]` is a request to seed or to clear: the step it is at, the messages left to
send (`todo`), the ids it knows (`SeedingContext`), and what the seeder under way
counts and reports. The operators from `createStaff` to `createGrades` are the
steps of the seeders: each computes its messages from the ids that are known
and sends them one by one. `createSucceeds`, `createRefused` and `createFails` are
the answers: stored, "already exists" (looked up by users and levels only) or
refused for a reference that is gone, and an error or a timeout, after which
the message may still be executed (`executeLate`). `createIgnored` is an answer
without an id to the creation of a section: nothing is stored, and it counts, since
nobody looks at that answer. What a seeder does without an
id differs, and the differences are the sets `Kept`, `LookedUp`, `Reported` and
`Unchecked`. `store` is the tables of the microservices, external; a record is its
own id, and refers to records. `disturbed` is a history variable: requests
overlapped, a clear was incomplete, something was executed late, or a section
was answered without being stored.

The rooms and teachers of sections and the generated fields are left out. The
limits of the lists (100 records, 5 sections of a term) are above what one run
creates.

## 4. Runs

| Run | Bounds | What it shows |
|---|---|---|
| `lru_cache` | 3 keys, capacity 2, 2 writers, clock up to 4, one tick of time | `MapsAgree`, `OvershootBound`, `LoneSetRestoresCapacity`, `ImplementsRecency`, `EverySetCompletes` |
| `job_lifecycle` | 1 request, 2 slots, 2 attempts, 1 stall, 3 faults | `RecordMatchesOutcome`, `NoTwoWorkers`, `ExecutionsAccounted`, `StatusTruthful`, `EveryJobSettles` |
| `shared_slots` | 1 cacheable request, 1 echo of its URL, 2 slots, 2 attempts, 1 stall, 1 fault | `CompletedWasServed` |
| `queue_admin` | 3 calls, 2 at a time, 2 workers per queue, 1 fault | `DefinitionsAgree`, `SavesFollow`, `MapHasNoDead`, `SequentialTracksWorkers`, `ConcurrencyApplied`, `EveryCallEnds` |
| `status_hub` | 2 clients, 1 job, period 1, connection age 1, retention 2 | `SubscribersCurrent`, `NothingIsKept`, `CompletionIsTold` |
| `inactive_clients` | 1 client, 1 job | violation: "inactive" clients |
| `request_path` | every endpoint with its complete and its defective requests, 4 queues, loads 0, 1 and unreadable, 3 changes | `TablesAgree`, `ChoiceIsBest`, `UniqueKey`, `CacheIsCareful` |
| `idempotency` | 2 keys, 3 callers, time to live 2, 3 runs per key | `NobodyIsForgotten`, `AnswersAreGenuine`, `OncePerKey` |
| `load_test` | 2 jobs one by one, 1 job of a client, 2 polls, 1 round of waiting | `CountedOnce`, `ReportIsTrue`, `TestEnds` |
| `history_served` | the same, 3 polls | violation: a saved result is in no list that is read |
| `clients_get_answers` | the same | violation: a client is answered with an echo |
| `seeding` | 2 requests, 2 levels of one course, 2 terms of which 1 is past, 1 fault | `RecordsBelongTogether`, `SuccessIsEarned` |

Each run checks the type invariant of its module too (`shared_slots` leaves it
to `job_lifecycle`).

Why the bounds are enough. Three keys over a capacity of two make an eviction
choose, and two writers are the smallest number that overshoots; the bound on the
clock (`MaxClock`) is what keeps the run finite, and the theorems do without it.
One request with two attempts and one permitted stall meets every edge of a
job's life, and three faults allow a lost lock, a crash during the recovery
and one more; two slots are what a lost lock needs to be noticed. A request and
an echo with one key are what mixing results or cache entries needs, with an
answer that comes after the other one's store. Two administrative calls at a time
are what each race of the pool needs, and the third makes one of them find what
the race left behind; with two workers per queue a removal leaves one and a
second removal leaves none. Two clients are what a broadcast that fails for one
of them needs; the period of the timer equals the permitted age of a connection,
as in the code, and statuses are kept longer than connections.

`request_path` takes every endpoint of the repository, so what is bounded is the
surroundings: four queues of which several fit one URL, with loads that tie,
differ and fail, and three changes, enough to remove a queue while it is asked,
create it again and exclude a path. Of the ids one is in capitals, so that the
key changes it; queries are repeated, empty, blank, padded and have separators
in their values, and some paths begin with a capital: each case the two ways
of a request treat differently occurs (942,056 states). Three callers are the one that runs an
operation, one that joins it and one that comes later; three runs are a failure,
a success and one after it has expired. A batch of one job and a second one are
what waiting between batches needs; one job of a client makes two kinds of jobs
share the cache and push a job out of what BullMQ keeps. In `seeding` every
step of every seeder has at least one message; the one fault is a message that
fails or is late, or a second run that begins during the first
(`MaxFaults`), and the second request clears, seeds or does both.

`CHECK_DEADLOCK FALSE`: in `QueueAdmin`, when the bound on calls is used up and
no fault is left, the model stops; in `LoadTest` the test ends; in `Seeding` both
requests end.

What each property is about stands above its definition. The ones that say less
than one might wish say so because the code promises less:
`SequentialTracksWorkers`, `ConcurrencyApplied` and the half of `SavesFollow` about
the file hold only of calls that do not overlap.
`EveryCallEnds` has the premise that in the end no more calls come
(`NoMoreCalls`). It rules out that calls which wait for each other, or a loop
that closes the workers another call adds, keep one for ever. It says nothing of
adds that go on without end: `removeAllWorkersForQueue()` closes workers until it
finds none, and no code bounds that. Both the run's bound on calls and the
property rest on this premise.

`TablesAgree` compares the queued message with the direct one through the pipe:
equal field by field after `transform`. The ways a queued request really differs:

* nothing is converted (`"2"` stays a string) and the defaults `page`, `limit` and
  `sortOrder` are not filled in: `GET /enrollments` asks for
  `{page: 1, limit: 10, sortOrder: 'ASC'}` directly and for `{}` by way of a queue;
* the two parameters of `students/recommended-courses` are trimmed, and a blank one
  is left out, on the way to a queue only;
* a path with a capital in its first word finds no route and goes to its controller;
* a parameter that is repeated: these requests are left out (`Single`).

`UniqueKey` is about requests none of whose parts has a separator in it
(`Separable`), since the doc comment of `generateHttpRequestKey()` promises more than
it does (section 5). `CacheIsCareful` states the limit each kind of response has:
enrollments, their details, their count and the validation of a new one are a
minute old at most, everything else of the enrollment service five, but the
prerequisites of a course and their check, which a pattern of static data keeps
for fifteen. That `database-performance/student-enrollment-details` gets five
minutes and not one is the substring rule: its path contains no `/enrollment`.

When administrative calls do overlap, two workers may get one number and the map loses one
that runs on; two writes of the file may end in the wrong order. The first two
also need a start that has not found the queue enabled twice.

Fairness. `LruCache`: the runtime serves waiting continuations (`WF(Resume)`).
`JobLifecycle`: weak fairness of what the process, BullMQ and Redis do by
themselves; nothing of the clients, the microservice (a dispatch that is never
answered times out), the cache or the faults. `QueueAdmin`: the calls that are
ready run, Redis, the file system and closing queues answer or fail, and a
worker that is being closed closes: its jobs all have a timeout. `StatusHub`:
Redis answers or fails. That time passes and the timer fires is a premise of
`NothingIsKept` only: with it in the specification, `CompletionIsTold` would hold
of any code, because every session ends. `LoadTest`: the timers of the test fire
and Redis answers or fails; nothing of the workers, so a test ends although its
jobs may never be worked on. `RequestPath`, `Idempotency` and `Seeding` have no
fairness and no liveness: an operation that is sent directly has no timeout, so
nothing promises that callers are ever answered.

## 5. Findings

Three disagreements have a violation run.

* `inactive_clients`: `common/websockets/websocket.service.ts:274` says that clients
  without activity for five minutes are cleaned up. What is tested is the age of
  the connection: a client that waits for a long job, and says so, is
  disconnected.
* `history_served`: `saveJobResult()` pushes to `job:history:<queue>`, while the
  endpoints of results read `jobs:history:completed` and `jobs:history:failed`,
  which nothing writes: their lists are always empty.
* `clients_get_answers`: the echo of a load test's job is stored under the key of
  its URL, and answers the clients' requests of that URL until it expires.

Seen while modelling, and not given a run:

* `common/cache/README.md:88` calls `CACHE_MAX_SIZE` the maximum number of
  entries; sets that interleave exceed it (`OvershootBound` says by how much).
* `common/interceptors/queue.interceptor.ts:43` says "No internal bypass". The same
  method hands the request to its controller when the queue is missing or the add
  fails, even after Redis has executed the add.
* `common/websockets/job-status.service.ts:39` promises the current state of a job;
  a failed one stays "queued", since nothing calls `markJobFailed()`.
* `common/controllers/queue-admin.controller.ts:255` removes the workers first; the
  queue is still registered while it is being closed, so a worker added then
  outlives the queue.
* `common/controllers/queue-admin.controller.ts:158` persists the number of workers;
  for the last one there is no number, and the definition keeps asking for one.
* `common/queues/dynamic-queue.service.ts:180` overwrites the first entry with the
  queue's name, which need not be the one in force: with a disabled definition in
  the file, `POST /` and `POST workers/:queue` leave the queue enabled twice in
  the configuration, and the next start creates its workers twice and keeps
  track of half of them. A removed or added definition is unaffected, which is
  why `DefinitionsAgree` holds.
* `common/cache/strategies/http-cache-key.strategy.ts:18` derives "una clave única"
  from the method, the URL, the parameters and the user, but joins them without
  escaping: `?page=2%26search=a` and `?page=2&search=a` have one key, and so have the
  anonymous `?search=a:user:u1` and user u1's `?search=a`. `UniqueKey` says of which
  requests the key is unique.
* A query parameter that is repeated has its last value in the cache key and its
  first in the message (`UniqueKey` and `TablesAgree` leave these requests out).
* The key has the URL in lower case, the message the id as it came. The ids the
  microservices give out are UUIDs, so no two differ in case alone
  (`UrlAssumption`); a client that sends one in capitals gets, and leaves behind,
  the response for the one in lower case.
* The routes of `/academic-years` and `/terms` have no controller under these paths.
* A pattern for all paths competes with the one of a critical queue by load, so a
  request that is critical may go to the standard queue (`ChoiceIsBest` says what
  the choice is).
* With a concurrency of 0 `createJobBatches()` never ends.
* A completed job that BullMQ has removed before it is polled counts as failed
  (`ReportIsTrue` promises nothing of failures).
* `clearAllData()` goes backwards "to respect foreign key dependencies"
  (`seeding.service.ts:117`), but the students, created by the second seeder with
  its study plan, are cleared by the first, after their plan.
* Schedules, details and grades that could not be created are counted as created,
  so their seeders report success with nothing stored; `SuccessIsEarned` is about
  the enrollments and sections, whose failures are reported.
* Sections get any known user as their teacher, administrators included.
* The errors of clearing grades, enrollments and sections are swallowed.

## 6. Theorems

All theorems hold for every value of the constants that satisfies the named
assumption of the module (`CacheAssumption`, `JobAssumption`, `HubAssumption`,
`AdminAssumption`, `RequestAssumption`, `UrlAssumption`, `IdempotencyAssumption`,
`LoadAssumption`, `SeedingAssumption`): any sets of keys, writers, requests, slots, clients, calls, callers and jobs
(writers and slots finite), any capacity, any definitions and updates, any
patterns, priorities and loads of queues, any number of attempts, stalls,
faults, jobs, workers, polls and changes, any periods.

`LruCacheProofs`
* `TypeCorrect`, by one case per action. The steps on the two maps are lemmas
  about `RemoveKeys`, `updateAccessOrder` and `ensureCapacity`.
* `MapsAlwaysAgree`: `MapsAgree` is inductive relative to `TypeOK`. That access
  times are distinct needs that none is ahead of the clock.
* `OvershootBounded`: `Size + |Storing| <= MaxSize - 1 + |Writers|` is inductive
  relative to the two above. Counting the sets that have passed the test as
  stored is the strengthening that makes it so: passing the test adds one to
  `Storing` while `Size < MaxSize`, and a store moves one from `Storing` to `Size`.
* `LoneSetRestores`, an action property, from `Waits` (a `set` under way has a
  continuation waiting and is in `called`, so the next turn finds nobody under
  way) and `RoomForOne` (who was called alone and passed the test still has room).
* `CacheImplementsRecency`: every step maps to a step of `RecencyCache` or to a
  stutter; the minimum of the access times is a minimal element of the order of
  use by `MapsAgree`.

`JobLifecycleProofs`: one inductive invariant,
`IInv == TypeOK /\ Ownership /\ Admission /\ RecordedFirst /\ RecordMatchesOutcome /\ StatusTruthful`.
* `Ownership`: a lock names a slot that runs the job, the lock of an untainted
  job is held by the slot that runs it, and only active jobs are locked.
  Without it a second slot could overwrite a record.
* `Admission`: as long as a request has not been added its job is unknown to
  BullMQ, and from the answer of the add on it is known.
* `RecordedFirst`: a slot that is about to return or throw has already written
  the record of that outcome, unless the save failed.
* From it: `RecordsMatch`, `OneWorkerPerJob`, `StatusIsTruthful`, `AcceptedAreQueued`.

How often a request is executed, and what with, on top of `IInv`:
* `ExecutionsAreAccounted`: what may still be executed has to be counted as
  executed, or a late message could exceed the bound. `Accounted` says that the
  executions of a request, the messages of it nobody waits for and the slots that
  run it without an answer are at most the attempts that failed, the stalls,
  the attempt under way and the direct handling. A slot that takes a job and an
  attempt that starts are one step; a timeout or a crash moves a slot into the
  messages nobody waits for, an execution moves either into the executions. That
  an attempt ends only with the lock of an active job is from `Ownership`.
* `CompletedAreServed`: `ResultsAreServed` follows a result from the answer of the
  microservice, or the echo, through the cache and the slots to the completed
  job; executions never decrease, so what was produced stays produced.
* `AnswersComeFromService`, from it: if no echo has the cache key of a request
  (`Echoes \cap Cacheable = {}`), a request completes only with what the
  microservice produced. The run `clients_get_answers` shows that the
  assumption is needed.

`StatusHubProofs`: `IInv == TypeOK /\ RegisteredAreOpen /\ SubscribersCurrent`.
`SubscribersCurrent` is inductive together with the parts of `TypeOK` that say a
client that is not registered has no subscriptions (a client that registers
starts with none) and that what is confirmed is subscribed to. An update is one lemma (`UpdateInv`): it splits on whether
the job is the one updated and whether the client's send failed; what a
subscription and an answer send is another (`SendInv`).
* `TypeCorrect`, `SubscribersAreCurrent`, `NoDeadSessions`.

`QueueAdminProofs`: all six safety invariants of `QueueAdmin` follow from one
inductive invariant of eleven parts.
* `Shape`: a call carries what its next step needs, and is at a step of its
  operation; without it a call could put an unknown worker in the map.
* `Pool`: entries are for different workers (`EntriesDiffer`); a worker that was
  created and is not in the map yet is known to one call only
  (`CreatedIsFresh`); a call that closes a worker knows its entry, if it still has
  one (`ClosingIsTracked`), so the number it deletes is not one that was given
  away meanwhile; what is in the map exists (`TrackedExist`), and somebody
  waits for every worker that is being closed (`ClosingIsAwaited`). From it:
  `ClosedWorkersLeave`.
* `DefinitionsAgree` is inductive with the types. From it: `DefinitionsAlwaysAgree`.
* `RedisFollows`: as long as nothing failed, Redis differs from the memory only
  while some call still has a save ahead of it. `FileFollows` says the same of
  the file, step by step, for a call that is alone (`Alone`). From them:
  `SavesAlwaysFollow`.
* `Numbered` and `RunningKnown`: for calls that do not overlap, entries have the
  numbers of their places, the worker being closed is the last, the one being
  added comes after the last, and what runs is in the map or on its way
  there. From them: `WorkersStayKnown`.
* `ConcurrencyKnown` says at each step of a call which concurrency the running
  workers have; between the drop of a definition and its new one it is the
  call's own record that has to be right. From it: `ConcurrencyReachesWorkers`.

The handlers nest as the methods of the services do. `StartKinds` and `ResumeKinds`
flatten them once into thirteen kinds of steps (`Kind`), with what each changes,
and every part of the invariant is proved over the kinds. The start of the process
needs facts about all its definitions at once (`InitialInstancesProperties`,
`InitialWorkersProperties`): that the identities of workers differ, and that the
last definition is the one whose workers stay. `Max` of a set of numbers and
the search for a fresh identity rest on `Smallest`, an induction that goes through
the well-foundedness of the numbers (`WFMin`), which needs no operator parameter.

`RequestPathProofs`: `IInv == TypeOK /\ Placed /\ NobodyIsMissed /\ ChoiceIsBest`.
* `NobodyIsMissed`: while the router waits for a load, every definition that has
  been there all along and fits has been read already or comes later in the
  array it goes over. `removeQueue()` keeps this only because it puts another
  array in place of the one the router holds: entries taken out of that array
  would move the rest under its index.
* `SelectedProperties`: the selection with its `CHOOSE` returns a reading that none
  beats, for any non-empty list, by an induction over the readings compared so
  far. `CandidateProperties` says the same of the next queue that is asked.
* `WithoutProperties`: filtering an array drops the entries of one name and no
  other. The community modules' `FlattenSeq` is a recursive function, which
  exists by `JoinsExists`.
* `KeysAreUnique` is about the whole table of routes and any requests: any ids,
  queries, tokens, bodies and headers, and any of the endpoints. It joins two
  arguments. `AllRead`: the message of a GET request is made of nothing but the
  id, the query and the user, route by route (`ReadsOnly`), so jobs that agree on
  the path, the query, the id and the user (`Alike`) find the same route, have
  or lack the same parts and become the same message (`AlikeResolve`). `SameKey`:
  requests with one key are alike. A key is one sequence of words and separators,
  and that it can be read in one way only is proved from how it is put together:
  a text up to a separator that does not occur in it is known (`CancelStart`,
  `SplitAt`), so two keys agree in the URL, word by word (`SlashedSame`), in the
  parameters, pair by pair and in the order of their names (`PairsSame`,
  `QuerySame`), and in the user, which is there in both or in neither (`KeySame`).
  This is where `Separable` is needed. The URLs differ at most in case and a
  trailing slash (`PlainUrl`); an id cannot stand where the other has a word of a
  path, so the paths are the same and the ids stand in the same places
  (`SameUrl`); and a query without repeated parameters is known from the last
  value of each (`SameQuery`). `UrlAssumption` is what the argument needs of
  the ids and the words of paths, not of the values of parameters, and TLC checks it on the run's endpoints. The invariant is only that
  the request under way is one of `Requests` (`Known`).
* `TypeCorrect`, `BestQueueIsChosen`, `KeysAreUnique`.

`IdempotencyProofs`: `IInv == TypeOK /\ NobodyIsForgotten /\ AnswersAreGenuine`
with `KeptIsGenuine` (what is kept is the result of a run that succeeded, and no
older than the last success) and
`UnderWayIsLast` (the run under way is the last one of its key, and has not
succeeded).
* `NobodyLeftWaiting`: the map of operations under way names exactly the calls that
  run, which is what lets `fail` and `succeed` wake all who joined.
* `EveryAnswerGenuine`: that one caller at most is told a result is new needs
  `UnderWayIsLast`, since a new run has a number nobody was told.
* `ExecutedOnce` is the action property, from the invariant and the guard of `start`.

`LoadTestProofs`: `TypeOK`, `CountedOnce` and `ReportIsTrue`, strengthened with
`SentInOrder` (jobs are handed to batches in order), `PollsLeft` (a job that
may still be polled has polls left) and `WorkedIsActive` (a job that is being processed
is active in BullMQ). The counters are compared with cardinalities; the lemma
`AllCounted` says that as many verdicts as jobs means that every job has one,
which is how a test that ended before its time is known to have recorded all.
* `TypeCorrect`, `EveryJobCountedOnce`, `ReportIsAlwaysTrue`.

Only model-checked: liveness (`EverySetCompletes`, `EveryJobSettles`,
`EveryCallEnds`, `NothingIsKept`, `CompletionIsTold`, `TestEnds`), which is out of the
prover's reach; and `TablesAgree` and `CacheIsCareful`. These are facts
about the tables of this repository, some eighty endpoints each with its own
route, which TLC evaluates in full: the first needs that no other route matches,
pair by pair, and the second compares prefixes of strings, which the provers know
only as constants.

## 7. Not modelled

The components marked `not_modelled` in `PROJECT.json`.

* Pausing and resuming workers: the status they set is only displayed, and every
  worker's would multiply the states of `QueueAdmin` (planned on a smaller pool).
* Monitoring: counters of one timer each and bounded lists that are only
  reported; no decision of the gateway reads them.
* The Redis connections are those of a library; its answers and failures are
  steps of `JobLifecycle`, `QueueAdmin` and `LoadTest`.
* Filters, logging, pagination, static pages and configuration format what others
  decide.
* The verification of a token is the authentication microservice's; the guard's
  decision is in `RequestPath`.
* `services/transaction.service.ts` has no caller.
* The data of the microservices, and with it the staleness of cached responses
  after a write, is outside the gateway, the records of `Seeding` excepted.
