---------------------------- MODULE JobLifecycle ----------------------------
(***************************************************************************)
(* The path of a request through the gateway: QueueInterceptor turns it    *)
(* into a BullMQ job or hands it to its controller, a worker of the same   *)
(* process takes the job, serves it from the cache or sends it to a        *)
(* microservice over NATS, saves a result record in Redis, and the         *)
(* 'completed' event updates the status that WebSocket clients see.        *)
(*                                                                         *)
(* BullMQ, Redis and the microservice are not part of the repository: the  *)
(* steps they take are modelled from how the code uses them.  A request    *)
(* and the job made from it share one name: the interceptor draws a fresh  *)
(* job id for each request.                                                *)
(*                                                                         *)
(* Load tests and the test endpoints of the administration add jobs too,   *)
(* of the pattern 'queue.test': the dispatcher echoes them.  They go       *)
(* through the same queues, slots and cache as the jobs of requests.       *)
(***************************************************************************)
EXTENDS Naturals, FiniteSets

CONSTANTS
    Requests,    \* HTTP requests and added echoes, each with its job
    Echoes,      \* the jobs of pattern 'queue.test'
    Routable,    \* requests with an asynchronous route, not excluded by path
    Cacheable,   \* GETs of one cacheable resource: they share a cache key
    Slots,       \* jobs the workers can run at once (workers x concurrency)
    Attempts,    \* queueDef.attempts
    MaxStalled,  \* maxStalledCount of the workers
    MaxFaults,   \* bound on crashes and lost locks
    QueueFlag,   \* QUEUE_ENABLED: "unset", "true" or "false"
    None

ASSUME JobAssumption ==
    /\ Echoes \subseteq Requests
    /\ Routable \subseteq Requests \ Echoes
    /\ Cacheable \subseteq Requests
    /\ Attempts \in Nat \ {0}
    /\ MaxStalled \in Nat
    /\ MaxFaults \in Nat
    /\ QueueFlag \in {"unset", "true", "false"}
    /\ None \notin Slots \cup Requests
    /\ IsFiniteSet(Slots)

VARIABLES
    \* The gateway process.
    queueEnabled,  \* QueueConfigService.queueEnabled
    request,       \* request -> where its handling is
    phase,         \* slot -> step of processJob()
    job,           \* slot -> job it runs, or None
    outcome,       \* slot -> how the attempt ended
    result,        \* slot -> the job whose result the attempt ended with
    cached,        \* the job whose result the cache holds, or None
    notices,       \* jobs whose 'completed' event is not handled yet
    status,        \* JobStatusService.jobStatuses
    \* Redis and BullMQ.
    state,         \* job -> its state in BullMQ
    attemptsMade,  \* job -> attempts that failed
    stalls,        \* job -> times it was found stalled
    lock,          \* job -> slot that holds its lock, or None
    record,        \* job:result:<id>
    returned,      \* job -> the job whose result it completed with, or None
    \* The microservice.
    executions,    \* request -> times the microservice executed it
    orphans,       \* request -> messages nobody waits for any more
    \* Bookkeeping of the model.
    tainted,       \* jobs that lost a lock, or a record that could not be saved
    faults         \* faults so far

gateway == <<queueEnabled, request, phase, job, outcome, result, cached, notices, status>>
slots == <<phase, job, outcome, result>>
bullmq == <<state, attemptsMade, stalls, lock, returned>>
service == <<executions, orphans>>
vars == <<queueEnabled, request, phase, job, outcome, result, cached, notices, status,
          state, attemptsMade, stalls, lock, returned, record, executions, orphans, tainted, faults>>

RequestStates == {"new", "routing", "adding", "added", "accepted", "direct", "gone"}
JobStates == {"absent", "waiting", "active", "delayed", "completed", "failed"}
Phases == {"idle", "lookup", "dispatch", "sent", "answered", "storing", "saving", "finishing"}
Outcomes == {"none", "completed", "failed"}

Settled(r) == state[r] \in {"completed", "failed"}

TypeOK ==
    /\ queueEnabled \in BOOLEAN
    /\ request \in [Requests -> RequestStates]
    /\ phase \in [Slots -> Phases]
    /\ job \in [Slots -> Requests \cup {None}]
    /\ \A s \in Slots : phase[s] = "idle" <=> job[s] = None
    /\ outcome \in [Slots -> Outcomes]
    /\ result \in [Slots -> Requests \cup {None}]
    /\ cached \in Requests \cup {None}
    /\ notices \in SUBSET Requests
    /\ status \in [Requests -> {"none", "queued", "completed"}]
    /\ state \in [Requests -> JobStates]
    /\ attemptsMade \in [Requests -> Nat]
    /\ stalls \in [Requests -> 0..MaxStalled]
    /\ lock \in [Requests -> Slots \cup {None}]
    /\ returned \in [Requests -> Requests \cup {None}]
    /\ record \in [Requests -> Outcomes]
    /\ executions \in [Requests -> Nat]
    /\ orphans \in [Requests -> Nat]
    /\ tainted \in SUBSET Requests
    /\ faults \in 0..MaxFaults

\* main.ts enables the queue system unless the environment says otherwise; the
\* environment's "true" is read at every request and leaves the flag alone.
InitiallyEnabled == QueueFlag = "unset"

Init ==
    /\ queueEnabled = InitiallyEnabled
    /\ request = [r \in Requests |-> "new"]
    /\ phase = [s \in Slots |-> "idle"]
    /\ job = [s \in Slots |-> None]
    /\ outcome = [s \in Slots |-> "none"]
    /\ result = [s \in Slots |-> None]
    /\ cached = None
    /\ notices = {}
    /\ status = [r \in Requests |-> "none"]
    /\ state = [r \in Requests |-> "absent"]
    /\ attemptsMade = [r \in Requests |-> 0]
    /\ stalls = [r \in Requests |-> 0]
    /\ lock = [r \in Requests |-> None]
    /\ returned = [r \in Requests |-> None]
    /\ record = [r \in Requests |-> "none"]
    /\ executions = [r \in Requests |-> 0]
    /\ orphans = [r \in Requests |-> 0]
    /\ tainted = {}
    /\ faults = 0

-----------------------------------------------------------------------------
(***************************************************************************)
(* QueueConfigService and QueueInterceptor.                                *)
(***************************************************************************)
isQueueEnabled == QueueFlag = "true" \/ queueEnabled

toggleQueue ==
    /\ queueEnabled' = ~queueEnabled
    /\ UNCHANGED <<request, slots, cached, notices, status, bullmq, record,
                   service, tainted, faults>>

Advance(r, from, to) ==
    /\ request[r] = from
    /\ request' = [request EXCEPT ![r] = to]

\* next.handle(): the controller sends the request to the microservice itself.
handleDirectly(r, from) ==
    /\ Advance(r, from, "direct")
    /\ executions' = [executions EXCEPT ![r] = @ + 1]
    /\ UNCHANGED orphans

\* Up to the await of the router: the queue switch, the exclusions, the route.
intercept(r) ==
    /\ r \notin Echoes
    /\ \/ /\ isQueueEnabled /\ r \in Routable
          /\ Advance(r, "new", "routing")
          /\ UNCHANGED service
       \/ /\ ~(isQueueEnabled /\ r \in Routable)
          /\ handleDirectly(r, "new")
    /\ UNCHANGED <<queueEnabled, slots, cached, notices, status, bullmq, record,
                   tainted, faults>>

\* The router has chosen a queue: the job is sent to Redis if the queue exists.
queueChosen(r) ==
    /\ \/ /\ Advance(r, "routing", "adding")
          /\ UNCHANGED service
       \/ handleDirectly(r, "routing")
    /\ UNCHANGED <<queueEnabled, slots, cached, notices, status, bullmq, record,
                   tainted, faults>>

\* A test adds an echo: addJobToQueue() finds the queue and sends the job.
addEcho(r) ==
    /\ r \in Echoes
    /\ Advance(r, "new", "adding")
    /\ UNCHANGED <<queueEnabled, slots, cached, notices, status, bullmq, record,
                   service, tainted, faults>>

\* Redis executes the add; its answer is on the way back.  A queue with a
\* processing delay holds its jobs back at first.
jobAdded(r) ==
    /\ Advance(r, "adding", "added")
    /\ \E initial \in {"waiting", "delayed"} : state' = [state EXCEPT ![r] = initial]
    /\ UNCHANGED <<queueEnabled, slots, cached, notices, status, attemptsMade,
                   stalls, lock, returned, record, service, tainted, faults>>

\* addJobToQueue() returns: the status of a request is set now, whatever the
\* job did since.
accept(r) ==
    /\ Advance(r, "added", "accepted")
    /\ status' = IF r \in Echoes THEN status ELSE [status EXCEPT ![r] = "queued"]
    /\ UNCHANGED <<queueEnabled, slots, cached, notices, bullmq, record, service,
                   tainted, faults>>

\* addJobToQueue() throws, before or after Redis executed the add: the error
\* handler falls back to the controller; a test counts an error.
addFails(r) ==
    /\ \E from \in {"adding", "added"} :
         \/ r \notin Echoes /\ handleDirectly(r, from)
         \/ r \in Echoes /\ Advance(r, from, "gone") /\ UNCHANGED service
    /\ UNCHANGED <<queueEnabled, slots, cached, notices, status, bullmq, record,
                   tainted, faults>>

-----------------------------------------------------------------------------
(***************************************************************************)
(* A worker slot running processJob().                                     *)
(***************************************************************************)
Goto(s, from, to) ==
    /\ phase[s] = from
    /\ phase' = [phase EXCEPT ![s] = to]

EndAttempt(s, from, to, how, whose) ==
    /\ Goto(s, from, to)
    /\ outcome' = [outcome EXCEPT ![s] = how]
    /\ result' = [result EXCEPT ![s] = whose]
    /\ UNCHANGED job

\* Mutant: the job stays in the waiting list.
takeJobMut(s) ==
    /\ Goto(s, "idle", "lookup")
    /\ \E r \in Requests :
         /\ state[r] = "waiting"
         /\ lock' = [lock EXCEPT ![r] = s]
         /\ job' = [job EXCEPT ![s] = r]
    /\ outcome' = [outcome EXCEPT ![s] = "none"]
    /\ UNCHANGED <<queueEnabled, request, result, cached, notices, status, state,
                   attemptsMade, stalls, returned, record, service, tainted, faults>>

\* BullMQ gives a waiting job, and its lock, to a free slot.
takeJob(s) ==
    /\ Goto(s, "idle", "lookup")
    /\ \E r \in Requests :
         /\ state[r] = "waiting"
         /\ state' = [state EXCEPT ![r] = "active"]
         /\ lock' = [lock EXCEPT ![r] = s]
         /\ job' = [job EXCEPT ![s] = r]
    /\ outcome' = [outcome EXCEPT ![s] = "none"]
    /\ UNCHANGED <<queueEnabled, request, result, cached, notices, status, attemptsMade,
                   stalls, returned, record, service, tainted, faults>>

\* Only GETs are looked up.
tryGetFromCache(s) == job[s] \in Cacheable /\ cached # None

\* Mutant: the result of the lookup is not tested.
processFromCacheMut(s) ==
    /\ \/ /\ job[s] \in Cacheable
          /\ EndAttempt(s, "lookup", "saving", "completed", cached)
       \/ /\ job[s] \notin Cacheable
          /\ Goto(s, "lookup", "dispatch")
          /\ UNCHANGED <<job, outcome, result>>
    /\ UNCHANGED <<queueEnabled, request, cached, notices, status, bullmq, record,
                   service, tainted, faults>>

\* A hit ends the attempt; anything else goes on to the dispatch.
processFromCache(s) ==
    /\ \/ /\ tryGetFromCache(s)
          /\ EndAttempt(s, "lookup", "saving", "completed", cached)
       \/ /\ ~tryGetFromCache(s)
          /\ Goto(s, "lookup", "dispatch")
          /\ UNCHANGED <<job, outcome, result>>
    /\ UNCHANGED <<queueEnabled, request, cached, notices, status, bullmq, record,
                   service, tainted, faults>>

\* The message leaves for the microservice and both timeouts start.  An echo
\* is its own answer, in the same turn.  (A job without a message would be
\* too, but every caller of addJobToQueue() gives one.)
dispatch(s) ==
    /\ \/ /\ job[s] \notin Echoes
          /\ Goto(s, "dispatch", "sent")
          /\ UNCHANGED <<job, outcome, result>>
       \/ /\ job[s] \in Echoes
          /\ EndAttempt(s, "dispatch", "storing", "completed", job[s])
    /\ UNCHANGED <<queueEnabled, request, cached, notices, status,
                   bullmq, record, service, tainted, faults>>

\* The microservice executes the message; its answer is on the way back.
serviceExecutes(s) ==
    /\ Goto(s, "sent", "answered")
    /\ executions' = [executions EXCEPT ![job[s]] = @ + 1]
    /\ UNCHANGED <<queueEnabled, request, job, outcome, result, cached, notices, status,
                   bullmq, record, orphans, tainted, faults>>

\* The answer arrives in time: the result, or the error the service reports.
answerArrives(s) ==
    /\ \/ EndAttempt(s, "answered", "storing", "completed", job[s])
       \/ EndAttempt(s, "answered", "saving", "failed", None)
    /\ UNCHANGED <<queueEnabled, request, cached, notices, status, bullmq, record,
                   service, tainted, faults>>

\* Mutants: there is no timeout; a timed out message is sent again.
dispatchFailsMutWait(s) ==
    /\ EndAttempt(s, "answered", "saving", "failed", None)
    /\ UNCHANGED <<queueEnabled, request, cached, notices, status, bullmq, record,
                   service, tainted, faults>>
dispatchFailsMutResend(s) ==
    /\ \/ /\ Goto(s, "sent", "dispatch")
          /\ orphans' = [orphans EXCEPT ![job[s]] = @ + 1]
       \/ Goto(s, "answered", "dispatch") /\ UNCHANGED orphans
    /\ UNCHANGED <<queueEnabled, request, job, outcome, result, cached, notices, status,
                   bullmq, record, executions, tainted, faults>>

\* The race is lost: the message stays with the service, which may yet
\* execute it, or has, and its answer is dropped.  A message nobody subscribes
\* to is refused at once and ends the same way, without an execution.
dispatchFails(s) ==
    /\ \/ /\ EndAttempt(s, "sent", "saving", "failed", None)
          /\ \/ orphans' = [orphans EXCEPT ![job[s]] = @ + 1]
             \/ UNCHANGED orphans
       \/ /\ EndAttempt(s, "answered", "saving", "failed", None)
          /\ UNCHANGED orphans
    /\ UNCHANGED <<queueEnabled, request, cached, notices, status, bullmq, record,
                   executions, tainted, faults>>

orphanExecutes(r) ==
    /\ orphans[r] > 0
    /\ orphans' = [orphans EXCEPT ![r] = @ - 1]
    /\ executions' = [executions EXCEPT ![r] = @ + 1]
    /\ UNCHANGED <<gateway, bullmq, record, tainted, faults>>

\* The store in the cache is not awaited, but it ends before any answer of
\* Redis can arrive: it only awaits the cache's own continuations.
tryStoreInCache(s) ==
    /\ Goto(s, "storing", "saving")
    /\ cached' = IF job[s] \in Cacheable THEN job[s] ELSE cached
    /\ UNCHANGED <<queueEnabled, request, job, outcome, result, notices, status, bullmq,
                   record, service, tainted, faults>>

\* The entry expires or is evicted.
cacheLoses ==
    /\ cached # None
    /\ cached' = None
    /\ UNCHANGED <<queueEnabled, request, slots, notices, status, bullmq, record,
                   service, tainted, faults>>

\* Mutant: the status of the record ignores the error.
saveJobResultMut(s) ==
    /\ Goto(s, "saving", "finishing")
    /\ record' = [record EXCEPT ![job[s]] = "completed"]
    /\ UNCHANGED <<queueEnabled, request, job, outcome, result, cached, notices, status,
                   bullmq, service, tainted, faults>>

\* The record of the attempt is written; an error of Redis is logged only.
saveJobResult(s) ==
    /\ Goto(s, "saving", "finishing")
    /\ \/ /\ record' = [record EXCEPT ![job[s]] = outcome[s]]
          /\ UNCHANGED tainted
       \/ /\ tainted' = tainted \cup {job[s]}
          /\ UNCHANGED record
    /\ UNCHANGED <<queueEnabled, request, job, outcome, result, cached, notices, status,
                   bullmq, service, faults>>

\* The slot is free for another job.
Release(s) ==
    /\ Goto(s, "finishing", "idle")
    /\ job' = [job EXCEPT ![s] = None]
    /\ outcome' = [outcome EXCEPT ![s] = "none"]
    /\ result' = [result EXCEPT ![s] = None]

\* Mutant: the event is emitted without asking who holds the lock.
jobReturnsMut(s) ==
    /\ outcome[s] = "completed"
    /\ Release(s)
    /\ LET r == job[s] IN
         /\ notices' = notices \cup {r}
         /\ \/ /\ lock[r] = s
               /\ state' = [state EXCEPT ![r] = "completed"]
               /\ lock' = [lock EXCEPT ![r] = None]
               /\ returned' = [returned EXCEPT ![r] = result[s]]
            \/ /\ lock[r] # s
               /\ UNCHANGED <<state, lock, returned>>
    /\ UNCHANGED <<queueEnabled, request, cached, status, attemptsMade, stalls,
                   record, service, tainted, faults>>

\* processJob() returned: BullMQ completes the job with what it returned and the
\* worker emits the event, provided the slot still holds the lock.
jobReturns(s) ==
    /\ outcome[s] = "completed"
    /\ Release(s)
    /\ LET r == job[s] IN
         \/ /\ lock[r] = s
            /\ state' = [state EXCEPT ![r] = "completed"]
            /\ lock' = [lock EXCEPT ![r] = None]
            /\ returned' = [returned EXCEPT ![r] = result[s]]
            /\ notices' = notices \cup {r}
         \/ /\ lock[r] # s
            /\ UNCHANGED <<state, lock, returned, notices>>
    /\ UNCHANGED <<queueEnabled, request, cached, status, attemptsMade, stalls,
                   record, service, tainted, faults>>

\* processJob() threw: BullMQ counts the attempt and delays a retry, or fails
\* the job for good.  The 'failed' handler of the worker only logs.
jobThrows(s) ==
    /\ outcome[s] = "failed"
    /\ Release(s)
    /\ LET r == job[s] IN
         \/ /\ lock[r] = s
            /\ attemptsMade' = [attemptsMade EXCEPT ![r] = @ + 1]
            /\ state' = [state EXCEPT ![r] =
                           IF attemptsMade[r] + 1 < Attempts THEN "delayed" ELSE "failed"]
            /\ lock' = [lock EXCEPT ![r] = None]
         \/ /\ lock[r] # s
            /\ UNCHANGED <<attemptsMade, state, lock>>
    /\ UNCHANGED <<queueEnabled, request, cached, notices, status, stalls, returned,
                   record, service, tainted, faults>>

\* The delay of a new job, or the backoff of a failed attempt, is over.
retryDue(r) ==
    /\ state[r] = "delayed"
    /\ state' = [state EXCEPT ![r] = "waiting"]
    /\ UNCHANGED <<gateway, attemptsMade, stalls, lock, returned, record, service, tainted, faults>>

\* The 'completed' handler has read the record and tells the clients.
notifyCompleted(r) ==
    /\ r \in notices
    /\ notices' = notices \ {r}
    /\ status' = [status EXCEPT ![r] = "completed"]
    /\ UNCHANGED <<queueEnabled, request, slots, cached, bullmq, record, service,
                   tainted, faults>>

-----------------------------------------------------------------------------
(***************************************************************************)
(* Faults: a lock that is not renewed in time, a crash of the gateway.     *)
(***************************************************************************)

Fault == faults < MaxFaults /\ faults' = faults + 1

\* A worker that cannot renew its lock (its thread is busy, Redis is away)
\* loses it, and goes on with the job it does not own any more.
lockExpires(r) ==
    /\ lock[r] # None
    /\ lock' = [lock EXCEPT ![r] = None]
    /\ Fault
    /\ tainted' = tainted \cup {r}
    /\ UNCHANGED <<gateway, state, attemptsMade, stalls, returned, record, service>>

\* Mutant: a stalled job waits again however often it was found.
recoverStalledMut(r) ==
    /\ state[r] = "active" /\ lock[r] = None
    /\ stalls' = [stalls EXCEPT ![r] = @ + 1]
    /\ state' = [state EXCEPT ![r] = "waiting"]
    /\ UNCHANGED <<gateway, attemptsMade, lock, returned, record, service, tainted, faults>>

\* The stalled check finds an active job without a lock: the job waits again,
\* or fails when that happened too often.
recoverStalled(r) ==
    /\ state[r] = "active" /\ lock[r] = None
    /\ \/ /\ stalls[r] < MaxStalled
          /\ stalls' = [stalls EXCEPT ![r] = @ + 1]
          /\ state' = [state EXCEPT ![r] = "waiting"]
       \/ /\ stalls[r] = MaxStalled
          /\ state' = [state EXCEPT ![r] = "failed"]
          /\ UNCHANGED stalls
    /\ UNCHANGED <<gateway, attemptsMade, lock, returned, record, service, tainted, faults>>

Sent(r) == {s \in Slots : phase[s] = "sent" /\ job[s] = r}

\* Memory is lost: the cache, the statuses, the events, the requests being
\* handled.  Jobs and records stay in Redis, messages with the service.
crash ==
    /\ Fault
    /\ queueEnabled' = InitiallyEnabled
    /\ request' = [r \in Requests |->
                     IF request[r] \in {"routing", "adding", "added"} THEN "gone" ELSE request[r]]
    /\ phase' = [s \in Slots |-> "idle"]
    /\ job' = [s \in Slots |-> None]
    /\ outcome' = [s \in Slots |-> "none"]
    /\ result' = [s \in Slots |-> None]
    /\ cached' = None
    /\ notices' = {}
    /\ status' = [r \in Requests |-> "none"]
    /\ orphans' = [r \in Requests |-> orphans[r] + Cardinality(Sent(r))]
    /\ lock' = [r \in Requests |-> None]
    /\ tainted' = tainted \cup {r \in Requests : lock[r] # None}
    /\ UNCHANGED <<state, attemptsMade, stalls, returned, record, executions>>

-----------------------------------------------------------------------------
Slot(s) ==
    \/ processFromCache(s) \/ dispatch(s) \/ answerArrives(s) \/ dispatchFails(s)
    \/ tryStoreInCache(s) \/ saveJobResult(s) \/ jobReturns(s) \/ jobThrows(s)

Next ==
    \/ toggleQueue
    \/ \E r \in Requests :
         \/ intercept(r) \/ queueChosen(r) \/ addEcho(r) \/ jobAdded(r) \/ accept(r) \/ addFails(r)
         \/ orphanExecutes(r) \/ retryDue(r) \/ notifyCompleted(r)
         \/ lockExpires(r) \/ recoverStalled(r)
    \/ \E s \in Slots : takeJob(s) \/ serviceExecutes(s) \/ Slot(s)
    \/ cacheLoses
    \/ crash

Spec == Init /\ [][Next]_vars

\* Started code runs on: a request that was let in is answered by Redis or
\* gets an error, a dispatch is answered or times out, Redis answers or fails.
\* BullMQ hands out, promotes and checks jobs as long as the gateway is up.
\* Nothing is assumed of the microservice, clients, the cache or faults.
Fairness ==
    /\ \A r \in Requests :
         /\ WF_vars(queueChosen(r)) /\ WF_vars(jobAdded(r) \/ addFails(r))
         /\ WF_vars(accept(r) \/ addFails(r))
         /\ WF_vars(retryDue(r)) /\ WF_vars(recoverStalled(r)) /\ WF_vars(notifyCompleted(r))
    /\ \A s \in Slots : WF_vars(Slot(s)) /\ WF_vars(takeJob(s))

FairSpec == Spec /\ Fairness

-----------------------------------------------------------------------------
(***************************************************************************)
(* Properties.                                                             *)
(***************************************************************************)

\* A settled job's record agrees with how it settled: the record is written
\* before BullMQ is told, every attempt overwrites the one before, and only
\* the holder of the lock works on the job.  A save that failed and a lock
\* that was lost are the only exceptions.
RecordMatchesOutcome ==
    \A r \in Requests \ tainted : Settled(r) => record[r] = state[r]

\* Two slots work on one job only after its lock was lost.
NoTwoWorkers ==
    \A s, t \in Slots : s # t /\ job[s] = job[t] /\ job[s] # None => job[s] \in tainted

\* Every execution by the microservice beyond the first is paid for by a
\* failed attempt, a stall, or a direct handling: no other interleaving of
\* timeouts, retries and late messages repeats a request.
ExecutionsAccounted ==
    \A r \in Requests :
        executions[r] <= attemptsMade[r] + stalls[r]
                           + (IF state[r] \in {"active", "completed", "failed"} THEN 1 ELSE 0)
                           + (IF request[r] = "direct" THEN 1 ELSE 0)

\* Clients are told that a job completed only when it did, and for good.
StatusTruthful ==
    \A r \in Requests : status[r] = "completed" \/ r \in notices => state[r] = "completed"

\* The jobs whose result may stand for r's, and those that have one: the
\* microservice executed them, or they are echoes.
SharesResult(r) == IF r \in Cacheable THEN Cacheable ELSE {r}
Produced == Echoes \cup {q \in Requests : executions[q] > 0}

\* A completed job has a result, and that result is its own or that of a job
\* with the same cache key; and nobody made it up: the microservice executed
\* the job it is of, or that job is an echo.  A lookup in the cache that
\* misses or races a store, a late answer or a retry never stands in for a
\* result; and where no echo has the key, clients get the microservice's.
CompletedWasServed ==
    \A r \in Requests :
        state[r] = "completed" => returned[r] \in SharesResult(r) /\ returned[r] \in Produced

\* A caller that was given a job id finds the job in BullMQ.
AcceptedIsQueued ==
    \A r \in Requests : request[r] = "accepted" => state[r] # "absent"

\* Every job that reaches Redis is settled: failed attempts, stalls and
\* crashes delay it a bounded number of times.
EveryJobSettles == \A r \in Requests : state[r] # "absent" ~> Settled(r)
=============================================================================
