----------------------------- MODULE QueueAdmin -----------------------------
(***************************************************************************)
(* The administration of one queue: QueueAdminController over              *)
(* DynamicQueueService (the definitions) and DynamicWorkerService (the     *)
(* workers).  Queues are administered independently of each other, except  *)
(* that all definitions are saved together; this module follows one.       *)
(*                                                                         *)
(* A call of the controller is a process.  A step runs it from one answer  *)
(* of the outside world (Redis, the file system, a worker or a queue that  *)
(* has closed) to the next one, or to an await that needs no such answer:  *)
(* calls that are ready to run on do so before anything else happens, but  *)
(* two of them, woken by the closing of one worker, alternate at such      *)
(* awaits.                                                                 *)
(***************************************************************************)
EXTENDS Naturals, Sequences, FiniteSets, FiniteSetsExt, SequencesExt

CONSTANTS
    Calls,          \* requests that may be under way together
    NewDefs,        \* definitions a POST may create
    Updates,        \* partial definitions a PUT may carry
    StartDefs,      \* definitions in config/queues.json at first
    DefaultDefs,    \* definitions of DEFAULT_QUEUE_CONFIG
    MaxPerQueue,    \* WORKER_MAX_PER_QUEUE
    MaxStarted,     \* bound on calls
    MaxFaults,      \* bound on failed saves and restarts
    None,
    Torn            \* content of a file that is truncated or garbled

Fields == {"workers", "concurrency", "enabled"}
Definition == [workers: Nat, concurrency: Nat \ {0}, enabled: BOOLEAN]

ASSUME AdminAssumption ==
    /\ NewDefs \subseteq Definition
    /\ StartDefs \in Seq(Definition) /\ DefaultDefs \in Seq(Definition)
    /\ \A u \in Updates :
         /\ DOMAIN u \subseteq Fields
         /\ "workers" \in DOMAIN u => u.workers \in Nat
         /\ "concurrency" \in DOMAIN u => u.concurrency \in Nat \ {0}
         /\ "enabled" \in DOMAIN u => u.enabled \in BOOLEAN
    /\ MaxPerQueue \in Nat \ {0}
    /\ MaxStarted \in Nat /\ MaxFaults \in Nat
    /\ None \notin Definition \cup Seq(Definition)
    /\ Torn \notin Seq(Definition)

VARIABLES
    definition,  \* queueDefinitions.get(queue): defined while the queue exists
    config,      \* queueConfig.queues: the entries with the queue's name
    workers,     \* DynamicWorkerService.workers, in order of insertion
    instance,    \* BullMQ workers of this process that have not closed: their state
    call,        \* call -> what it does and what it waits for
    redis,       \* the configuration in Redis
    file,        \* config/queues.json
    started,     \* calls so far
    faults,      \* failed saves and restarts so far
    overlapped,  \* have two calls been under way together?
    doubled,     \* has a start of the process found two enabled definitions?
    upset        \* did a save fail, a call end in an error, a restart change the configuration?

vars == <<definition, config, workers, instance, call, redis, file, started,
          faults, overlapped, doubled, upset>>
pool == <<workers, instance>>
definitions == <<definition, config>>
saves == <<redis, file, faults>>
history == <<started, overlapped, doubled>>

Operations == {"addWorker", "removeWorker", "createQueue", "updateQueue", "deleteQueue"}
Waits == {"idle", "closing", "queueClosing", "file", "fileDown", "redis", "redisDown", "ready"}
Steps == {"none", "track", "more", "count", "countFile", "published", "lastSave",
          "removeSome", "removeAll", "dropQueue", "recreate", "create", "announce",
          "reconcile", "ensure", "end"}

Idle == [at |-> "idle", op |-> "none", next |-> "none", def |-> None, changed |-> FALSE,
         target |-> None, todo |-> 0, content |-> None]
UnderWay == {c \in Calls : call[c].at # "idle"}
Quiescent == UnderWay = {}

\* What is ready runs on before any other event.
Quiet == \A c \in Calls : call[c].at # "ready"

Running == {w \in DOMAIN instance : instance[w].state = "running"}
Tracked == {workers[i].worker : i \in DOMAIN workers}
Worker == [number: Nat \ {0}, worker: Nat \ {0}]
Progress == [at: Waits, op: Operations \cup {"none"}, next: Steps, def: Definition \cup {None},
             changed: BOOLEAN, target: Worker \cup {None}, todo: Nat,
             content: Seq(Definition) \cup {None}]

TypeOK ==
    /\ definition \in Definition \cup {None}
    /\ config \in Seq(Definition)
    /\ workers \in Seq(Worker)
    /\ DOMAIN instance \subseteq Nat \ {0} /\ IsFiniteSet(DOMAIN instance)
    /\ instance \in [DOMAIN instance -> [state: {"running", "closing"}, concurrency: Nat \ {0}]]
    /\ \A i, j \in DOMAIN workers : workers[i].number = workers[j].number => i = j
    /\ call \in [Calls -> Progress]
    /\ redis \in Seq(Definition) \cup {None}
    /\ file \in Seq(Definition) \cup {Torn}
    /\ started \in 0..MaxStarted
    /\ faults \in 0..MaxFaults
    /\ {overlapped, doubled} \subseteq BOOLEAN
    /\ upset \in BOOLEAN

-----------------------------------------------------------------------------
(***************************************************************************)
(* The workers.                                                            *)
(***************************************************************************)

\* Mutant: Map.set does not replace.
MapSetMut(map, n, w) == Append(map, [number |-> n, worker |-> w])

\* Map.set: a number that is present keeps its place.
MapSet(map, n, w) ==
    IF \E i \in DOMAIN map : map[i].number = n
    THEN [i \in DOMAIN map |-> IF map[i].number = n THEN [map[i] EXCEPT !.worker = w] ELSE map[i]]
    ELSE Append(map, [number |-> n, worker |-> w])

\* Map.delete
MapDelete(map, n) ==
    IF \E i \in DOMAIN map : map[i].number = n
    THEN RemoveAt(map, CHOOSE i \in DOMAIN map : map[i].number = n)
    ELSE map

\* getWorkerCountForQueue(): zero workers in a definition count as one.
getWorkerCountForQueue(def) ==
    LET wanted == IF def.workers = 0 THEN 1 ELSE def.workers
    IN  IF wanted < MaxPerQueue THEN wanted ELSE MaxPerQueue

\* An identity no worker has.
NewInstance == CHOOSE w \in 1..(Cardinality(DOMAIN instance) + 1) : w \notin DOMAIN instance

-----------------------------------------------------------------------------
(***************************************************************************)
(* What a call waits for.  `me` is the call's record: what it is, not yet  *)
(* where it is.                                                            *)
(***************************************************************************)
Await(c, me, io, next) == call' = [call EXCEPT ![c] = [me EXCEPT !.at = io, !.next = next]]

End(c) ==
    /\ call' = [call EXCEPT ![c] = Idle]
    /\ UNCHANGED upset

\* An exception ends the call, or its caller catches it and ends the call.
Throw(c) ==
    /\ call' = [call EXCEPT ![c] = Idle]
    /\ upset' = TRUE

Fault == faults < MaxFaults /\ faults' = faults + 1

\* saveConfig(): Redis executes the saves of its one connection in order.
saveConfig(c, me, next) ==
    /\ \/ /\ redis' = config'
          /\ Await(c, me, "redis", next)
          /\ UNCHANGED <<faults, upset>>
       \/ /\ redis' \in {redis, config'}
          /\ Await(c, me, "redisDown", next)
          /\ Fault
          /\ upset' = TRUE
    /\ UNCHANGED file

\* saveConfigToFile(): the content is fixed and the file truncated now.
saveConfigToFile(c, me, next) ==
    /\ \/ /\ file' = Torn
          /\ Await(c, [me EXCEPT !.content = config'], "file", next)
          /\ UNCHANGED <<faults, upset>>
       \/ /\ file' \in {file, Torn}
          /\ Await(c, me, "fileDown", next)
          /\ Fault
          /\ upset' = TRUE
    /\ UNCHANGED redis

\* removeWorkerForQueue() up to its await: the last worker of the map.
closeLast(c, me, next, todo) ==
    LET last == workers[Len(workers)] IN
    /\ instance' = [instance EXCEPT ![last.worker].state = "closing"]
    /\ Await(c, [me EXCEPT !.target = last, !.todo = todo], "closing", next)
    /\ UNCHANGED <<workers, definitions, saves, upset>>

\* Mutant: a worker is numbered by its place in the loop.
addWorkerForQueueMut(c, me, todo) ==
    LET new == NewInstance IN
    /\ instance' = [w \in DOMAIN instance \cup {new} |->
                      IF w = new THEN [state |-> "running", concurrency |-> definition.concurrency]
                      ELSE instance[w]]
    /\ Await(c, [me EXCEPT !.target = [number |-> todo + 1, worker |-> new],
                           !.todo = todo], "ready", "track")
    /\ UNCHANGED <<workers, definitions, saves, upset>>

\* addWorkerForQueue() up to its await: a worker numbered by the size of the map.
addWorkerForQueue(c, me, todo) ==
    LET new == NewInstance IN
    /\ instance' = [w \in DOMAIN instance \cup {new} |->
                      IF w = new THEN [state |-> "running", concurrency |-> definition.concurrency]
                      ELSE instance[w]]
    /\ Await(c, [me EXCEPT !.target = [number |-> Len(workers) + 1, worker |-> new],
                           !.todo = todo], "ready", "track")
    /\ UNCHANGED <<workers, definitions, saves, upset>>

-----------------------------------------------------------------------------
(***************************************************************************)
(* The steps of the calls, each up to its next wait.                       *)
(***************************************************************************)

\* Mutant: the array of the configuration is not updated.
setQueueWorkersMut(c, me, n) ==
    /\ definition' = [definition EXCEPT !.workers = n]
    /\ UNCHANGED config
    /\ saveConfig(c, me, "countFile")

\* setQueueWorkers() up to its first await.
setQueueWorkers(c, me, n) ==
    /\ definition' = [definition EXCEPT !.workers = n]
    /\ config' = IF config = << >> THEN config ELSE [config EXCEPT ![1] = definition']
    /\ saveConfig(c, me, "countFile")

\* Mutant: PUT does not save the configuration at its end.
lastSaveMut(c, me) == End(c) /\ UNCHANGED <<definitions, saves>>

\* The end of PUT: the configuration is saved once more.
lastSave(c, me) ==
    /\ UNCHANGED definitions
    /\ saveConfig(c, me, "end")

\* The controller saves the number of workers; for none there is no number.
count(c, me) ==
    \/ /\ workers # << >> /\ definition # None
       /\ setQueueWorkers(c, me, Len(workers))
    \/ /\ workers # << >> /\ definition = None
       /\ Throw(c)
       /\ UNCHANGED <<definitions, saves>>
    \/ /\ workers = << >> /\ me.op = "updateQueue"
       /\ lastSave(c, me)
    \/ /\ workers = << >> /\ me.op # "updateQueue"
       /\ End(c)
       /\ UNCHANGED <<definitions, saves>>

\* ensureWorkersForQueue() has returned.
ensured(c, me) ==
    /\ \/ me.op = "updateQueue" /\ count(c, me)
       \/ /\ me.op = "createQueue"
          /\ End(c)
          /\ UNCHANGED <<definitions, saves>>
    /\ UNCHANGED pool

removeSome(c, me, n) ==
    \/ n = 0 /\ ensured(c, me)
    \/ /\ n > 0 /\ workers = << >>
       /\ Throw(c)
       /\ UNCHANGED <<definitions, pool, saves>>
    \/ /\ n > 0 /\ workers # << >>
       /\ closeLast(c, me, "removeSome", n - 1)

\* addWorkerForQueue() after its await.
track(c, me) ==
    /\ workers' = MapSet(workers, me.target.number, me.target.worker)
    /\ Await(c, [me EXCEPT !.target = None], "ready",
             IF me.op = "addWorker" THEN "count" ELSE "more")
    /\ UNCHANGED <<instance, definitions, saves, upset>>

\* The loop of ensureWorkersForQueue() that adds n workers.
addSome(c, me, n) ==
    \/ n = 0 /\ ensured(c, me)
    \/ /\ n > 0 /\ (definition = None \/ ~definition.enabled)
       /\ Throw(c)
       /\ UNCHANGED <<definitions, pool, saves>>
    \/ /\ n > 0 /\ definition # None /\ definition.enabled
       /\ addWorkerForQueue(c, me, n - 1)

\* ensureWorkersForQueue(): a disabled queue keeps the workers it has.
ensure(c, me) ==
    \/ /\ definition = None
       /\ Throw(c)
       /\ UNCHANGED <<definitions, pool, saves>>
    \/ definition # None /\ ~definition.enabled /\ ensured(c, me)
    \/ /\ definition # None /\ definition.enabled
       /\ LET desired == getWorkerCountForQueue(definition) IN
            \/ Len(workers) < desired /\ addSome(c, me, desired - Len(workers))
            \/ Len(workers) >= desired /\ removeSome(c, me, Len(workers) - desired)

\* removeQueue() up to its await: the queue is closed before it is forgotten.
removeQueue(c, me, next) ==
    /\ \/ definition # None /\ Await(c, me, "queueClosing", next) /\ UNCHANGED upset
       \/ definition = None /\ Throw(c)
    /\ UNCHANGED <<definitions, pool, saves>>

\* removeQueue() after its await.
dropQueue(c, me) ==
    /\ definition' = None
    /\ config' = << >>
    /\ \/ me.next = "dropQueue" /\ saveConfigToFile(c, me, "announce")
       \/ me.next = "recreate" /\ Await(c, me, "ready", "create") /\ UNCHANGED <<saves, upset>>
    /\ UNCHANGED pool

removeAll(c, me) ==
    \/ workers # << >> /\ closeLast(c, me, "removeAll", 0)
    \/ workers = << >> /\ me.op = "updateQueue" /\ ensure(c, me)
    \/ workers = << >> /\ me.op = "deleteQueue" /\ removeQueue(c, me, "dropQueue")

\* Mutant: a changed concurrency does not replace the workers.
reconcileMut(c, me) == ensure(c, me)

\* The workers of a queue that PUT has made anew.
reconcile(c, me) ==
    \/ me.changed /\ removeAll(c, me)
    \/ ~me.changed /\ ensure(c, me)

\* createQueue() up to the save of the file.
newQueue(c, me, def, next) ==
    /\ \/ /\ definition = None
          /\ definition' = def
          /\ config' = Append(config, def)
          /\ saveConfigToFile(c, me, next)
       \/ /\ definition # None
          /\ Throw(c)
          /\ UNCHANGED <<definitions, saves>>
    /\ UNCHANGED pool

\* The step after each wait.
Continue(c, me) ==
    \/ me.next = "track" /\ track(c, me)
    \/ me.next = "more" /\ addSome(c, me, me.todo)
    \/ /\ me.next = "count"
       /\ count(c, me)
       /\ UNCHANGED pool
    \/ /\ me.next = "countFile"
       /\ UNCHANGED <<definitions, pool>>
       /\ saveConfigToFile(c, me, "published")
    \/ /\ me.next = "published" /\ me.op = "updateQueue"
       /\ Await(c, me, "redis", "lastSave")
       /\ UNCHANGED <<definitions, pool, saves, upset>>
    \/ /\ me.next = "lastSave"
       /\ lastSave(c, me)
       /\ UNCHANGED pool
    \/ me.next = "removeSome" /\ removeSome(c, me, me.todo)
    \/ me.next = "removeAll" /\ removeAll(c, me)
    \/ me.next \in {"dropQueue", "recreate"} /\ dropQueue(c, me)
    \/ me.next = "create" /\ newQueue(c, me, me.def, "reconcile")
    \/ me.next = "reconcile" /\ reconcile(c, me)
    \/ /\ me.next = "announce"
       /\ UNCHANGED <<definitions, pool>>
       /\ saveConfig(c, me, IF me.op = "createQueue" THEN "ensure" ELSE "end")
    \/ me.next = "ensure" /\ ensure(c, me)
    \/ /\ \/ me.next = "end"
          \/ me.next = "published" /\ me.op # "updateQueue"
       /\ End(c)
       /\ UNCHANGED <<definitions, pool, saves>>

-----------------------------------------------------------------------------
(***************************************************************************)
(* Requests.  One that is refused at once leaves no trace and is left out. *)
(***************************************************************************)
Start(c) ==
    /\ Quiet
    /\ call[c] = Idle
    /\ started < MaxStarted
    /\ started' = started + 1
    /\ overlapped' = (overlapped \/ UnderWay # {})
    /\ UNCHANGED doubled

\* POST workers/:queue
addWorker(c) ==
    /\ Start(c)
    /\ definition # None /\ definition.enabled
    /\ addWorkerForQueue(c, [Idle EXCEPT !.op = "addWorker"], 0)

\* DELETE workers/:queue
removeWorker(c) ==
    /\ Start(c)
    /\ workers # << >>
    /\ closeLast(c, [Idle EXCEPT !.op = "removeWorker"], "count", 0)

\* POST /
createQueue(c) ==
    /\ Start(c)
    /\ definition = None
    /\ \E def \in NewDefs :
         newQueue(c, [Idle EXCEPT !.op = "createQueue"], def, "announce")

\* PUT :queue.  The new definition is made from the one of this moment.
updateQueue(c) ==
    /\ Start(c)
    /\ definition # None
    /\ \E u \in Updates :
         LET field(f) == IF f \in DOMAIN u THEN u[f] ELSE definition[f]
             def == [workers |-> field("workers"), concurrency |-> field("concurrency"),
                     enabled |-> field("enabled")]
         IN
         removeQueue(c, [Idle EXCEPT !.op = "updateQueue", !.def = def,
                                     !.changed = def.concurrency # definition.concurrency],
                     "recreate")

\* DELETE :queue
deleteQueue(c) ==
    /\ Start(c)
    /\ definition # None \/ workers # << >>
    /\ removeAll(c, [Idle EXCEPT !.op = "deleteQueue"])

resume(c) ==
    /\ call[c].at = "ready"
    /\ Continue(c, call[c])
    /\ UNCHANGED history

-----------------------------------------------------------------------------
(***************************************************************************)
(* The outside world.                                                      *)
(***************************************************************************)

\* The calls that wait for a worker take its number out of the map and run on.
\* They all got the worker from one entry of the map (ClosingIsTracked in
\* QueueAdminProofs), so the first of them finds the number to delete.
WaitingFor(w) == {c \in Calls : call[c].at = "closing" /\ call[c].target.worker = w}
WakeUp(cs) ==
    call' = [c \in Calls |->
        IF c \in cs THEN [call[c] EXCEPT !.at = "ready", !.target = None] ELSE call[c]]

\* Mutant: the worker stays in the map.
workerClosedMut(w) ==
    /\ Quiet
    /\ instance[w].state = "closing"
    /\ instance' = [v \in DOMAIN instance \ {w} |-> instance[v]]
    /\ WakeUp(WaitingFor(w))
    /\ UNCHANGED <<workers, definitions, saves, history, upset>>

\* Mutant: one of the calls that wait is told.
workerClosedMutOne(w) ==
    /\ Quiet
    /\ instance[w].state = "closing"
    /\ instance' = [v \in DOMAIN instance \ {w} |-> instance[v]]
    /\ \E c \in WaitingFor(w) :
         workers' = MapDelete(workers, call[c].target.number) /\ WakeUp({c})
    /\ UNCHANGED <<definitions, saves, history, upset>>

\* A worker that is being closed has finished its jobs.  An error of close() is
\* logged and the worker deleted as well; BullMQ gives it no more jobs.
workerClosed(w) ==
    /\ Quiet
    /\ instance[w].state = "closing"
    /\ instance' = [v \in DOMAIN instance \ {w} |-> instance[v]]
    /\ \E c \in WaitingFor(w) : workers' = MapDelete(workers, call[c].target.number)
    /\ WakeUp(WaitingFor(w))
    /\ UNCHANGED <<definitions, saves, history, upset>>

\* The queue has closed: the calls that wait for it, one queue object for all
\* of them, run on.
WaitingForQueue == {c \in Calls : call[c].at = "queueClosing"}
queueClosed ==
    /\ Quiet
    /\ WaitingForQueue # {}
    /\ call' = [c \in Calls |->
                  IF c \in WaitingForQueue THEN [call[c] EXCEPT !.at = "ready"] ELSE call[c]]
    /\ UNCHANGED <<definitions, pool, saves, history, upset>>

Answered(c, io) ==
    /\ Quiet
    /\ call[c].at = io
    /\ call' = [call EXCEPT ![c].at = "ready", ![c].content = None]
    /\ UNCHANGED <<definitions, pool, redis, faults, history, upset>>

redisAnswers(c) == Answered(c, "redis") /\ UNCHANGED file

\* A write over another one that was under way may leave a part of that one.
fileWritten(c) ==
    /\ Answered(c, "file")
    /\ file' \in {call[c].content} \cup (IF file \in {Torn, call[c].content} THEN {} ELSE {Torn})

\* Only setQueueWorkers() lets the error of Redis through.
redisFails(c) ==
    \/ /\ call[c].next # "countFile"
       /\ Answered(c, "redisDown")
       /\ UNCHANGED file
    \/ /\ call[c].next = "countFile"
       /\ Quiet
       /\ call[c].at = "redisDown"
       /\ Throw(c)
       /\ UNCHANGED <<definitions, pool, saves, history>>

\* An error of the file system ends every kind of call.
fileFails(c) ==
    /\ Quiet
    /\ call[c].at = "fileDown"
    /\ Throw(c)
    /\ UNCHANGED <<definitions, pool, saves, history>>

-----------------------------------------------------------------------------
(***************************************************************************)
(* The start of the process.                                               *)
(***************************************************************************)

\* loadQueueConfig(): a file that cannot be parsed is not used.
loadQueueConfig(content) == IF content = Torn THEN DefaultDefs ELSE content

\* initializeQueues(): of several enabled definitions the last one stays.
Enabled(defs) == {i \in DOMAIN defs : defs[i].enabled}
LastEnabled(defs) == IF Enabled(defs) = {} THEN None ELSE defs[Max(Enabled(defs))]
Twice(defs) == \E i, j \in Enabled(defs) : i # j

\* WorkerLifecycleService.initialize(): every enabled definition gets its
\* workers, numbered from one, in one map: those of a later definition take
\* the places of those of an earlier one.
WorkersOf(def) == IF def.enabled THEN getWorkerCountForQueue(def) ELSE 0
Identity(i, k) == (i - 1) * MaxPerQueue + k
Identities(defs, i) == {Identity(i, k) : k \in 1..WorkersOf(defs[i])}
InitialInstances(defs) ==
    LET by(w) == defs[CHOOSE i \in DOMAIN defs : w \in Identities(defs, i)] IN
    [w \in UNION {Identities(defs, i) : i \in DOMAIN defs} |->
        [state |-> "running", concurrency |-> by(w).concurrency]]
InitialWorkers(defs) ==
    LET numbers == 1..Max({0} \cup {WorkersOf(defs[i]) : i \in DOMAIN defs})
        having(k) == {i \in DOMAIN defs : k <= WorkersOf(defs[i])}
    IN  [k \in numbers |-> [number |-> k, worker |-> Identity(Max(having(k)), k)]]

Init ==
    /\ config = StartDefs
    /\ definition = LastEnabled(StartDefs)
    /\ workers = InitialWorkers(StartDefs)
    /\ instance = InitialInstances(StartDefs)
    /\ call = [c \in Calls |-> Idle]
    /\ redis = None
    /\ file = StartDefs
    /\ started = 0
    /\ faults = 0
    /\ overlapped = FALSE
    /\ doubled = Twice(StartDefs)
    /\ upset = FALSE

\* The process ends at any moment and is started again.
restart ==
    /\ Fault
    /\ LET defs == loadQueueConfig(file) IN
         /\ config' = defs
         /\ definition' = LastEnabled(defs)
         /\ workers' = InitialWorkers(defs)
         /\ instance' = InitialInstances(defs)
         /\ doubled' = (doubled \/ Twice(defs))
         /\ upset' = (upset \/ ~Quiescent \/ defs # config)
    /\ call' = [c \in Calls |-> Idle]
    /\ UNCHANGED <<redis, file, started, overlapped>>

Outside(c) ==
    redisAnswers(c) \/ fileWritten(c) \/ redisFails(c) \/ fileFails(c)

Next ==
    \/ \E c \in Calls :
         \/ addWorker(c) \/ removeWorker(c) \/ createQueue(c) \/ updateQueue(c) \/ deleteQueue(c)
         \/ resume(c) \/ Outside(c)
    \/ queueClosed
    \/ \E w \in DOMAIN instance : workerClosed(w)
    \/ restart

Spec == Init /\ [][Next]_vars

\* Redis, the file system and the closing of queues and workers answer; what
\* is ready runs.  BullMQ closes a worker once its jobs are over, and every
\* job has a timeout.
Fairness ==
    /\ \A c \in Calls : WF_vars(resume(c)) /\ WF_vars(Outside(c))
    /\ WF_vars(queueClosed) /\ WF_vars(\E w \in DOMAIN instance : workerClosed(w))

FairSpec == Spec /\ Fairness

-----------------------------------------------------------------------------
(***************************************************************************)
(* Properties.                                                             *)
(***************************************************************************)

\* The map of definitions and the array of the configuration, kept in step by
\* hand over five methods, agree however calls interleave: the definition in
\* force is one of the array, and without one the array has none enabled.
DefinitionsAgree ==
    \/ definition # None /\ definition \in ToSet(config)
    \/ definition = None /\ Enabled(config) = {}

\* When all calls have ended without an error, the last configuration saved
\* in Redis is the one in memory, whatever calls overlapped: every change is
\* followed by a save that is made from the configuration of its moment.  The
\* same holds of the file as long as no two calls overlapped; otherwise an
\* older content may be written last.
SavesFollow ==
    Quiescent /\ ~upset =>
        /\ redis # None => redis = config
        /\ ~overlapped => file = config

\* A worker in the map runs, or is being closed by a call that will take it
\* out: nothing that has closed stays in the map.
MapHasNoDead ==
    \A w \in Tracked :
      /\ w \in DOMAIN instance
      /\ \/ instance[w].state = "running"
         \/ \E c \in Calls : call[c].at = "closing" /\ call[c].target.worker = w

\* As long as calls have not overlapped, and no start of the process found the
\* queue enabled twice, every running worker is in the map whenever no call
\* is ready, and the numbers are those of the positions: no worker was lost to
\* another one of the same number.
SequentialTracksWorkers ==
    ~overlapped /\ ~doubled /\ Quiet =>
        /\ Running \subseteq Tracked
        /\ \A i \in DOMAIN workers : workers[i].number = i

\* A change of concurrency, which a worker takes over only when it is created,
\* reaches every worker: after calls that did not overlap, all of them run
\* with the concurrency of the definition.
ConcurrencyApplied ==
    Quiescent /\ ~upset /\ ~overlapped /\ ~doubled =>
        \A w \in Running : definition # None /\ instance[w].concurrency = definition.concurrency

\* Every call ends once no more calls arrive: two that wait for one worker, a
\* loop that closes workers another call adds, and errors in between leave
\* none waiting.  It says nothing of calls that keep arriving: DELETE closes
\* workers until it finds none, so adds without end could keep it at work.
NoMoreCalls == <>[][FALSE]_started
EveryCallEnds ==
    NoMoreCalls => \A c \in Calls : call[c].at # "idle" ~> call[c].at = "idle"
=============================================================================
