------------------------------ MODULE LoadTest ------------------------------
(***************************************************************************)
(* A load test (LoadTestService) against the queues of the gateway: it     *)
(* adds its jobs in batches, polls each of them until it is settled or     *)
(* the polls are used up (JobHistoryRepository.getJobStatus), and ends     *)
(* when all are counted or it has waited long enough.                      *)
(*                                                                         *)
(* Its jobs are worked on by the same workers as the jobs of clients, with *)
(* the same cache and the same history.  The jobs are those of one queue   *)
(* and, clients' jobs included, GET requests of one resource without a     *)
(* user; what happens to a job between two attempts is in JobLifecycle.    *)
(***************************************************************************)
EXTENDS Naturals, Sequences, FiniteSets

CONSTANTS
    TotalJobs,      \* config.totalJobs
    Concurrency,    \* config.concurrency
    ClientJobs,     \* the jobs of clients
    MaxPolls,       \* polls until a job is given up
    MissingPolls,   \* polls in which a job may be missing
    MaxRounds,      \* rounds of waitForJobsCompletion()
    HistoryLimit,   \* QUEUE_RESULT_HISTORY_LIMIT
    None

TestJobs == 1 .. TotalJobs
Jobs == TestJobs \cup ClientJobs

ASSUME LoadAssumption ==
    /\ TotalJobs \in Nat \ {0} /\ Concurrency \in Nat \ {0}
    /\ MaxPolls \in Nat \ {0} /\ MissingPolls \in Nat /\ MaxRounds \in Nat
    /\ HistoryLimit \in Nat \ {0}
    /\ ClientJobs \cap TestJobs = {}

VARIABLES
    stage,      \* where executeLoadTest() is
    sent,       \* the jobs of the test that were handed to a batch: 1 .. sent
    rounds,     \* rounds of waiting so far
    gaveUp,     \* the waiting ended with its time
    listed,     \* the test is in activeTests and jobResults
    metrics,    \* totalJobsCreated, totalJobsCompleted, totalJobsFailed
    verdict,    \* jobResults: job -> what was recorded of it
    track,      \* job -> where createAndTrackJob() and its polls are
    polls,      \* job -> polls so far
    status,     \* job -> its state in BullMQ
    phase,      \* job -> where processJob() is
    result,     \* job -> what processJob() has found and saves
    cache,      \* the response that is kept for the resource, or None
    history     \* list of Redis -> the jobs in it, newest first

test == <<stage, sent, rounds, gaveUp, listed, metrics, verdict, track, polls>>
work == <<status, phase, result, cache, history>>
vars == <<test, work>>

Of(j) == IF j \in TestJobs THEN "echo" ELSE "answer"

-----------------------------------------------------------------------------
(* The lists: the one a worker writes and those the endpoints read. *)
HistoryList == "job:history:queue"
CompletedList == "jobs:history:completed"
FailedList == "jobs:history:failed"
Lists == {HistoryList, CompletedList, FailedList}

Newest(list, n) == SubSeq(list, 1, IF Len(list) < n THEN Len(list) ELSE n)

parseLimit(limit) == IF limit = None \/ limit = 0 THEN 50 ELSE IF limit > 500 THEN 500 ELSE limit

fetchJobHistory(key, limit) ==
    LET capped == IF limit < HistoryLimit THEN limit ELSE HistoryLimit
    IN  Newest(history[key], IF capped < 1 THEN 1 ELSE capped)

(* GET /queues/results/success and /queues/results/failure *)
getSuccessfulResults(limit) == fetchJobHistory(CompletedList, parseLimit(limit))
getFailedResults(limit) == fetchJobHistory(FailedList, parseLimit(limit))

-----------------------------------------------------------------------------
Init ==
    /\ stage = "between" /\ sent = 0 /\ rounds = 0
    /\ gaveUp = FALSE /\ listed = TRUE
    /\ metrics = [created |-> 0, completed |-> 0, failed |-> 0]
    /\ verdict = [j \in TestJobs |-> "none"]
    /\ track = [j \in TestJobs |-> "unsent"]
    /\ polls = [j \in TestJobs |-> 0]
    /\ status = [j \in Jobs |-> IF j \in TestJobs THEN "none" ELSE "waiting"]
    /\ phase = [j \in Jobs |-> "idle"]
    /\ result = [j \in Jobs |-> None]
    /\ cache = None
    /\ history = [l \in Lists |-> <<>>]

(* One turn of the loop over the batches: all their jobs are handed over. *)
Batch == {j \in TestJobs : sent < j /\ j <= sent + Concurrency}

sendBatch ==
    /\ stage = "between" /\ sent < TotalJobs
    /\ stage' = "sending"
    /\ sent' = sent + Cardinality(Batch)
    /\ track' = [j \in TestJobs |-> IF j \in Batch THEN "adding" ELSE track[j]]
    /\ UNCHANGED <<rounds, gaveUp, listed, metrics, verdict, polls, work>>

(* Redis executes the add. *)
executeAdd(j) ==
    /\ track[j] = "adding" /\ status[j] = "none"
    /\ status' = [status EXCEPT ![j] = "waiting"]
    /\ UNCHANGED <<test, phase, result, cache, history>>

(* Its answer arrives: the tracking begins with a timer. *)
trackJobCompletion(j) ==
    /\ track[j] = "adding" /\ status[j] # "none"
    /\ track' = [track EXCEPT ![j] = "timer"]
    /\ UNCHANGED <<stage, sent, rounds, gaveUp, listed, metrics, verdict, polls, work>>

(* The add fails, before or after Redis has executed it: nothing is tracked *)
(* or recorded, and createAndTrackJob() is fulfilled all the same.         *)
addFails(j) ==
    /\ track[j] = "adding"
    /\ track' = [track EXCEPT ![j] = "notAdded"]
    /\ UNCHANGED <<stage, sent, rounds, gaveUp, listed, metrics, verdict, polls, work>>

(* The batch is settled; the pause follows. *)
batchSettles ==
    /\ stage = "sending"
    /\ \A j \in TestJobs : track[j] # "adding"
    /\ metrics' = [metrics EXCEPT !.created = sent]
    /\ stage' = "between"
    /\ UNCHANGED <<sent, rounds, gaveUp, listed, verdict, track, polls, work>>

Counted == metrics.completed + metrics.failed

(* A wrong version of the next: it waits for every job it has sent. *)
awaitJobsMut ==
    /\ stage = "between" /\ sent = TotalJobs
    /\ Counted >= TotalJobs
    /\ stage' = "ended"
    /\ UNCHANGED <<sent, rounds, gaveUp, listed, metrics, verdict, track, polls, work>>

(* One turn of waitForJobsCompletion(): the time is up, all are counted, or *)
(* it sleeps.  calculateFinalMetrics() after the last reads what is        *)
(* recorded and the statistics of Redis, whose error ends the test too.    *)
awaitJobs ==
    /\ stage = "between" /\ sent = TotalJobs
    /\ \/ rounds = MaxRounds /\ stage' = "ended" /\ gaveUp' = TRUE /\ UNCHANGED rounds
       \/ /\ rounds < MaxRounds /\ listed /\ Counted >= TotalJobs
          /\ stage' = "ended"
          /\ UNCHANGED <<rounds, gaveUp>>
       \/ /\ rounds < MaxRounds /\ ~(listed /\ Counted >= TotalJobs)
          /\ rounds' = rounds + 1
          /\ UNCHANGED <<stage, gaveUp>>
    /\ UNCHANGED <<sent, listed, metrics, verdict, track, polls, work>>

cleanupTest ==
    /\ listed' = FALSE
    /\ UNCHANGED <<stage, sent, rounds, gaveUp, metrics, verdict, track, polls, work>>

-----------------------------------------------------------------------------
(* The end of the tracking of a job. *)
recordJobResult(j, success) ==
    /\ track' = [track EXCEPT ![j] = "recorded"]
    /\ IF listed
       THEN /\ verdict' = [verdict EXCEPT ![j] = IF success THEN "success" ELSE "failure"]
            /\ metrics' = IF success THEN [metrics EXCEPT !.completed = @ + 1]
                                     ELSE [metrics EXCEPT !.failed = @ + 1]
       ELSE UNCHANGED <<verdict, metrics>>

(* A wrong version of the next: one poll too many. *)
pollAgainMutOne(j) ==
    /\ polls' = [polls EXCEPT ![j] = @ + 1]
    /\ IF polls[j] + 1 <= MaxPolls
       THEN track' = [track EXCEPT ![j] = "timer"] /\ UNCHANGED <<verdict, metrics>>
       ELSE recordJobResult(j, FALSE)

(* Neither settled nor missing too long: another poll, or the last was it. *)
pollAgain(j) ==
    /\ polls' = [polls EXCEPT ![j] = @ + 1]
    /\ IF polls[j] + 1 < MaxPolls
       THEN track' = [track EXCEPT ![j] = "timer"] /\ UNCHANGED <<verdict, metrics>>
       ELSE recordJobResult(j, FALSE)

(* The timer fires and getJob() answers: the job, or nothing in any queue. *)
getJob(j) ==
    /\ track[j] = "timer"
    /\ IF status[j] # "gone"
       THEN track' = [track EXCEPT ![j] = "found"] /\ UNCHANGED <<polls, verdict, metrics>>
       ELSE IF polls[j] > MissingPolls
            THEN recordJobResult(j, FALSE) /\ UNCHANGED polls
            ELSE pollAgain(j)
    /\ UNCHANGED <<stage, sent, rounds, gaveUp, listed, work>>

(* A wrong version of the next: a job that is missing counts as completed. *)
getStateMut(j) ==
    /\ track[j] = "found"
    /\ IF status[j] \notin {"waiting", "failed"}
       THEN recordJobResult(j, TRUE) /\ UNCHANGED polls
       ELSE pollAgain(j)
    /\ UNCHANGED <<stage, sent, rounds, gaveUp, listed, work>>

(* The answer of getState(), which may be later; the record that is read   *)
(* after it is not used.                                                   *)
getState(j) ==
    /\ track[j] = "found"
    /\ IF status[j] \in {"completed", "failed"}
       THEN recordJobResult(j, status[j] = "completed") /\ UNCHANGED polls
       ELSE pollAgain(j)
    /\ UNCHANGED <<stage, sent, rounds, gaveUp, listed, work>>

(* A wrong version of the next: the error is recorded and the timer set. *)
pollFailsMut(j) ==
    /\ track[j] \in {"timer", "found"} /\ listed
    /\ metrics' = [metrics EXCEPT !.failed = @ + 1]
    /\ verdict' = [verdict EXCEPT ![j] = "failure"]
    /\ track' = [track EXCEPT ![j] = "timer"]
    /\ UNCHANGED <<stage, sent, rounds, gaveUp, listed, polls, work>>

pollFails(j) ==
    /\ track[j] \in {"timer", "found"}
    /\ recordJobResult(j, FALSE)
    /\ UNCHANGED <<stage, sent, rounds, gaveUp, listed, polls, work>>

-----------------------------------------------------------------------------
(* A worker takes a job.  A response that is kept ends it; otherwise the   *)
(* dispatcher echoes a job of the test and sends the message of another.   *)
processJob(j) ==
    /\ status[j] = "waiting"
    /\ status' = [status EXCEPT ![j] = "active"]
    /\ IF cache # None
       THEN /\ result' = [result EXCEPT ![j] = cache]
            /\ phase' = [phase EXCEPT ![j] = "saving"]
            /\ UNCHANGED cache
       ELSE IF j \in TestJobs
            THEN /\ result' = [result EXCEPT ![j] = Of(j)]
                 /\ phase' = [phase EXCEPT ![j] = "saving"]
                 /\ cache' = Of(j)
            ELSE /\ phase' = [phase EXCEPT ![j] = "dispatched"]
                 /\ UNCHANGED <<result, cache>>
    /\ UNCHANGED <<test, history>>

(* The microservice answers, *)
dispatchReturns(j) ==
    /\ phase[j] = "dispatched"
    /\ result' = [result EXCEPT ![j] = Of(j)]
    /\ cache' = Of(j)
    /\ phase' = [phase EXCEPT ![j] = "saving"]
    /\ UNCHANGED <<test, status, history>>

(* or with an error, or too late. *)
dispatchFails(j) ==
    /\ phase[j] = "dispatched"
    /\ result' = [result EXCEPT ![j] = "error"]
    /\ phase' = [phase EXCEPT ![j] = "saving"]
    /\ UNCHANGED <<test, status, cache, history>>

(* saveJobResult() writes the record and pushes the job on the list, or     *)
(* Redis fails.  The list is trimmed; when that fails, what is too much is *)
(* never read and goes with the next push.  Then BullMQ settles the job.   *)
saveJobResult(j) ==
    \/ history' = [history EXCEPT ![HistoryList] = Newest(<<j>> \o @, HistoryLimit)]
    \/ UNCHANGED history

jobSettles(j) ==
    /\ phase[j] = "saving"
    /\ saveJobResult(j)
    /\ phase' = [phase EXCEPT ![j] = "idle"]
    /\ status' = [status EXCEPT ![j] = IF result[j] = "error" THEN "failed" ELSE "completed"]
    /\ result' = [result EXCEPT ![j] = None]
    /\ UNCHANGED <<test, cache>>

(* BullMQ keeps the last jobs that settled (removeOnComplete, removeOnFail): *)
(* others that settle later push a job out.                                *)
removed(j) ==
    /\ status[j] \in {"completed", "failed"}
    /\ status' = [status EXCEPT ![j] = "gone"]
    /\ UNCHANGED <<test, phase, result, cache, history>>

(* A job whose lock was lost too often has failed; nobody is told what its  *)
(* slot still does.                                                        *)
stalls(j) ==
    /\ status[j] = "active"
    /\ status' = [status EXCEPT ![j] = "failed"]
    /\ phase' = [phase EXCEPT ![j] = "idle"]
    /\ result' = [result EXCEPT ![j] = None]
    /\ UNCHANGED <<test, cache, history>>

cacheLoses ==
    /\ cache' = None
    /\ UNCHANGED <<test, status, phase, result, history>>

-----------------------------------------------------------------------------
Drive == sendBatch \/ batchSettles \/ awaitJobs
Adding(j) == executeAdd(j) \/ trackJobCompletion(j) \/ addFails(j)
Poll(j) == getJob(j) \/ getState(j) \/ pollFails(j)
Process(j) ==
    \/ processJob(j) \/ dispatchReturns(j) \/ dispatchFails(j)
    \/ jobSettles(j) \/ stalls(j) \/ removed(j)

Next ==
    \/ Drive
    \/ \E j \in TestJobs : Adding(j) \/ Poll(j)
    \/ \E j \in Jobs : Process(j)
    \/ cleanupTest
    \/ cacheLoses

(* Timers fire and Redis answers or fails.  Nothing is asked of the workers. *)
Spec ==
    /\ Init /\ [][Next]_vars
    /\ WF_vars(Drive)
    /\ \A j \in TestJobs : WF_vars(Adding(j)) /\ WF_vars(Poll(j))

-----------------------------------------------------------------------------
Tracks == {"unsent", "adding", "notAdded", "timer", "found", "recorded"}
Statuses == {"none", "waiting", "active", "completed", "failed", "gone"}

(* The type of every variable of LoadTestService and of the jobs. *)
TypeOK ==
    /\ stage \in {"between", "sending", "ended"}
    /\ sent \in 0 .. TotalJobs /\ rounds \in 0 .. MaxRounds
    /\ gaveUp \in BOOLEAN /\ listed \in BOOLEAN
    /\ metrics \in [created : 0 .. TotalJobs, completed : Nat, failed : Nat]
    /\ verdict \in [TestJobs -> {"none", "success", "failure"}]
    /\ track \in [TestJobs -> Tracks]
    /\ polls \in [TestJobs -> 0 .. MaxPolls]
    /\ status \in [Jobs -> Statuses]
    /\ phase \in [Jobs -> {"idle", "dispatched", "saving"}]
    /\ result \in [Jobs -> {None, "echo", "answer", "error"}]
    /\ cache \in {None, "echo", "answer"}
    /\ history \in [Lists -> Seq(Jobs)]

(* Every job is counted at most once, whatever races its polls: as long as *)
(* the test is listed its counters are the numbers of jobs recorded        *)
(* either way, and they never exceed the jobs that were sent               *)
(* (recordJobResult, trackJobCompletion).                                  *)
Successes == {j \in TestJobs : verdict[j] = "success"}
Failures == {j \in TestJobs : verdict[j] = "failure"}
CountedOnce ==
    /\ metrics.completed = Cardinality(Successes)
    /\ metrics.failed = Cardinality(Failures)
    /\ \A j \in TestJobs : verdict[j] # "none" => track[j] = "recorded"
    /\ listed => \A j \in TestJobs : track[j] = "recorded" => verdict[j] # "none"

(* A job recorded as a success did complete, though it may be gone; and a   *)
(* test that did not run out of time has recorded every one of its jobs    *)
(* (waitForJobsCompletion counts, it does not look).                       *)
ReportIsTrue ==
    /\ \A j \in Successes : status[j] \in {"completed", "gone"}
    /\ stage = "ended" /\ ~gaveUp =>
          \A j \in TestJobs : track[j] = "recorded" /\ verdict[j] # "none"

(* The test ends, and no job is polled for ever, whether or not the workers *)
(* do anything and also when it is cleaned up while it runs.               *)
TestEnds ==
    <>[](/\ stage = "ended"
         /\ \A j \in TestJobs : track[j] \in {"notAdded", "recorded"})

(* "Results": the endpoint for the results of completed jobs shows the      *)
(* newest that was saved (QueueController.getSuccessfulResults).           *)
HistoryServed ==
    LET saved == history[HistoryList]
    IN  saved # <<>> /\ status[Head(saved)] \in {"completed", "gone"} =>
            \E i \in DOMAIN getSuccessfulResults(None) :
                getSuccessfulResults(None)[i] = Head(saved)

(* What a client is given was answered by the microservice. *)
ClientsGetAnswers == \A j \in ClientJobs : result[j] \in {None, "answer", "error"}
=============================================================================
