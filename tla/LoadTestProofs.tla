---------------------------- MODULE LoadTestProofs ----------------------------
(***************************************************************************)
(* What LoadTest promises for any number of jobs, any concurrency, any     *)
(* jobs of clients beside them and any limits on polls and rounds.         *)
(***************************************************************************)
EXTENDS LoadTest, FiniteSetTheorems, TLAPS

(* Jobs are handed over in order. *)
SentInOrder == \A j \in TestJobs : j > sent => track[j] = "unsent"

(* A job that may still be polled has polls left. *)
PollsLeft ==
    \A j \in TestJobs :
        track[j] \in {"unsent", "adding", "timer", "found"} => polls[j] < MaxPolls

(* A slot works on active jobs only. *)
WorkedIsActive == \A j \in Jobs : phase[j] # "idle" => status[j] = "active"

IInv ==
    /\ TypeOK /\ CountedOnce /\ ReportIsTrue
    /\ SentInOrder /\ PollsLeft /\ WorkedIsActive

LEMMA TestJobsFinite ==
    /\ IsFiniteSet(TestJobs)
    /\ Cardinality(TestJobs) = TotalJobs
<1>1. TotalJobs \in Nat /\ 1 \in Int
  BY LoadAssumption
<1> QED
  BY <1>1, FS_Interval DEF TestJobs

LEMMA VerdictsFinite ==
    /\ IsFiniteSet(Successes) /\ Cardinality(Successes) \in Nat
    /\ IsFiniteSet(Failures) /\ Cardinality(Failures) \in Nat
<1>1. Successes \subseteq TestJobs /\ Failures \subseteq TestJobs
  BY DEF Successes, Failures
<1> QED
  BY <1>1, TestJobsFinite, FS_Subset, FS_CardinalityType

\* When as many verdicts are counted as there are jobs, every job has one.
LEMMA AllCounted ==
    ASSUME Cardinality(Successes) + Cardinality(Failures) >= TotalJobs
    PROVE  \A j \in TestJobs : verdict[j] # "none"
<1> DEFINE Both == Successes \cup Failures
<1>1. Successes \cap Failures = {}
  BY DEF Successes, Failures
<1>2. Cardinality(Both) = Cardinality(Successes) + Cardinality(Failures) - Cardinality({})
  BY <1>1, VerdictsFinite, FS_Union
<1>3. Cardinality({}) = 0
  BY FS_EmptySet
<1>4. Both \subseteq TestJobs
  BY DEF Successes, Failures
<1>5. Cardinality(Both) <= Cardinality(TestJobs)
  BY <1>4, TestJobsFinite, FS_Subset
<1>6. Cardinality(Both) = Cardinality(TestJobs)
  <2> HIDE DEF Both
  <2> QED
    BY <1>2, <1>3, <1>5, VerdictsFinite, TestJobsFinite, LoadAssumption
<1>7. Both = TestJobs
  BY <1>4, <1>6, TestJobsFinite, FS_Subset
<1> QED
  BY <1>7 DEF Successes, Failures

\* The newest of a list of jobs are a list of jobs.
LEMMA NewestType ==
    ASSUME NEW S, NEW list \in Seq(S), NEW n \in Nat
    PROVE  Newest(list, n) \in Seq(S)
<1>1. CASE Len(list) < n
  BY <1>1 DEF Newest
<1>2. CASE ~(Len(list) < n)
  BY <1>2 DEF Newest
<1> QED
  BY <1>1, <1>2

-----------------------------------------------------------------------------
LEMMA InitIInv == Init => IInv
<1> SUFFICES ASSUME Init PROVE IInv
  OBVIOUS
<1> USE LoadAssumption DEF Init
<1>1. TypeOK
  <2>1. /\ sent \in 0 .. TotalJobs /\ rounds \in 0 .. MaxRounds
        /\ metrics \in [created : 0 .. TotalJobs, completed : Nat, failed : Nat]
        /\ polls \in [TestJobs -> 0 .. MaxPolls]
    OBVIOUS
  <2>2. /\ status \in [Jobs -> Statuses] /\ track \in [TestJobs -> Tracks]
    BY DEF Statuses, Tracks
  <2>3. history \in [Lists -> Seq(Jobs)]
    OBVIOUS
  <2> QED
    BY <2>1, <2>2, <2>3 DEF TypeOK
<1>2. CountedOnce
  <2>1. Successes = {} /\ Failures = {}
    BY DEF Successes, Failures
  <2> QED
    BY <2>1, FS_EmptySet DEF CountedOnce
<1>3. ReportIsTrue
  BY DEF ReportIsTrue, Successes
<1>4. SentInOrder /\ PollsLeft /\ WorkedIsActive
  BY DEF SentInOrder, PollsLeft, WorkedIsActive, TestJobs
<1> QED
  BY <1>1, <1>2, <1>3, <1>4 DEF IInv

-----------------------------------------------------------------------------
(* The driver. *)

LEMMA SendBatchIInv ==
    ASSUME IInv, sendBatch
    PROVE  IInv'
<1> DEFINE upto == IF sent + Concurrency < TotalJobs THEN sent + Concurrency ELSE TotalJobs
<1> USE DEF sendBatch, work
<1>1. sent \in 0 .. TotalJobs /\ sent < TotalJobs /\ TotalJobs \in Nat /\ Concurrency \in Nat \ {0}
  BY LoadAssumption DEF IInv, TypeOK
<1>2. upto \in 0 .. TotalJobs /\ sent < upto
  BY <1>1
<1>3. Batch = (sent + 1) .. upto
  BY <1>1 DEF Batch, TestJobs
<1>4. Cardinality(Batch) = upto - sent
  <2>1. sent + 1 \in Int /\ upto \in Int /\ sent + 1 <= upto
    BY <1>1, <1>2
  <2>2. Cardinality((sent + 1) .. upto) = upto - (sent + 1) + 1
    BY <2>1, FS_Interval
  <2> QED
    BY <1>3, <2>1, <2>2, <1>1
<1>5. sent' = upto
  BY <1>1, <1>2, <1>4
<1>6. \A j \in TestJobs : j \in Batch <=> sent < j /\ j <= sent'
  BY <1>1, <1>2, <1>3, <1>5 DEF TestJobs
<1>7. \A j \in TestJobs : track'[j] = IF j \in Batch THEN "adding" ELSE track[j]
  OBVIOUS
<1>8. \A j \in Batch : j \in TestJobs /\ track[j] = "unsent"
  BY <1>1 DEF Batch, IInv, SentInOrder, TestJobs
<1>9. TypeOK'
  <2>1. track' \in [TestJobs -> Tracks]
    BY DEF IInv, TypeOK, Tracks
  <2> QED
    BY <2>1, <1>2, <1>5 DEF IInv, TypeOK
<1>10. CountedOnce'
  <2>1. Successes' = Successes /\ Failures' = Failures
    BY DEF Successes, Failures
  <2> QED
    BY <2>1, <1>7, <1>8 DEF IInv, CountedOnce
<1>11. ReportIsTrue'
  BY DEF IInv, ReportIsTrue, Successes
<1>12. SentInOrder'
  BY <1>1, <1>2, <1>5, <1>6, <1>7 DEF IInv, SentInOrder, TestJobs
<1>13. PollsLeft' /\ WorkedIsActive'
  BY <1>7, <1>8 DEF IInv, PollsLeft, WorkedIsActive
<1> QED
  BY <1>9, <1>10, <1>11, <1>12, <1>13 DEF IInv

\* A step of the test that touches neither the jobs' tracking nor what is recorded.
LEMMA QuietStepIInv ==
    ASSUME IInv,
           stage' \in {"between", "sending", "ended"},
           rounds' \in 0 .. MaxRounds, gaveUp' \in BOOLEAN, listed' \in BOOLEAN,
           listed' => listed,
           metrics' \in [created : 0 .. TotalJobs, completed : Nat, failed : Nat],
           metrics'.completed = metrics.completed,
           metrics'.failed = metrics.failed,
           UNCHANGED <<sent, verdict, track, polls, work>>,
           stage' = "ended" /\ ~gaveUp' =>
               \A j \in TestJobs : track[j] = "recorded" /\ verdict[j] # "none"
    PROVE  IInv'
<1> USE DEF work
<1>1. TypeOK'
  BY DEF IInv, TypeOK
<1>2. Successes' = Successes /\ Failures' = Failures
  BY DEF Successes, Failures
<1>3. CountedOnce'
  BY <1>2 DEF IInv, CountedOnce
<1>4. ReportIsTrue'
  BY <1>2 DEF IInv, ReportIsTrue
<1>5. SentInOrder' /\ PollsLeft' /\ WorkedIsActive'
  BY DEF IInv, SentInOrder, PollsLeft, WorkedIsActive
<1> QED
  BY <1>1, <1>3, <1>4, <1>5 DEF IInv

LEMMA BatchSettlesIInv ==
    ASSUME IInv, batchSettles
    PROVE  IInv'
<1>1. /\ metrics' = [metrics EXCEPT !.created = sent]
      /\ metrics \in [created : 0 .. TotalJobs, completed : Nat, failed : Nat]
      /\ sent \in 0 .. TotalJobs
  BY DEF batchSettles, IInv, TypeOK
<1>2. metrics' \in [created : 0 .. TotalJobs, completed : Nat, failed : Nat]
  BY <1>1
<1>3. metrics'.completed = metrics.completed /\ metrics'.failed = metrics.failed
  BY <1>1
<1> QED
  BY <1>2, <1>3, QuietStepIInv DEF batchSettles, IInv, TypeOK

LEMMA AwaitJobsIInv ==
    ASSUME IInv, awaitJobs
    PROVE  IInv'
<1>1. rounds' \in 0 .. MaxRounds
  BY LoadAssumption DEF awaitJobs, IInv, TypeOK
<1>2. stage' = "ended" /\ ~gaveUp' =>
          \A j \in TestJobs : track[j] = "recorded" /\ verdict[j] # "none"
  <2> SUFFICES ASSUME stage' = "ended", ~gaveUp'
               PROVE  \A j \in TestJobs : track[j] = "recorded" /\ verdict[j] # "none"
    OBVIOUS
  <2>1. Counted >= TotalJobs
    BY DEF awaitJobs
  <2>2. \A j \in TestJobs : verdict[j] # "none"
    BY <2>1, AllCounted DEF Counted, IInv, CountedOnce
  <2> QED
    BY <2>2 DEF IInv, CountedOnce
<1> QED
  BY <1>1, <1>2, QuietStepIInv DEF awaitJobs, IInv, TypeOK

LEMMA CleanupTestIInv ==
    ASSUME IInv, cleanupTest
    PROVE  IInv'
BY QuietStepIInv DEF cleanupTest, IInv, TypeOK, ReportIsTrue

-----------------------------------------------------------------------------
(* The tracking of a job. *)

\* The tracking moves on and nothing is recorded.
LEMMA TrackIInv ==
    ASSUME IInv, NEW j \in TestJobs, NEW t \in {"notAdded", "timer", "found"},
           track[j] \in {"adding", "timer", "found"},
           track' = [track EXCEPT ![j] = t],
           polls' \in [TestJobs -> 0 .. MaxPolls],
           \A i \in TestJobs \ {j} : polls'[i] = polls[i],
           t \in {"timer", "found"} => polls'[j] < MaxPolls,
           UNCHANGED <<stage, sent, rounds, gaveUp, listed, metrics, verdict, work>>
    PROVE  IInv'
<1> USE DEF work
<1>1. /\ track' \in [TestJobs -> Tracks]
      /\ track'[j] = t
      /\ \A i \in TestJobs \ {j} : track'[i] = track[i]
  BY DEF IInv, TypeOK, Tracks
<1>2. verdict[j] = "none"
  BY DEF IInv, CountedOnce
<1>3. TypeOK'
  BY <1>1 DEF IInv, TypeOK
<1>4. Successes' = Successes /\ Failures' = Failures
  BY DEF Successes, Failures
<1>5. CountedOnce'
  BY <1>1, <1>2, <1>4 DEF IInv, CountedOnce
<1>6. ReportIsTrue'
  BY <1>4 DEF IInv, ReportIsTrue
<1>7. SentInOrder'
  BY <1>1 DEF IInv, SentInOrder
<1>8. PollsLeft'
  BY <1>1 DEF IInv, PollsLeft
<1>9. WorkedIsActive'
  BY DEF IInv, WorkedIsActive
<1> QED
  BY <1>3, <1>5, <1>6, <1>7, <1>8, <1>9 DEF IInv

\* The tracking ends with a verdict, which counts if the test is listed.
LEMMA RecordIInv ==
    ASSUME IInv, NEW j \in TestJobs, NEW success \in BOOLEAN,
           track[j] \in {"timer", "found"},
           recordJobResult(j, success),
           success => status[j] = "completed",
           polls' \in [TestJobs -> 0 .. MaxPolls],
           \A i \in TestJobs \ {j} : polls'[i] = polls[i],
           UNCHANGED <<stage, sent, rounds, gaveUp, listed, work>>
    PROVE  IInv'
<1> USE DEF work
<1>1. /\ track' = [track EXCEPT ![j] = "recorded"]
      /\ track' \in [TestJobs -> Tracks]
      /\ track'[j] = "recorded"
      /\ \A i \in TestJobs \ {j} : track'[i] = track[i]
  BY DEF recordJobResult, IInv, TypeOK, Tracks
<1>2. verdict[j] = "none"
  BY DEF IInv, CountedOnce
<1>3. /\ metrics \in [created : 0 .. TotalJobs, completed : Nat, failed : Nat]
      /\ verdict \in [TestJobs -> {"none", "success", "failure"}]
  BY DEF IInv, TypeOK
<1>4. /\ metrics' \in [created : 0 .. TotalJobs, completed : Nat, failed : Nat]
      /\ verdict' \in [TestJobs -> {"none", "success", "failure"}]
      /\ \A i \in TestJobs \ {j} : verdict'[i] = verdict[i]
      /\ listed => verdict'[j] = (IF success THEN "success" ELSE "failure")
      /\ ~listed => verdict' = verdict
  BY <1>3 DEF recordJobResult
<1>5. /\ metrics'.completed = Cardinality(Successes')
      /\ metrics'.failed = Cardinality(Failures')
  <2>0. /\ metrics.completed = Cardinality(Successes)
        /\ metrics.failed = Cardinality(Failures)
    BY DEF IInv, CountedOnce
  <2>1. CASE ~listed
    <3>1. verdict' = verdict /\ metrics' = metrics
      BY <2>1 DEF recordJobResult
    <3> QED
      BY <2>0, <3>1 DEF Successes, Failures
  <2>2. CASE listed /\ success
    <3>1. /\ Successes' = Successes \cup {j} /\ j \notin Successes
          /\ Failures' = Failures
      BY <1>2, <1>4, <2>2 DEF Successes, Failures
    <3>2. /\ metrics'.completed = metrics.completed + 1
          /\ metrics'.failed = metrics.failed
      BY <1>3, <2>2 DEF recordJobResult
    <3>3. Cardinality(Successes \cup {j}) = Cardinality(Successes) + 1
      BY <3>1, VerdictsFinite, FS_AddElement
    <3> QED
      BY <2>0, <3>1, <3>2, <3>3
  <2>3. CASE listed /\ ~success
    <3>1. /\ Failures' = Failures \cup {j} /\ j \notin Failures
          /\ Successes' = Successes
      BY <1>2, <1>4, <2>3 DEF Successes, Failures
    <3>2. /\ metrics'.failed = metrics.failed + 1
          /\ metrics'.completed = metrics.completed
      BY <1>3, <2>3 DEF recordJobResult
    <3>3. Cardinality(Failures \cup {j}) = Cardinality(Failures) + 1
      BY <3>1, VerdictsFinite, FS_AddElement
    <3> QED
      BY <2>0, <3>1, <3>2, <3>3
  <2> QED
    BY <2>1, <2>2, <2>3
<1>6. TypeOK'
  BY <1>1, <1>4 DEF IInv, TypeOK
<1>7. CountedOnce'
  BY <1>1, <1>2, <1>4, <1>5 DEF IInv, CountedOnce
<1>8. ReportIsTrue'
  <2>1. \A i \in Successes' : status'[i] \in {"completed", "gone"}
    BY <1>2, <1>4 DEF IInv, ReportIsTrue, Successes
  <2>2. ~(stage = "ended" /\ ~gaveUp)
    BY DEF IInv, ReportIsTrue
  <2> QED
    BY <2>1, <2>2 DEF ReportIsTrue
<1>9. SentInOrder' /\ PollsLeft' /\ WorkedIsActive'
  BY <1>1 DEF IInv, SentInOrder, PollsLeft, WorkedIsActive
<1> QED
  BY <1>6, <1>7, <1>8, <1>9 DEF IInv

LEMMA PollAgainIInv ==
    ASSUME IInv, NEW j \in TestJobs, track[j] \in {"timer", "found"}, pollAgain(j),
           UNCHANGED <<stage, sent, rounds, gaveUp, listed, work>>
    PROVE  IInv'
<1>1. /\ polls \in [TestJobs -> 0 .. MaxPolls] /\ polls[j] < MaxPolls
      /\ polls' = [polls EXCEPT ![j] = @ + 1] /\ MaxPolls \in Nat
  BY LoadAssumption DEF pollAgain, IInv, TypeOK, PollsLeft
<1>2. /\ polls' \in [TestJobs -> 0 .. MaxPolls]
      /\ polls'[j] = polls[j] + 1
      /\ \A i \in TestJobs \ {j} : polls'[i] = polls[i]
  BY <1>1
<1>3. CASE polls[j] + 1 < MaxPolls
  BY <1>2, <1>3, TrackIInv DEF pollAgain
<1>4. CASE ~(polls[j] + 1 < MaxPolls)
  BY <1>2, <1>4, RecordIInv DEF pollAgain
<1> QED
  BY <1>3, <1>4

LEMMA AddingIInv ==
    ASSUME IInv, NEW j \in TestJobs, trackJobCompletion(j) \/ addFails(j)
    PROVE  IInv'
<1>1. polls' = polls /\ polls \in [TestJobs -> 0 .. MaxPolls] /\ polls[j] < MaxPolls
  BY DEF trackJobCompletion, addFails, IInv, TypeOK, PollsLeft
<1>2. CASE trackJobCompletion(j)
  BY <1>1, <1>2, TrackIInv DEF trackJobCompletion
<1>3. CASE addFails(j)
  BY <1>1, <1>3, TrackIInv DEF addFails
<1> QED
  BY <1>2, <1>3

LEMMA PollIInv ==
    ASSUME IInv, NEW j \in TestJobs, Poll(j)
    PROVE  IInv'
<1>1. polls \in [TestJobs -> 0 .. MaxPolls] /\ track[j] \in {"timer", "found"}
  BY DEF IInv, TypeOK, Poll, getJob, getState, pollFails
<1>2. polls[j] < MaxPolls
  BY <1>1 DEF IInv, PollsLeft
<1>3. CASE getJob(j)
  <2>1. CASE status[j] # "gone"
    BY <1>1, <1>2, <1>3, <2>1, TrackIInv DEF getJob
  <2>2. CASE status[j] = "gone" /\ polls[j] > MissingPolls
    BY <1>1, <1>3, <2>2, RecordIInv DEF getJob
  <2>3. CASE status[j] = "gone" /\ ~(polls[j] > MissingPolls)
    BY <1>1, <1>3, <2>3, PollAgainIInv DEF getJob
  <2> QED
    BY <2>1, <2>2, <2>3
<1>4. CASE getState(j)
  <2>1. CASE status[j] \in {"completed", "failed"}
    BY <1>1, <1>4, <2>1, RecordIInv DEF getState
  <2>2. CASE status[j] \notin {"completed", "failed"}
    BY <1>1, <1>4, <2>2, PollAgainIInv DEF getState
  <2> QED
    BY <2>1, <2>2
<1>5. CASE pollFails(j)
  BY <1>1, <1>5, RecordIInv DEF pollFails
<1> QED
  BY <1>3, <1>4, <1>5 DEF Poll

-----------------------------------------------------------------------------
(* The jobs. *)

\* A step of a job: one that completed stays completed or is gone.
LEMMA WorkIInv ==
    ASSUME IInv, NEW j \in Jobs, UNCHANGED test,
           status' \in [Jobs -> Statuses],
           \A i \in Jobs \ {j} : status'[i] = status[i] /\ phase'[i] = phase[i],
           status[j] \in {"completed", "gone"} => status'[j] \in {"completed", "gone"},
           phase'[j] # "idle" => status'[j] = "active",
           phase' \in [Jobs -> {"idle", "dispatched", "saving"}],
           result' \in [Jobs -> {None, "echo", "answer", "error"}],
           cache' \in {None, "echo", "answer"},
           history' \in [Lists -> Seq(Jobs)]
    PROVE  IInv'
<1> USE DEF test
<1>1. TypeOK'
  BY DEF IInv, TypeOK
<1>2. Successes' = Successes /\ Failures' = Failures
  BY DEF Successes, Failures
<1>3. CountedOnce'
  BY <1>2 DEF IInv, CountedOnce
<1>4. ReportIsTrue'
  <2>1. Successes \subseteq Jobs
    BY DEF Successes, Jobs
  <2>2. \A i \in Successes : status'[i] \in {"completed", "gone"}
    BY <2>1 DEF IInv, ReportIsTrue
  <2> QED
    BY <1>2, <2>2 DEF IInv, ReportIsTrue
<1>5. SentInOrder' /\ PollsLeft'
  BY DEF IInv, SentInOrder, PollsLeft
<1>6. WorkedIsActive'
  BY DEF IInv, WorkedIsActive
<1> QED
  BY <1>1, <1>3, <1>4, <1>5, <1>6 DEF IInv

LEMMA ExecuteAddIInv ==
    ASSUME IInv, NEW j \in TestJobs, executeAdd(j)
    PROVE  IInv'
<1>1. j \in Jobs
  BY DEF Jobs
<1>2. /\ status \in [Jobs -> Statuses] /\ "waiting" \in Statuses
      /\ status' = [status EXCEPT ![j] = "waiting"] /\ status[j] = "none"
      /\ phase' = phase
  BY DEF executeAdd, IInv, TypeOK, Statuses
<1>3. phase[j] = "idle"
  BY <1>1, <1>2 DEF IInv, WorkedIsActive
<1>4. status' \in [Jobs -> Statuses] /\ \A i \in Jobs \ {j} : status'[i] = status[i]
  BY <1>1, <1>2
<1>5. /\ UNCHANGED <<test, phase, result, cache, history>>
      /\ phase \in [Jobs -> {"idle", "dispatched", "saving"}]
      /\ result \in [Jobs -> {None, "echo", "answer", "error"}]
      /\ cache \in {None, "echo", "answer"} /\ history \in [Lists -> Seq(Jobs)]
  BY DEF executeAdd, IInv, TypeOK
<1>6. \A i \in Jobs \ {j} : status'[i] = status[i] /\ phase'[i] = phase[i]
  BY <1>2, <1>4
<1>7. /\ status[j] \in {"completed", "gone"} => status'[j] \in {"completed", "gone"}
      /\ phase'[j] # "idle" => status'[j] = "active"
  BY <1>2, <1>3
<1> QED
  BY <1>1, <1>4, <1>5, <1>6, <1>7, WorkIInv

LEMMA ProcessJobIInv ==
    ASSUME IInv, NEW j \in Jobs, processJob(j)
    PROVE  IInv'
<1>1. /\ status \in [Jobs -> Statuses] /\ "active" \in Statuses
      /\ status' = [status EXCEPT ![j] = "active"] /\ status[j] = "waiting"
  BY DEF processJob, IInv, TypeOK, Statuses
<1>2. /\ status' \in [Jobs -> Statuses] /\ status'[j] = "active"
      /\ \A i \in Jobs \ {j} : status'[i] = status[i]
  BY <1>1
<1>3. /\ phase' \in [Jobs -> {"idle", "dispatched", "saving"}]
      /\ \A i \in Jobs \ {j} : phase'[i] = phase[i]
  BY DEF processJob, IInv, TypeOK
<1>4. /\ result' \in [Jobs -> {None, "echo", "answer", "error"}]
      /\ cache' \in {None, "echo", "answer"}
  BY DEF processJob, IInv, TypeOK, Of
<1>5. UNCHANGED <<test, history>> /\ history \in [Lists -> Seq(Jobs)]
  BY DEF processJob, IInv, TypeOK
<1> QED
  BY <1>1, <1>2, <1>3, <1>4, <1>5, WorkIInv

LEMMA DispatchIInv ==
    ASSUME IInv, NEW j \in Jobs, dispatchReturns(j) \/ dispatchFails(j)
    PROVE  IInv'
<1>1. /\ UNCHANGED <<test, status, history>>
      /\ status \in [Jobs -> Statuses] /\ history \in [Lists -> Seq(Jobs)]
      /\ phase[j] = "dispatched"
  BY DEF dispatchReturns, dispatchFails, IInv, TypeOK
<1>2. status[j] = "active"
  BY <1>1 DEF IInv, WorkedIsActive
<1>3. /\ phase' \in [Jobs -> {"idle", "dispatched", "saving"}]
      /\ \A i \in Jobs \ {j} : phase'[i] = phase[i]
  BY DEF dispatchReturns, dispatchFails, IInv, TypeOK
<1>4. /\ result' \in [Jobs -> {None, "echo", "answer", "error"}]
      /\ cache' \in {None, "echo", "answer"}
  BY DEF dispatchReturns, dispatchFails, IInv, TypeOK, Of
<1> QED
  BY <1>1, <1>2, <1>3, <1>4, WorkIInv

LEMMA JobSettlesIInv ==
    ASSUME IInv, NEW j \in Jobs, jobSettles(j)
    PROVE  IInv'
<1>1. /\ phase[j] = "saving" /\ status \in [Jobs -> Statuses]
      /\ UNCHANGED <<test, cache>> /\ cache \in {None, "echo", "answer"}
  BY DEF jobSettles, IInv, TypeOK
<1>2. status[j] = "active"
  BY <1>1 DEF IInv, WorkedIsActive
<1>3. /\ status' \in [Jobs -> Statuses]
      /\ \A i \in Jobs \ {j} : status'[i] = status[i]
  BY DEF jobSettles, IInv, TypeOK, Statuses
<1>4. /\ phase' \in [Jobs -> {"idle", "dispatched", "saving"}] /\ phase'[j] = "idle"
      /\ \A i \in Jobs \ {j} : phase'[i] = phase[i]
  BY DEF jobSettles, IInv, TypeOK
<1>5. result' \in [Jobs -> {None, "echo", "answer", "error"}]
  BY DEF jobSettles, IInv, TypeOK
<1>6. history' \in [Lists -> Seq(Jobs)]
  <2>1. history \in [Lists -> Seq(Jobs)] /\ HistoryList \in Lists /\ HistoryLimit \in Nat
    BY LoadAssumption DEF IInv, TypeOK, Lists
  <2>2. <<j>> \o history[HistoryList] \in Seq(Jobs)
    BY <2>1
  <2>3. Newest(<<j>> \o history[HistoryList], HistoryLimit) \in Seq(Jobs)
    BY <2>1, <2>2, NewestType
  <2> QED
    BY <2>1, <2>3 DEF jobSettles, saveJobResult
<1> QED
  BY <1>1, <1>2, <1>3, <1>4, <1>5, <1>6, WorkIInv

LEMMA LostIInv ==
    ASSUME IInv, NEW j \in Jobs, stalls(j) \/ removed(j)
    PROVE  IInv'
<1>1. /\ UNCHANGED <<test, cache, history>> /\ status \in [Jobs -> Statuses]
      /\ cache \in {None, "echo", "answer"} /\ history \in [Lists -> Seq(Jobs)]
      /\ phase \in [Jobs -> {"idle", "dispatched", "saving"}]
      /\ result \in [Jobs -> {None, "echo", "answer", "error"}]
  BY DEF stalls, removed, IInv, TypeOK
<1>2. /\ status' \in [Jobs -> Statuses]
      /\ \A i \in Jobs \ {j} : status'[i] = status[i]
  BY <1>1 DEF stalls, removed, Statuses
<1>3. CASE stalls(j)
  <2>1. /\ status[j] = "active" /\ phase'[j] = "idle"
        /\ phase' \in [Jobs -> {"idle", "dispatched", "saving"}]
        /\ \A i \in Jobs \ {j} : phase'[i] = phase[i]
        /\ result' \in [Jobs -> {None, "echo", "answer", "error"}]
    BY <1>1, <1>3 DEF stalls
  <2> QED
    BY <1>1, <1>2, <2>1, WorkIInv
<1>4. CASE removed(j)
  <2>1. status[j] \in {"completed", "failed"} /\ status'[j] = "gone"
    BY <1>1, <1>4 DEF removed
  <2>2. phase' = phase /\ result' = result /\ phase[j] = "idle"
    BY <1>4, <2>1 DEF removed, IInv, WorkedIsActive
  <2> QED
    BY <1>1, <1>2, <2>1, <2>2, WorkIInv
<1> QED
  BY <1>3, <1>4

LEMMA CacheLosesIInv ==
    ASSUME IInv, cacheLoses
    PROVE  IInv'
<1> USE DEF cacheLoses, test
<1>1. TypeOK'
  BY DEF IInv, TypeOK
<1>2. CountedOnce' /\ ReportIsTrue'
  BY DEF IInv, CountedOnce, ReportIsTrue, Successes, Failures
<1>3. SentInOrder' /\ PollsLeft' /\ WorkedIsActive'
  BY DEF IInv, SentInOrder, PollsLeft, WorkedIsActive
<1> QED
  BY <1>1, <1>2, <1>3 DEF IInv

-----------------------------------------------------------------------------
LEMMA NextIInv == IInv /\ [Next]_vars => IInv'
<1> SUFFICES ASSUME IInv, [Next]_vars PROVE IInv'
  OBVIOUS
<1>1. CASE Drive
  BY <1>1, SendBatchIInv, BatchSettlesIInv, AwaitJobsIInv DEF Drive
<1>2. ASSUME NEW j \in TestJobs, Adding(j) PROVE IInv'
  BY <1>2, ExecuteAddIInv, AddingIInv DEF Adding
<1>3. ASSUME NEW j \in TestJobs, Poll(j) PROVE IInv'
  BY <1>3, PollIInv
<1>4. ASSUME NEW j \in Jobs, Process(j) PROVE IInv'
  BY <1>4, ProcessJobIInv, DispatchIInv, JobSettlesIInv, LostIInv DEF Process
<1>5. CASE cleanupTest
  BY <1>5, CleanupTestIInv
<1>6. CASE cacheLoses
  BY <1>6, CacheLosesIInv
<1>7. CASE UNCHANGED vars
  BY <1>7 DEF vars, test, work, IInv, TypeOK, CountedOnce, ReportIsTrue, Successes,
              Failures, SentInOrder, PollsLeft, WorkedIsActive
<1> QED
  BY <1>1, <1>2, <1>3, <1>4, <1>5, <1>6, <1>7 DEF Next

LEMMA AlwaysIInv == Spec => []IInv
BY InitIInv, NextIInv, PTL DEF Spec

(* Every variable keeps its type: no job is polled more often than the     *)
(* limit, and no more jobs are created than were asked for.                *)
THEOREM TypeCorrect == Spec => []TypeOK
<1>1. IInv => TypeOK
  BY DEF IInv
<1> QED
  BY <1>1, AlwaysIInv, PTL

(* The counters are the numbers of the jobs recorded either way, whatever   *)
(* races the polls (recordJobResult, trackJobCompletion).                  *)
THEOREM EveryJobCountedOnce == Spec => []CountedOnce
<1>1. IInv => CountedOnce
  BY DEF IInv
<1> QED
  BY <1>1, AlwaysIInv, PTL

(* A job recorded as a success has completed, and a test that ends before   *)
(* its time has recorded all its jobs (waitForJobsCompletion).             *)
THEOREM ReportIsAlwaysTrue == Spec => []ReportIsTrue
<1>1. IInv => ReportIsTrue
  BY DEF IInv
<1> QED
  BY <1>1, AlwaysIInv, PTL
=============================================================================
