------------------------- MODULE JobLifecycleProofs -------------------------
(***************************************************************************)
(* Proofs about JobLifecycle for every set of requests and slots, every    *)
(* number of attempts, stalls and faults: what is recorded and told, then  *)
(* how often a request is executed and what a job is completed with.       *)
(***************************************************************************)
EXTENDS JobLifecycle, FiniteSetTheorems, TLAPS

\* The next-state relation preserves the types.
LEMMA TypeStep == TypeOK /\ [Next]_vars => TypeOK'
<1>. SUFFICES ASSUME TypeOK, [Next]_vars PROVE TypeOK'
  OBVIOUS
<1>. USE JobAssumption DEF TypeOK, RequestStates, JobStates, Phases, Outcomes,
         gateway, slots, bullmq, service
<1>1. ASSUME NEW r \in Requests, intercept(r) PROVE TypeOK'
  BY <1>1 DEF intercept, Advance, handleDirectly
<1>2. ASSUME NEW r \in Requests, queueChosen(r) PROVE TypeOK'
  BY <1>2 DEF queueChosen, Advance, handleDirectly
<1>3. ASSUME NEW r \in Requests, jobAdded(r) PROVE TypeOK'
  BY <1>3 DEF jobAdded, Advance
<1>4. ASSUME NEW r \in Requests, accept(r) PROVE TypeOK'
  BY <1>4 DEF accept, Advance
<1>5. ASSUME NEW r \in Requests, addFails(r) PROVE TypeOK'
  BY <1>5 DEF addFails, Advance, handleDirectly
<1>6. ASSUME NEW r \in Requests, orphanExecutes(r) PROVE TypeOK'
  BY <1>6 DEF orphanExecutes
<1>7. ASSUME NEW r \in Requests, retryDue(r) PROVE TypeOK'
  BY <1>7 DEF retryDue
<1>8. ASSUME NEW r \in Requests, notifyCompleted(r) PROVE TypeOK'
  BY <1>8 DEF notifyCompleted
<1>9. ASSUME NEW r \in Requests, lockExpires(r) PROVE TypeOK'
  BY <1>9 DEF lockExpires, Fault
<1>10. ASSUME NEW r \in Requests, recoverStalled(r) PROVE TypeOK'
  BY <1>10 DEF recoverStalled
<1>11. ASSUME NEW s \in Slots, takeJob(s) PROVE TypeOK'
  BY <1>11 DEF takeJob, Goto
<1>12. ASSUME NEW s \in Slots, serviceExecutes(s) PROVE TypeOK'
  BY <1>12 DEF serviceExecutes, Goto
<1>13. ASSUME NEW s \in Slots, processFromCache(s) PROVE TypeOK'
  BY <1>13 DEF processFromCache, tryGetFromCache, Goto, EndAttempt
<1>14. ASSUME NEW s \in Slots, dispatch(s) PROVE TypeOK'
  BY <1>14 DEF dispatch, Goto, EndAttempt
<1>15. ASSUME NEW s \in Slots, answerArrives(s) PROVE TypeOK'
  BY <1>15 DEF answerArrives, Goto, EndAttempt
<1>16. ASSUME NEW s \in Slots, dispatchFails(s) PROVE TypeOK'
  BY <1>16 DEF dispatchFails, Goto, EndAttempt
<1>17. ASSUME NEW s \in Slots, tryStoreInCache(s) PROVE TypeOK'
  BY <1>17 DEF tryStoreInCache, Goto
<1>18. ASSUME NEW s \in Slots, saveJobResult(s) PROVE TypeOK'
  BY <1>18 DEF saveJobResult, Goto
<1>19. ASSUME NEW s \in Slots, jobReturns(s) PROVE TypeOK'
  BY <1>19 DEF jobReturns, Goto, Release
<1>20. ASSUME NEW s \in Slots, jobThrows(s) PROVE TypeOK'
  BY <1>20 DEF jobThrows, Goto, Release
<1>21. CASE toggleQueue
  BY <1>21 DEF toggleQueue
<1>22. CASE cacheLoses
  BY <1>22 DEF cacheLoses
<1>23. CASE crash
  <2>1. \A r \in Requests : Cardinality(Sent(r)) \in Nat
    BY FS_Subset, FS_CardinalityType DEF Sent
  <2>2. orphans' \in [Requests -> Nat]
    BY <1>23, <2>1 DEF crash
  <2>3. queueEnabled' \in BOOLEAN
    BY <1>23, Zenon DEF crash, InitiallyEnabled
  <2>4. cached' \in Requests \cup {None} /\ returned' \in [Requests -> Requests \cup {None}]
    BY <1>23 DEF crash
  <2>5. request' \in [Requests -> RequestStates]
    BY <1>23 DEF crash
  <2>6. faults' \in 0..MaxFaults
    BY <1>23 DEF crash, Fault
  <2>7. tainted' \in SUBSET Requests /\ notices' \in SUBSET Requests
    BY <1>23 DEF crash
  <2>8. lock' \in [Requests -> Slots \cup {None}]
    BY <1>23 DEF crash
  <2>9. status' \in [Requests -> {"none", "queued", "completed"}]
    BY <1>23 DEF crash
  <2>10. /\ phase' \in [Slots -> Phases]
         /\ job' \in [Slots -> Requests \cup {None}]
         /\ \A s \in Slots : phase'[s] = "idle" <=> job'[s] = None
         /\ outcome' \in [Slots -> Outcomes]
         /\ result' \in [Slots -> Requests \cup {None}]
    BY <1>23 DEF crash
  <2>. QED
    BY <1>23, <2>2, <2>3, <2>4, <2>5, <2>6, <2>7, <2>8, <2>9, <2>10 DEF crash
<1>24. CASE UNCHANGED vars
  BY <1>24 DEF vars
<1>25. ASSUME NEW r \in Requests, addEcho(r) PROVE TypeOK'
  BY <1>25 DEF addEcho, Advance
<1>. QED
  BY <1>1, <1>2, <1>3, <1>4, <1>5, <1>6, <1>7, <1>8, <1>9, <1>10, <1>11,
     <1>12, <1>13, <1>14, <1>15, <1>16, <1>17, <1>18, <1>19, <1>20, <1>21,
     <1>22, <1>23, <1>24, <1>25
     DEF Next, Slot

\* The initial state has the types.
LEMMA TypeInit == Init => TypeOK
<1>. SUFFICES ASSUME Init PROVE TypeOK
  OBVIOUS
<1>1. queueEnabled \in BOOLEAN
  BY Zenon DEF Init, InitiallyEnabled
<1>. USE JobAssumption DEF Init, RequestStates, JobStates, Phases, Outcomes
<1>2. /\ phase \in [Slots -> Phases]
      /\ job \in [Slots -> Requests \cup {None}]
      /\ \A s \in Slots : phase[s] = "idle" <=> job[s] = None
      /\ outcome \in [Slots -> Outcomes]
      /\ result \in [Slots -> Requests \cup {None}]
  OBVIOUS
<1>3. /\ request \in [Requests -> RequestStates]
      /\ status \in [Requests -> {"none", "queued", "completed"}]
      /\ state \in [Requests -> JobStates]
      /\ lock \in [Requests -> Slots \cup {None}]
      /\ record \in [Requests -> Outcomes]
  OBVIOUS
<1>4. /\ attemptsMade \in [Requests -> Nat]
      /\ stalls \in [Requests -> 0..MaxStalled]
      /\ executions \in [Requests -> Nat]
      /\ orphans \in [Requests -> Nat]
  OBVIOUS
<1>5. cached \in Requests \cup {None} /\ returned \in [Requests -> Requests \cup {None}]
  OBVIOUS
<1>6. notices \in SUBSET Requests /\ tainted \in SUBSET Requests
  BY Zenon
<1>7. faults \in 0..MaxFaults
  OBVIOUS
<1>. QED
  BY <1>1, <1>2, <1>3, <1>4, <1>5, <1>6, <1>7 DEF TypeOK

\* The state is always of the expected type; in particular a slot is idle
\* exactly when it has no job, and stalls stay within maxStalledCount.
THEOREM TypeCorrect == Spec => []TypeOK
  BY TypeInit, TypeStep, PTL DEF Spec


-----------------------------------------------------------------------------
(***************************************************************************)
(* Who works on what: the inductive invariant.                             *)
(***************************************************************************)

\* A lock names the slot that runs the job.
LockNamesWorker ==
    \A r \in Requests : lock[r] # None => job[lock[r]] = r /\ state[r] = "active"

\* Until a fault, whoever runs a job holds its lock, and an active job is run.
WorkerHoldsLock ==
    \A s \in Slots : job[s] # None /\ job[s] \notin tainted => lock[job[s]] = s
ActiveIsLocked ==
    \A r \in Requests \ tainted : state[r] = "active" => lock[r] # None

Ownership == LockNamesWorker /\ WorkerHoldsLock /\ ActiveIsLocked

\* BullMQ learns of the job between "adding" and "added".
Admission ==
    \A r \in Requests :
        /\ request[r] \in {"new", "routing", "adding"} => state[r] = "absent"
        /\ request[r] \in {"added", "accepted"} => state[r] # "absent"

\* The record is in place before processJob() returns or throws.
RecordedFirst ==
    \A s \in Slots :
        phase[s] = "finishing" /\ job[s] \notin tainted => record[job[s]] = outcome[s]

\* Every step keeps locks, workers and BullMQ in agreement.
LEMMA OwnershipStep == TypeOK /\ Ownership /\ Admission /\ [Next]_vars => Ownership'
<1>. SUFFICES ASSUME TypeOK /\ Ownership /\ Admission, [Next]_vars PROVE Ownership'
  OBVIOUS
<1>. USE JobAssumption DEF TypeOK, Admission, Ownership, LockNamesWorker, WorkerHoldsLock,
         ActiveIsLocked, Outcomes,
         gateway, slots, bullmq, service
<1>1. ASSUME NEW r \in Requests, intercept(r) PROVE Ownership'
  BY <1>1 DEF intercept, Advance, handleDirectly
<1>2. ASSUME NEW r \in Requests, queueChosen(r) PROVE Ownership'
  BY <1>2 DEF queueChosen, Advance, handleDirectly
<1>3. ASSUME NEW r \in Requests, jobAdded(r) PROVE Ownership'
  BY <1>3 DEF jobAdded, Advance
<1>4. ASSUME NEW r \in Requests, accept(r) PROVE Ownership'
  BY <1>4 DEF accept, Advance
<1>5. ASSUME NEW r \in Requests, addFails(r) PROVE Ownership'
  BY <1>5 DEF addFails, Advance, handleDirectly
<1>6. ASSUME NEW r \in Requests, orphanExecutes(r) PROVE Ownership'
  BY <1>6 DEF orphanExecutes
<1>7. ASSUME NEW r \in Requests, retryDue(r) PROVE Ownership'
  BY <1>7 DEF retryDue
<1>8. ASSUME NEW r \in Requests, notifyCompleted(r) PROVE Ownership'
  BY <1>8 DEF notifyCompleted
<1>9. ASSUME NEW r \in Requests, lockExpires(r) PROVE Ownership'
  BY <1>9 DEF lockExpires, Fault
<1>10. ASSUME NEW r \in Requests, recoverStalled(r) PROVE Ownership'
  BY <1>10 DEF recoverStalled
<1>11. ASSUME NEW s \in Slots, takeJob(s) PROVE Ownership'
  BY <1>11 DEF takeJob, Goto
<1>12. ASSUME NEW s \in Slots, serviceExecutes(s) PROVE Ownership'
  BY <1>12 DEF serviceExecutes, Goto
<1>13. ASSUME NEW s \in Slots, processFromCache(s) PROVE Ownership'
  BY <1>13 DEF processFromCache, tryGetFromCache, Goto, EndAttempt
<1>14. ASSUME NEW s \in Slots, dispatch(s) PROVE Ownership'
  BY <1>14 DEF dispatch, Goto, EndAttempt
<1>15. ASSUME NEW s \in Slots, answerArrives(s) PROVE Ownership'
  BY <1>15 DEF answerArrives, Goto, EndAttempt
<1>16. ASSUME NEW s \in Slots, dispatchFails(s) PROVE Ownership'
  BY <1>16 DEF dispatchFails, Goto, EndAttempt
<1>17. ASSUME NEW s \in Slots, tryStoreInCache(s) PROVE Ownership'
  BY <1>17 DEF tryStoreInCache, Goto
<1>18. ASSUME NEW s \in Slots, saveJobResult(s) PROVE Ownership'
  BY <1>18 DEF saveJobResult, Goto
<1>19. ASSUME NEW s \in Slots, jobReturns(s) PROVE Ownership'
  BY <1>19 DEF jobReturns, Goto, Release
<1>20. ASSUME NEW s \in Slots, jobThrows(s) PROVE Ownership'
  BY <1>20 DEF jobThrows, Goto, Release
<1>21. CASE toggleQueue
  BY <1>21 DEF toggleQueue
<1>22. CASE cacheLoses
  BY <1>22 DEF cacheLoses
<1>23. CASE crash
  BY <1>23 DEF crash, Fault
<1>24. CASE UNCHANGED vars
  BY <1>24 DEF vars
<1>25. ASSUME NEW r \in Requests, addEcho(r) PROVE Ownership'
  BY <1>25 DEF addEcho, Advance
<1>. QED
  BY <1>1, <1>2, <1>3, <1>4, <1>5, <1>6, <1>7, <1>8, <1>9, <1>10, <1>11,
     <1>12, <1>13, <1>14, <1>15, <1>16, <1>17, <1>18, <1>19, <1>20, <1>21, <1>22,
     <1>23, <1>24, <1>25
     DEF Next, Slot

\* Only jobAdded creates a job, and it does so between the two states.
LEMMA AdmissionStep == TypeOK /\ Ownership /\ Admission /\ [Next]_vars => Admission'
<1>. SUFFICES ASSUME TypeOK /\ Ownership /\ Admission, [Next]_vars PROVE Admission'
  OBVIOUS
<1>. USE JobAssumption DEF TypeOK, Admission, Ownership,
         LockNamesWorker,
         gateway, slots, bullmq, service
<1>1. ASSUME NEW r \in Requests, intercept(r) PROVE Admission'
  BY <1>1 DEF intercept, Advance, handleDirectly
<1>2. ASSUME NEW r \in Requests, queueChosen(r) PROVE Admission'
  BY <1>2 DEF queueChosen, Advance, handleDirectly
<1>3. ASSUME NEW r \in Requests, jobAdded(r) PROVE Admission'
  BY <1>3 DEF jobAdded, Advance
<1>4. ASSUME NEW r \in Requests, accept(r) PROVE Admission'
  BY <1>4 DEF accept, Advance
<1>5. ASSUME NEW r \in Requests, addFails(r) PROVE Admission'
  BY <1>5 DEF addFails, Advance, handleDirectly
<1>6. ASSUME NEW r \in Requests, orphanExecutes(r) PROVE Admission'
  BY <1>6 DEF orphanExecutes
<1>7. ASSUME NEW r \in Requests, retryDue(r) PROVE Admission'
  BY <1>7 DEF retryDue
<1>8. ASSUME NEW r \in Requests, notifyCompleted(r) PROVE Admission'
  BY <1>8 DEF notifyCompleted
<1>9. ASSUME NEW r \in Requests, lockExpires(r) PROVE Admission'
  BY <1>9 DEF lockExpires, Fault
<1>10. ASSUME NEW r \in Requests, recoverStalled(r) PROVE Admission'
  BY <1>10 DEF recoverStalled
<1>11. ASSUME NEW s \in Slots, takeJob(s) PROVE Admission'
  BY <1>11 DEF takeJob, Goto
<1>12. ASSUME NEW s \in Slots, serviceExecutes(s) PROVE Admission'
  BY <1>12 DEF serviceExecutes, Goto
<1>13. ASSUME NEW s \in Slots, processFromCache(s) PROVE Admission'
  BY <1>13 DEF processFromCache, tryGetFromCache, Goto, EndAttempt
<1>14. ASSUME NEW s \in Slots, dispatch(s) PROVE Admission'
  BY <1>14 DEF dispatch, Goto, EndAttempt
<1>15. ASSUME NEW s \in Slots, answerArrives(s) PROVE Admission'
  BY <1>15 DEF answerArrives, Goto, EndAttempt
<1>16. ASSUME NEW s \in Slots, dispatchFails(s) PROVE Admission'
  BY <1>16 DEF dispatchFails, Goto, EndAttempt
<1>17. ASSUME NEW s \in Slots, tryStoreInCache(s) PROVE Admission'
  BY <1>17 DEF tryStoreInCache, Goto
<1>18. ASSUME NEW s \in Slots, saveJobResult(s) PROVE Admission'
  BY <1>18 DEF saveJobResult, Goto
<1>19. ASSUME NEW s \in Slots, jobReturns(s) PROVE Admission'
  BY <1>19 DEF jobReturns, Goto, Release
<1>20. ASSUME NEW s \in Slots, jobThrows(s) PROVE Admission'
  BY <1>20 DEF jobThrows, Goto, Release
<1>21. CASE toggleQueue
  BY <1>21 DEF toggleQueue
<1>22. CASE cacheLoses
  BY <1>22 DEF cacheLoses
<1>23. CASE crash
  BY <1>23 DEF crash, Fault
<1>24. CASE UNCHANGED vars
  BY <1>24 DEF vars
<1>25. ASSUME NEW r \in Requests, addEcho(r) PROVE Admission'
  BY <1>25 DEF addEcho, Advance
<1>. QED
  BY <1>1, <1>2, <1>3, <1>4, <1>5, <1>6, <1>7, <1>8, <1>9, <1>10, <1>11,
     <1>12, <1>13, <1>14, <1>15, <1>16, <1>17, <1>18, <1>19, <1>20, <1>21, <1>22,
     <1>23, <1>24, <1>25
     DEF Next, Slot

\* Nobody else writes the record of a job while its slot is finishing.
LEMMA RecordedFirstStep == TypeOK /\ Ownership /\ RecordedFirst /\ [Next]_vars => RecordedFirst'
<1>. SUFFICES ASSUME TypeOK /\ Ownership /\ RecordedFirst, [Next]_vars PROVE RecordedFirst'
  OBVIOUS
<1>. USE JobAssumption DEF TypeOK, RecordedFirst, Ownership,
         LockNamesWorker, WorkerHoldsLock,
         gateway, slots, bullmq, service
<1>1. ASSUME NEW r \in Requests, intercept(r) PROVE RecordedFirst'
  BY <1>1 DEF intercept, Advance, handleDirectly
<1>2. ASSUME NEW r \in Requests, queueChosen(r) PROVE RecordedFirst'
  BY <1>2 DEF queueChosen, Advance, handleDirectly
<1>3. ASSUME NEW r \in Requests, jobAdded(r) PROVE RecordedFirst'
  BY <1>3 DEF jobAdded, Advance
<1>4. ASSUME NEW r \in Requests, accept(r) PROVE RecordedFirst'
  BY <1>4 DEF accept, Advance
<1>5. ASSUME NEW r \in Requests, addFails(r) PROVE RecordedFirst'
  BY <1>5 DEF addFails, Advance, handleDirectly
<1>6. ASSUME NEW r \in Requests, orphanExecutes(r) PROVE RecordedFirst'
  BY <1>6 DEF orphanExecutes
<1>7. ASSUME NEW r \in Requests, retryDue(r) PROVE RecordedFirst'
  BY <1>7 DEF retryDue
<1>8. ASSUME NEW r \in Requests, notifyCompleted(r) PROVE RecordedFirst'
  BY <1>8 DEF notifyCompleted
<1>9. ASSUME NEW r \in Requests, lockExpires(r) PROVE RecordedFirst'
  BY <1>9 DEF lockExpires, Fault
<1>10. ASSUME NEW r \in Requests, recoverStalled(r) PROVE RecordedFirst'
  BY <1>10 DEF recoverStalled
<1>11. ASSUME NEW s \in Slots, takeJob(s) PROVE RecordedFirst'
  BY <1>11 DEF takeJob, Goto
<1>12. ASSUME NEW s \in Slots, serviceExecutes(s) PROVE RecordedFirst'
  BY <1>12 DEF serviceExecutes, Goto
<1>13. ASSUME NEW s \in Slots, processFromCache(s) PROVE RecordedFirst'
  BY <1>13 DEF processFromCache, tryGetFromCache, Goto, EndAttempt
<1>14. ASSUME NEW s \in Slots, dispatch(s) PROVE RecordedFirst'
  BY <1>14 DEF dispatch, Goto, EndAttempt
<1>15. ASSUME NEW s \in Slots, answerArrives(s) PROVE RecordedFirst'
  BY <1>15 DEF answerArrives, Goto, EndAttempt
<1>16. ASSUME NEW s \in Slots, dispatchFails(s) PROVE RecordedFirst'
  BY <1>16 DEF dispatchFails, Goto, EndAttempt
<1>17. ASSUME NEW s \in Slots, tryStoreInCache(s) PROVE RecordedFirst'
  BY <1>17 DEF tryStoreInCache, Goto
<1>18. ASSUME NEW s \in Slots, saveJobResult(s) PROVE RecordedFirst'
  BY <1>18 DEF saveJobResult, Goto
<1>19. ASSUME NEW s \in Slots, jobReturns(s) PROVE RecordedFirst'
  BY <1>19 DEF jobReturns, Goto, Release
<1>20. ASSUME NEW s \in Slots, jobThrows(s) PROVE RecordedFirst'
  BY <1>20 DEF jobThrows, Goto, Release
<1>21. CASE toggleQueue
  BY <1>21 DEF toggleQueue
<1>22. CASE cacheLoses
  BY <1>22 DEF cacheLoses
<1>23. CASE crash
  BY <1>23 DEF crash, Fault
<1>24. CASE UNCHANGED vars
  BY <1>24 DEF vars
<1>25. ASSUME NEW r \in Requests, addEcho(r) PROVE RecordedFirst'
  BY <1>25 DEF addEcho, Advance
<1>. QED
  BY <1>1, <1>2, <1>3, <1>4, <1>5, <1>6, <1>7, <1>8, <1>9, <1>10, <1>11,
     <1>12, <1>13, <1>14, <1>15, <1>16, <1>17, <1>18, <1>19, <1>20, <1>21, <1>22,
     <1>23, <1>24, <1>25
     DEF Next, Slot

\* A job settles with the outcome of the slot that holds its lock.
LEMMA RecordMatchesStep == TypeOK /\ Ownership /\ RecordedFirst /\ Admission /\ RecordMatchesOutcome /\ [Next]_vars => RecordMatchesOutcome'
<1>. SUFFICES ASSUME TypeOK /\ Ownership /\ RecordedFirst /\ Admission /\ RecordMatchesOutcome, [Next]_vars PROVE RecordMatchesOutcome'
  OBVIOUS
<1>. USE JobAssumption DEF TypeOK, Ownership, LockNamesWorker, WorkerHoldsLock, ActiveIsLocked,
         RecordedFirst, Admission, RecordMatchesOutcome, Settled,
         gateway, slots, bullmq, service
<1>1. ASSUME NEW r \in Requests, intercept(r) PROVE RecordMatchesOutcome'
  BY <1>1 DEF intercept, Advance, handleDirectly
<1>2. ASSUME NEW r \in Requests, queueChosen(r) PROVE RecordMatchesOutcome'
  BY <1>2 DEF queueChosen, Advance, handleDirectly
<1>3. ASSUME NEW r \in Requests, jobAdded(r) PROVE RecordMatchesOutcome'
  BY <1>3 DEF jobAdded, Advance
<1>4. ASSUME NEW r \in Requests, accept(r) PROVE RecordMatchesOutcome'
  BY <1>4 DEF accept, Advance
<1>5. ASSUME NEW r \in Requests, addFails(r) PROVE RecordMatchesOutcome'
  BY <1>5 DEF addFails, Advance, handleDirectly
<1>6. ASSUME NEW r \in Requests, orphanExecutes(r) PROVE RecordMatchesOutcome'
  BY <1>6 DEF orphanExecutes
<1>7. ASSUME NEW r \in Requests, retryDue(r) PROVE RecordMatchesOutcome'
  BY <1>7 DEF retryDue
<1>8. ASSUME NEW r \in Requests, notifyCompleted(r) PROVE RecordMatchesOutcome'
  BY <1>8 DEF notifyCompleted
<1>9. ASSUME NEW r \in Requests, lockExpires(r) PROVE RecordMatchesOutcome'
  BY <1>9 DEF lockExpires, Fault
<1>10. ASSUME NEW r \in Requests, recoverStalled(r) PROVE RecordMatchesOutcome'
  BY <1>10 DEF recoverStalled
<1>11. ASSUME NEW s \in Slots, takeJob(s) PROVE RecordMatchesOutcome'
  BY <1>11 DEF takeJob, Goto
<1>12. ASSUME NEW s \in Slots, serviceExecutes(s) PROVE RecordMatchesOutcome'
  BY <1>12 DEF serviceExecutes, Goto
<1>13. ASSUME NEW s \in Slots, processFromCache(s) PROVE RecordMatchesOutcome'
  BY <1>13 DEF processFromCache, tryGetFromCache, Goto, EndAttempt
<1>14. ASSUME NEW s \in Slots, dispatch(s) PROVE RecordMatchesOutcome'
  BY <1>14 DEF dispatch, Goto, EndAttempt
<1>15. ASSUME NEW s \in Slots, answerArrives(s) PROVE RecordMatchesOutcome'
  BY <1>15 DEF answerArrives, Goto, EndAttempt
<1>16. ASSUME NEW s \in Slots, dispatchFails(s) PROVE RecordMatchesOutcome'
  BY <1>16 DEF dispatchFails, Goto, EndAttempt
<1>17. ASSUME NEW s \in Slots, tryStoreInCache(s) PROVE RecordMatchesOutcome'
  BY <1>17 DEF tryStoreInCache, Goto
<1>18. ASSUME NEW s \in Slots, saveJobResult(s) PROVE RecordMatchesOutcome'
  BY <1>18 DEF saveJobResult, Goto
<1>19. ASSUME NEW s \in Slots, jobReturns(s) PROVE RecordMatchesOutcome'
  BY <1>19 DEF jobReturns, Goto, Release
<1>20. ASSUME NEW s \in Slots, jobThrows(s) PROVE RecordMatchesOutcome'
  BY <1>20 DEF jobThrows, Goto, Release
<1>21. CASE toggleQueue
  BY <1>21 DEF toggleQueue
<1>22. CASE cacheLoses
  BY <1>22 DEF cacheLoses
<1>23. CASE crash
  BY <1>23 DEF crash, Fault
<1>24. CASE UNCHANGED vars
  BY <1>24 DEF vars
<1>25. ASSUME NEW r \in Requests, addEcho(r) PROVE RecordMatchesOutcome'
  BY <1>25 DEF addEcho, Advance
<1>. QED
  BY <1>1, <1>2, <1>3, <1>4, <1>5, <1>6, <1>7, <1>8, <1>9, <1>10, <1>11,
     <1>12, <1>13, <1>14, <1>15, <1>16, <1>17, <1>18, <1>19, <1>20, <1>21, <1>22,
     <1>23, <1>24, <1>25
     DEF Next, Slot

\* A notice is emitted as the job completes, and nothing undoes that.
LEMMA StatusStep == TypeOK /\ Ownership /\ Admission /\ StatusTruthful /\ [Next]_vars => StatusTruthful'
<1>. SUFFICES ASSUME TypeOK /\ Ownership /\ Admission /\ StatusTruthful, [Next]_vars PROVE StatusTruthful'
  OBVIOUS
<1>. USE JobAssumption DEF TypeOK, Ownership, LockNamesWorker, Admission, StatusTruthful,
         gateway, slots, bullmq, service
<1>1. ASSUME NEW r \in Requests, intercept(r) PROVE StatusTruthful'
  BY <1>1 DEF intercept, Advance, handleDirectly
<1>2. ASSUME NEW r \in Requests, queueChosen(r) PROVE StatusTruthful'
  BY <1>2 DEF queueChosen, Advance, handleDirectly
<1>3. ASSUME NEW r \in Requests, jobAdded(r) PROVE StatusTruthful'
  BY <1>3 DEF jobAdded, Advance
<1>4. ASSUME NEW r \in Requests, accept(r) PROVE StatusTruthful'
  BY <1>4 DEF accept, Advance
<1>5. ASSUME NEW r \in Requests, addFails(r) PROVE StatusTruthful'
  BY <1>5 DEF addFails, Advance, handleDirectly
<1>6. ASSUME NEW r \in Requests, orphanExecutes(r) PROVE StatusTruthful'
  BY <1>6 DEF orphanExecutes
<1>7. ASSUME NEW r \in Requests, retryDue(r) PROVE StatusTruthful'
  BY <1>7 DEF retryDue
<1>8. ASSUME NEW r \in Requests, notifyCompleted(r) PROVE StatusTruthful'
  BY <1>8 DEF notifyCompleted
<1>9. ASSUME NEW r \in Requests, lockExpires(r) PROVE StatusTruthful'
  BY <1>9 DEF lockExpires, Fault
<1>10. ASSUME NEW r \in Requests, recoverStalled(r) PROVE StatusTruthful'
  BY <1>10 DEF recoverStalled
<1>11. ASSUME NEW s \in Slots, takeJob(s) PROVE StatusTruthful'
  BY <1>11 DEF takeJob, Goto
<1>12. ASSUME NEW s \in Slots, serviceExecutes(s) PROVE StatusTruthful'
  BY <1>12 DEF serviceExecutes, Goto
<1>13. ASSUME NEW s \in Slots, processFromCache(s) PROVE StatusTruthful'
  BY <1>13 DEF processFromCache, tryGetFromCache, Goto, EndAttempt
<1>14. ASSUME NEW s \in Slots, dispatch(s) PROVE StatusTruthful'
  BY <1>14 DEF dispatch, Goto, EndAttempt
<1>15. ASSUME NEW s \in Slots, answerArrives(s) PROVE StatusTruthful'
  BY <1>15 DEF answerArrives, Goto, EndAttempt
<1>16. ASSUME NEW s \in Slots, dispatchFails(s) PROVE StatusTruthful'
  BY <1>16 DEF dispatchFails, Goto, EndAttempt
<1>17. ASSUME NEW s \in Slots, tryStoreInCache(s) PROVE StatusTruthful'
  BY <1>17 DEF tryStoreInCache, Goto
<1>18. ASSUME NEW s \in Slots, saveJobResult(s) PROVE StatusTruthful'
  BY <1>18 DEF saveJobResult, Goto
<1>19. ASSUME NEW s \in Slots, jobReturns(s) PROVE StatusTruthful'
  BY <1>19 DEF jobReturns, Goto, Release
<1>20. ASSUME NEW s \in Slots, jobThrows(s) PROVE StatusTruthful'
  BY <1>20 DEF jobThrows, Goto, Release
<1>21. CASE toggleQueue
  BY <1>21 DEF toggleQueue
<1>22. CASE cacheLoses
  BY <1>22 DEF cacheLoses
<1>23. CASE crash
  BY <1>23 DEF crash, Fault
<1>24. CASE UNCHANGED vars
  BY <1>24 DEF vars
<1>25. ASSUME NEW r \in Requests, addEcho(r) PROVE StatusTruthful'
  BY <1>25 DEF addEcho, Advance
<1>. QED
  BY <1>1, <1>2, <1>3, <1>4, <1>5, <1>6, <1>7, <1>8, <1>9, <1>10, <1>11,
     <1>12, <1>13, <1>14, <1>15, <1>16, <1>17, <1>18, <1>19, <1>20, <1>21, <1>22,
     <1>23, <1>24, <1>25
     DEF Next, Slot


-----------------------------------------------------------------------------
\* The invariants above, together, are inductive.
IInv == TypeOK /\ Ownership /\ Admission /\ RecordedFirst /\ RecordMatchesOutcome /\ StatusTruthful

\* The inductive invariant holds throughout.
THEOREM Inductive == Spec => []IInv
<1>1. Init => TypeOK
  BY TypeInit
<1>2. Init => Ownership /\ Admission /\ RecordedFirst /\ RecordMatchesOutcome /\ StatusTruthful
  BY JobAssumption
     DEF Init, Ownership, LockNamesWorker, WorkerHoldsLock, ActiveIsLocked, Admission,
         RecordedFirst, RecordMatchesOutcome, Settled, StatusTruthful
<1>3. IInv /\ [Next]_vars => IInv'
  BY TypeStep, OwnershipStep, AdmissionStep, RecordedFirstStep, RecordMatchesStep, StatusStep
     DEF IInv
<1>. QED
  BY <1>1, <1>2, <1>3, PTL DEF Spec, IInv

\* The record that saveJobResult() leaves behind tells how the job settled,
\* unless a lock was lost or the save failed.
THEOREM RecordsMatch == Spec => []RecordMatchesOutcome
  BY Inductive, PTL DEF IInv

\* Without a lost lock no two slots ever run processJob() on one job.
THEOREM OneWorkerPerJob == Spec => []NoTwoWorkers
<1>1. IInv => NoTwoWorkers
  BY DEF IInv, TypeOK, Ownership, WorkerHoldsLock, NoTwoWorkers
<1>. QED
  BY <1>1, Inductive, PTL

\* Clients are told "completed" only of jobs that BullMQ completed.
THEOREM StatusIsTruthful == Spec => []StatusTruthful
  BY Inductive, PTL DEF IInv

\* The reply with the job id is sent only once the job is in BullMQ.
THEOREM AcceptedAreQueued == Spec => []AcceptedIsQueued
<1>1. IInv => AcceptedIsQueued
  BY DEF IInv, Admission, AcceptedIsQueued
<1>. QED
  BY <1>1, Inductive, PTL

-----------------------------------------------------------------------------
(***************************************************************************)
(* Executions are paid for.  The inductive form counts what may still be   *)
(* executed: messages nobody waits for, and attempts without an answer.    *)
(***************************************************************************)
Unanswered(r) ==
    {s \in Slots : job[s] = r /\ phase[s] \in {"lookup", "dispatch", "sent"}}

Started(r) == IF state[r] \in {"active", "completed", "failed"} THEN 1 ELSE 0
Direct(r) == IF request[r] = "direct" THEN 1 ELSE 0

Used(r) == executions[r] + orphans[r] + Cardinality(Unanswered(r))
Paid(r) == attemptsMade[r] + stalls[r] + Started(r) + Direct(r)
Accounted == \A r \in Requests : Used(r) <= Paid(r)

\* The slots without an answer are finitely many, before and after a step.
LEMMA UnansweredCount ==
    ASSUME NEW r
    PROVE  /\ IsFiniteSet(Unanswered(r)) /\ Cardinality(Unanswered(r)) \in Nat
           /\ IsFiniteSet(Unanswered(r)') /\ Cardinality(Unanswered(r)') \in Nat
<1>1. Unanswered(r) \subseteq Slots /\ Unanswered(r)' \subseteq Slots
  BY DEF Unanswered
<1>. QED
  BY <1>1, JobAssumption, FS_Subset, FS_CardinalityType

\* Without a new one the number does not grow.
LEMMA NoMoreSlots ==
    ASSUME NEW r, Unanswered(r)' \subseteq Unanswered(r)
    PROVE  Cardinality(Unanswered(r)') <= Cardinality(Unanswered(r))
  BY UnansweredCount, FS_Subset

\* A slot that stops waiting for an answer is one less.
LEMMA SlotLeaves ==
    ASSUME NEW r, NEW s \in Unanswered(r), Unanswered(r)' = Unanswered(r) \ {s}
    PROVE  Cardinality(Unanswered(r)') = Cardinality(Unanswered(r)) - 1
  BY UnansweredCount, FS_RemoveElement

\* A slot that takes a job is one more.
LEMMA SlotEnters ==
    ASSUME NEW r, NEW s, s \notin Unanswered(r), Unanswered(r)' = Unanswered(r) \cup {s}
    PROVE  Cardinality(Unanswered(r)') = Cardinality(Unanswered(r)) + 1
  BY UnansweredCount, FS_AddElement

\* The sums are numbers, before and after a step.
LEMMA SumsAreNumbers ==
    ASSUME TypeOK, TypeOK', NEW r \in Requests
    PROVE  /\ {executions[r], orphans[r], attemptsMade[r], stalls[r],
               Started(r), Direct(r), Cardinality(Unanswered(r))} \subseteq Nat
           /\ {executions'[r], orphans'[r], attemptsMade'[r], stalls'[r],
               Started(r)', Direct(r)', Cardinality(Unanswered(r)')} \subseteq Nat
  BY UnansweredCount DEF TypeOK, Started, Direct

\* The requests are handled, and BullMQ and the service go on, without the
\* slots: what is executed was counted before, or is paid for.
LEMMA AccountedOutside ==
    ASSUME TypeOK, TypeOK', Admission, Accounted, UNCHANGED slots,
           NEW q \in Requests,
           \/ intercept(q) \/ queueChosen(q) \/ addEcho(q) \/ jobAdded(q) \/ accept(q) \/ addFails(q)
           \/ orphanExecutes(q) \/ retryDue(q) \/ notifyCompleted(q)
           \/ lockExpires(q) \/ recoverStalled(q)
    PROVE  Accounted'
<1>. SUFFICES ASSUME NEW r \in Requests PROVE Used(r)' <= Paid(r)'
  BY DEF Accounted
<1>1. Cardinality(Unanswered(r)') = Cardinality(Unanswered(r))
  BY DEF Unanswered, slots
<1>2. Used(r) <= Paid(r)
  BY DEF Accounted
<1>. DEFINE c == Cardinality(Unanswered(r))
<1>3. c \in Nat
  BY UnansweredCount
<1>4. SUFFICES executions'[r] + orphans'[r] + c <= Paid(r)'
  BY <1>1 DEF Used
<1>5. executions[r] + orphans[r] + c <= Paid(r)
  BY <1>2 DEF Used
<1>. HIDE DEF c
<1>. USE JobAssumption, <1>3, <1>5 DEF TypeOK, Paid, Started, Direct, bullmq, service, gateway
<1>6. ASSUME intercept(q) \/ queueChosen(q) \/ addEcho(q) \/ addFails(q)
      PROVE  executions'[r] + orphans'[r] + c <= Paid(r)'
  BY <1>6 DEF intercept, queueChosen, addEcho, addFails, handleDirectly, Advance
<1>7. ASSUME jobAdded(q) \/ accept(q) PROVE executions'[r] + orphans'[r] + c <= Paid(r)'
  BY <1>7 DEF jobAdded, accept, Advance, Admission
<1>8. ASSUME orphanExecutes(q) \/ retryDue(q) \/ notifyCompleted(q) \/ lockExpires(q)
      PROVE  executions'[r] + orphans'[r] + c <= Paid(r)'
  BY <1>8 DEF orphanExecutes, retryDue, notifyCompleted, lockExpires
<1>9. ASSUME recoverStalled(q) PROVE executions'[r] + orphans'[r] + c <= Paid(r)'
  BY <1>9 DEF recoverStalled
<1>. QED
  BY <1>6, <1>7, <1>8, <1>9

\* A slot works on its job: an attempt is started, answered or given up, and
\* ends with a lock or without one.
LEMMA AccountedSlot ==
    ASSUME TypeOK, TypeOK', Ownership, Accounted, NEW s \in Slots,
           takeJob(s) \/ serviceExecutes(s) \/ Slot(s)
    PROVE  Accounted'
<1>. SUFFICES ASSUME NEW r \in Requests PROVE Used(r)' <= Paid(r)'
  BY DEF Accounted
<1>. DEFINE c == Cardinality(Unanswered(r))
<1>. DEFINE d == Cardinality(Unanswered(r)')
<1>1. c \in Nat /\ d \in Nat
  BY UnansweredCount
<1>2. executions[r] + orphans[r] + c <= Paid(r)
  BY DEF Accounted, Used
<1>3. SUFFICES executions'[r] + orphans'[r] + d <= Paid(r)'
  BY DEF Used
<1>4. Unanswered(r)' \subseteq Unanswered(r) => d <= c
  BY NoMoreSlots
<1>5. s \in Unanswered(r) /\ Unanswered(r)' = Unanswered(r) \ {s} => d = c - 1
  BY SlotLeaves
<1>6. s \notin Unanswered(r) /\ Unanswered(r)' = Unanswered(r) \cup {s} => d = c + 1
  BY SlotEnters
<1>. HIDE DEF c, d
<1>. USE JobAssumption, <1>1, <1>2 DEF TypeOK, Goto, EndAttempt, Release, bullmq, service, slots
<1>7. ASSUME takeJob(s) PROVE executions'[r] + orphans'[r] + d <= Paid(r)'
  <2>1. PICK q \in Requests : /\ state[q] = "waiting"
                              /\ state' = [state EXCEPT ![q] = "active"]
                              /\ job' = [job EXCEPT ![s] = q]
    BY <1>7 DEF takeJob
  <2>2. phase[s] = "idle" /\ phase' = [phase EXCEPT ![s] = "lookup"]
    BY <1>7 DEF takeJob
  <2>3. CASE r = q
    <3>1. s \notin Unanswered(r) /\ Unanswered(r)' = Unanswered(r) \cup {s}
      BY <2>1, <2>2, <2>3 DEF Unanswered
    <3>. QED
      BY <1>6, <1>7, <2>1, <2>3, <3>1 DEF takeJob, Paid, Started, Direct
  <2>4. CASE r # q
    <3>1. Unanswered(r)' \subseteq Unanswered(r)
      BY <2>1, <2>2, <2>4 DEF Unanswered
    <3>. QED
      BY <1>4, <1>7, <2>1, <2>4, <3>1 DEF takeJob, Paid, Started, Direct
  <2>. QED
    BY <2>3, <2>4
<1>8. ASSUME serviceExecutes(s) PROVE executions'[r] + orphans'[r] + d <= Paid(r)'
  <2>1. CASE job[s] = r
    <3>1. s \in Unanswered(r) /\ Unanswered(r)' = Unanswered(r) \ {s}
      BY <1>8, <2>1 DEF serviceExecutes, Unanswered
    <3>. QED
      BY <1>5, <1>8, <2>1, <3>1 DEF serviceExecutes, Paid, Started, Direct
  <2>2. CASE job[s] # r
    <3>1. Unanswered(r)' \subseteq Unanswered(r)
      BY <1>8, <2>2 DEF serviceExecutes, Unanswered
    <3>. QED
      BY <1>4, <1>8, <2>2, <3>1 DEF serviceExecutes, Paid, Started, Direct
  <2>. QED
    BY <2>1, <2>2
<1>9. ASSUME dispatchFails(s) PROVE executions'[r] + orphans'[r] + d <= Paid(r)'
  <2>1. CASE job[s] = r /\ phase[s] = "sent"
    <3>1. s \in Unanswered(r) /\ Unanswered(r)' = Unanswered(r) \ {s}
      BY <1>9, <2>1 DEF dispatchFails, Unanswered
    <3>. QED
      BY <1>5, <1>9, <2>1, <3>1 DEF dispatchFails, Paid, Started, Direct
  <2>2. CASE ~(job[s] = r /\ phase[s] = "sent")
    <3>1. Unanswered(r)' \subseteq Unanswered(r)
      BY <1>9, <2>2 DEF dispatchFails, Unanswered
    <3>. QED
      BY <1>4, <1>9, <2>2, <3>1 DEF dispatchFails, Paid, Started, Direct
  <2>. QED
    BY <2>1, <2>2
<1>10. ASSUME processFromCache(s) \/ dispatch(s) \/ answerArrives(s)
              \/ tryStoreInCache(s) \/ saveJobResult(s)
       PROVE  executions'[r] + orphans'[r] + d <= Paid(r)'
  <2>1. Unanswered(r)' \subseteq Unanswered(r)
    BY <1>10 DEF processFromCache, dispatch, answerArrives, tryStoreInCache, saveJobResult,
                 Unanswered
  <2>. QED
    BY <1>4, <1>10, <2>1
       DEF processFromCache, dispatch, answerArrives, tryStoreInCache, saveJobResult,
           Paid, Started, Direct
<1>11. ASSUME jobReturns(s) \/ jobThrows(s) PROVE executions'[r] + orphans'[r] + d <= Paid(r)'
  <2>1. Unanswered(r)' \subseteq Unanswered(r)
    BY <1>11 DEF jobReturns, jobThrows, Unanswered
  <2>2. lock[r] = s => state[r] = "active"
    BY DEF Ownership, LockNamesWorker
  <2>. QED
    BY <1>4, <1>11, <2>1, <2>2 DEF jobReturns, jobThrows, Paid, Started, Direct
<1>. QED
  BY <1>7, <1>8, <1>9, <1>10, <1>11 DEF Slot

\* A crash turns the messages under way into messages nobody waits for, and
\* forgets the attempts without one.
LEMMA AccountedCrash == ASSUME TypeOK, TypeOK', Accounted, crash PROVE Accounted'
<1>. SUFFICES ASSUME NEW r \in Requests PROVE Used(r)' <= Paid(r)'
  BY DEF Accounted
<1>1. Sent(r) \subseteq Unanswered(r)
  BY DEF Sent, Unanswered
<1>2. Cardinality(Sent(r)) <= Cardinality(Unanswered(r)) /\ Cardinality(Sent(r)) \in Nat
  BY <1>1, UnansweredCount, FS_Subset, FS_CardinalityType
<1>3. Unanswered(r)' = {}
  BY DEF crash, Unanswered
<1>4. Cardinality(Unanswered(r)') = 0
  BY <1>3, FS_EmptySet
<1>5. Used(r) <= Paid(r)
  BY DEF Accounted
<1>6. Paid(r)' = Paid(r)
  BY DEF crash, Paid, Started, Direct
<1>. DEFINE c == Cardinality(Unanswered(r))
<1>. DEFINE k == Cardinality(Sent(r))
<1>7. /\ executions'[r] = executions[r] /\ orphans'[r] = orphans[r] + k
      /\ executions[r] + orphans[r] + c <= Paid(r)
      /\ k <= c /\ k \in Nat /\ c \in Nat
  BY <1>2, <1>5, UnansweredCount DEF crash, Used
<1>8. Used(r)' = executions[r] + (orphans[r] + k) + 0
  BY <1>4, <1>7 DEF Used
<1>9. Paid(r) \in Nat /\ executions[r] \in Nat /\ orphans[r] \in Nat
  BY SumsAreNumbers DEF Paid, TypeOK, Started, Direct
<1>. HIDE DEF c, k
<1>. QED
  BY <1>6, <1>7, <1>8, <1>9

\* Every step keeps the account.
LEMMA AccountedStep == TypeOK /\ Ownership /\ Admission /\ Accounted /\ [Next]_vars => Accounted'
<1>. SUFFICES ASSUME TypeOK, Ownership, Admission, Accounted, [Next]_vars PROVE Accounted'
  OBVIOUS
<1>1. TypeOK'
  BY TypeStep
<1>2. ASSUME NEW q \in Requests,
             \/ intercept(q) \/ queueChosen(q) \/ addEcho(q) \/ jobAdded(q) \/ accept(q) \/ addFails(q)
             \/ orphanExecutes(q) \/ retryDue(q) \/ notifyCompleted(q)
             \/ lockExpires(q) \/ recoverStalled(q)
      PROVE  Accounted'
  <2>1. UNCHANGED slots
    BY <1>2 DEF intercept, queueChosen, addEcho, jobAdded, accept, addFails, orphanExecutes, retryDue,
                notifyCompleted, lockExpires, recoverStalled, gateway, slots
  <2>. QED
    BY <1>1, <1>2, <2>1, AccountedOutside
<1>3. ASSUME NEW s \in Slots, takeJob(s) \/ serviceExecutes(s) \/ Slot(s) PROVE Accounted'
  BY <1>1, <1>3, AccountedSlot
<1>4. CASE crash
  BY <1>1, <1>4, AccountedCrash
<1>5. CASE toggleQueue \/ cacheLoses \/ UNCHANGED vars
  <2>1. UNCHANGED <<executions, orphans, attemptsMade, stalls, state, request, phase, job>>
    BY <1>5 DEF toggleQueue, cacheLoses, vars, slots, bullmq, service
  <2>. QED
    BY <2>1 DEF Accounted, Used, Paid, Started, Direct, Unanswered
<1>. QED
  BY <1>2, <1>3, <1>4, <1>5 DEF Next

\* A request is executed at most once for each failed attempt, each stall,
\* the attempt that is under way or was the last, and its direct handling.
THEOREM ExecutionsAreAccounted == Spec => []ExecutionsAccounted
<1>1. Init /\ TypeOK => Accounted
  <2>. SUFFICES ASSUME Init, TypeOK, NEW r \in Requests PROVE Used(r) <= Paid(r)
    BY DEF Accounted
  <2>1. Unanswered(r) = {}
    BY DEF Init, Unanswered
  <2>2. Cardinality(Unanswered(r)) = 0
    BY <2>1, FS_EmptySet
  <2>. QED
    BY <2>2 DEF Init, Used, Paid, Started, Direct
<1>2. IInv /\ Accounted /\ [Next]_vars => Accounted'
  BY AccountedStep DEF IInv
<1>3. TypeOK /\ Accounted => ExecutionsAccounted
  <2>. SUFFICES ASSUME TypeOK, Accounted, NEW r \in Requests
                PROVE  executions[r] <= Paid(r)
    BY DEF ExecutionsAccounted, Paid, Started, Direct
  <2>1. Used(r) <= Paid(r) /\ Paid(r) \in Nat /\ Cardinality(Unanswered(r)) \in Nat
    BY UnansweredCount DEF Accounted, Paid, Started, Direct, TypeOK
  <2>. QED
    BY <2>1 DEF Used, TypeOK
<1>. QED
  BY <1>1, <1>2, <1>3, TypeInit, Inductive, PTL DEF Spec, IInv

-----------------------------------------------------------------------------
(***************************************************************************)
(* Results are served.  The inductive form follows a result from the       *)
(* answer through the cache and the slots to the settled job.              *)
(***************************************************************************)
CacheIsProduced == cached # None => cached \in Cacheable /\ cached \in Produced
AnsweredIsProduced ==
    \A s \in Slots : phase[s] \in {"answered", "storing"} => job[s] \in Produced
ResultIsServed ==
    \A s \in Slots : outcome[s] = "completed" =>
        result[s] \in SharesResult(job[s]) /\ result[s] \in Produced

ResultsAreServed ==
    CacheIsProduced /\ AnsweredIsProduced /\ ResultIsServed /\ CompletedWasServed

\* What was executed stays executed, so what was produced stays produced.
LEMMA ProducedStays ==
    ASSUME TypeOK, [Next]_vars
    PROVE  Produced \subseteq Produced'
<1>. SUFFICES \A r \in Requests : executions[r] > 0 => executions'[r] > 0
  BY DEF Produced
<1>. USE DEF TypeOK, service
<1>1. ASSUME NEW r \in Requests,
             \/ intercept(r) \/ queueChosen(r) \/ addEcho(r) \/ jobAdded(r) \/ accept(r) \/ addFails(r)
             \/ orphanExecutes(r) \/ retryDue(r) \/ notifyCompleted(r)
             \/ lockExpires(r) \/ recoverStalled(r)
      PROVE  \A q \in Requests : executions[q] > 0 => executions'[q] > 0
  BY <1>1 DEF intercept, queueChosen, addEcho, jobAdded, accept, addFails, orphanExecutes, retryDue,
              notifyCompleted, lockExpires, recoverStalled, handleDirectly
<1>2. ASSUME NEW s \in Slots, takeJob(s) \/ serviceExecutes(s) \/ Slot(s)
      PROVE  \A q \in Requests : executions[q] > 0 => executions'[q] > 0
  BY <1>2 DEF Slot, takeJob, serviceExecutes, processFromCache, dispatch, answerArrives,
              dispatchFails, tryStoreInCache, saveJobResult, jobReturns, jobThrows
<1>3. CASE toggleQueue \/ cacheLoses \/ crash \/ UNCHANGED vars
  BY <1>3 DEF toggleQueue, cacheLoses, crash, vars
<1>. QED
  BY <1>1, <1>2, <1>3 DEF Next

\* A step of a slot keeps the four parts: a hit passes on what the cache
\* holds, an answer or an echo is the job's own, and BullMQ keeps what it is
\* told.
LEMMA ServedSlot ==
    ASSUME TypeOK, TypeOK', Ownership, ResultsAreServed, [Next]_vars, NEW s \in Slots,
           takeJob(s) \/ serviceExecutes(s) \/ Slot(s)
    PROVE  ResultsAreServed'
<1>1. Produced \subseteq Produced'
  BY ProducedStays
<1>4. \A r \in Requests : executions'[r] > 0 \/ r \in Echoes => r \in Produced'
  BY DEF Produced
<1>. USE JobAssumption, <1>1, <1>4
     DEF TypeOK, SharesResult, ResultsAreServed, CacheIsProduced, AnsweredIsProduced, ResultIsServed,
         CompletedWasServed, Goto, EndAttempt, Release, bullmq, service, Phases, Outcomes
<1>5. ASSUME takeJob(s) PROVE ResultsAreServed'
  BY <1>5 DEF takeJob
<1>6. ASSUME serviceExecutes(s) PROVE ResultsAreServed'
  BY <1>6 DEF serviceExecutes
<1>7. ASSUME processFromCache(s) PROVE ResultsAreServed'
  BY <1>7 DEF processFromCache, tryGetFromCache
<1>8. ASSUME dispatch(s) PROVE ResultsAreServed'
  BY <1>8 DEF dispatch
<1>9. ASSUME answerArrives(s) PROVE ResultsAreServed'
  BY <1>9 DEF answerArrives
<1>10. ASSUME dispatchFails(s) PROVE ResultsAreServed'
  BY <1>10 DEF dispatchFails
<1>11. ASSUME tryStoreInCache(s) PROVE ResultsAreServed'
  BY <1>11 DEF tryStoreInCache
<1>12. ASSUME saveJobResult(s) PROVE ResultsAreServed'
  BY <1>12 DEF saveJobResult
<1>13. ASSUME jobReturns(s) PROVE ResultsAreServed'
  BY <1>13 DEF jobReturns
<1>14. ASSUME jobThrows(s) PROVE ResultsAreServed'
  BY <1>14 DEF jobThrows
<1>. QED
  BY <1>5, <1>6, <1>7, <1>8, <1>9, <1>10, <1>11, <1>12, <1>13, <1>14 DEF Slot

\* So does every other step: nothing else completes a job or fills the cache.
LEMMA ServedStep == TypeOK /\ Ownership /\ ResultsAreServed /\ [Next]_vars => ResultsAreServed'
<1>. SUFFICES ASSUME TypeOK, Ownership, ResultsAreServed, [Next]_vars PROVE ResultsAreServed'
  OBVIOUS
<1>1. TypeOK'
  BY TypeStep
<1>2. Produced \subseteq Produced'
  BY ProducedStays
<1>3. ASSUME NEW s \in Slots, takeJob(s) \/ serviceExecutes(s) \/ Slot(s)
      PROVE  ResultsAreServed'
  BY <1>1, <1>3, ServedSlot
<1>. USE JobAssumption, <1>1, <1>2
     DEF TypeOK, SharesResult, ResultsAreServed, CacheIsProduced, AnsweredIsProduced, ResultIsServed,
         CompletedWasServed, gateway, slots, bullmq, service
<1>4. ASSUME NEW r \in Requests,
             \/ intercept(r) \/ queueChosen(r) \/ addEcho(r) \/ jobAdded(r) \/ accept(r) \/ addFails(r)
      PROVE  ResultsAreServed'
  BY <1>4 DEF intercept, queueChosen, addEcho, jobAdded, accept, addFails, Advance, handleDirectly
<1>5. ASSUME NEW r \in Requests,
             \/ orphanExecutes(r) \/ retryDue(r) \/ notifyCompleted(r)
             \/ lockExpires(r) \/ recoverStalled(r)
      PROVE  ResultsAreServed'
  BY <1>5 DEF orphanExecutes, retryDue, notifyCompleted, lockExpires, recoverStalled
<1>6. CASE toggleQueue \/ cacheLoses \/ UNCHANGED vars
  BY <1>6 DEF toggleQueue, cacheLoses, vars
<1>7. CASE crash
  BY <1>7 DEF crash
<1>. QED
  BY <1>3, <1>4, <1>5, <1>6, <1>7 DEF Next

\* A job completes with its own result or with that of a job with the same
\* cache key, and the microservice executed that one unless it is an echo.
THEOREM CompletedAreServed == Spec => []CompletedWasServed
<1>1. Init => ResultsAreServed
  BY DEF Init, ResultsAreServed, CacheIsProduced, AnsweredIsProduced, ResultIsServed,
         CompletedWasServed
<1>2. IInv /\ ResultsAreServed /\ [Next]_vars => ResultsAreServed'
  BY ServedStep DEF IInv
<1>3. ResultsAreServed => CompletedWasServed
  BY DEF ResultsAreServed
<1>. QED
  BY <1>1, <1>2, <1>3, Inductive, PTL DEF Spec, IInv

\* The result a request completed with comes from the microservice.
AnsweredByService ==
    \A r \in Requests \ Echoes : state[r] = "completed" => executions[returned[r]] > 0

\* Only an echo that shares a key with requests comes between them and the
\* microservice: without one, no retry, hit or lost lock does.
THEOREM AnswersComeFromService ==
    ASSUME Echoes \cap Cacheable = {}
    PROVE  Spec => []AnsweredByService
<1>1. CompletedWasServed => AnsweredByService
  BY DEF CompletedWasServed, AnsweredByService, SharesResult, Produced
<1>. QED
  BY <1>1, CompletedAreServed, PTL
=============================================================================
