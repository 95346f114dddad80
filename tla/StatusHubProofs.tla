-------------------------- MODULE StatusHubProofs --------------------------
(***************************************************************************)
(* What StatusHub promises for any number of clients and jobs and any      *)
(* periods of its timer.                                                   *)
(***************************************************************************)
EXTENDS StatusHub, TLAPS

\* An age that has passed its limit stays where it is.
LEMMA OlderBounded ==
    ASSUME NEW limit \in Nat, NEW a \in 0..(limit + 1)
    PROVE  Older(a, limit) \in 0..(limit + 1)
BY DEF Older

\* Forgetting clients keeps the part of the type that tells of sessions.
Sessions ==
    /\ clients \in SUBSET Clients
    /\ jobIds \in [Clients -> SUBSET Jobs]
    /\ confirmed \in [Clients -> SUBSET Jobs]
    /\ age \in [Clients -> 0..(MaxAge + 1)]
    /\ \A c \in Clients : confirmed[c] \subseteq jobIds[c]
    /\ \A c \in Clients \ clients : jobIds[c] = {} /\ age[c] = 0

LEMMA ForgetSessions ==
    ASSUME NEW C, Sessions, Forget(C)
    PROVE  Sessions'
<1>1. 0 \in 0..(MaxAge + 1)
  BY HubAssumption
<1>2. clients' \in SUBSET Clients /\ jobIds' \in [Clients -> SUBSET Jobs]
  BY DEF Sessions, Forget
<1>3. age' \in [Clients -> 0..(MaxAge + 1)]
  BY <1>1 DEF Sessions, Forget
<1>4. ASSUME NEW c \in Clients \ clients' PROVE jobIds'[c] = {} /\ age'[c] = 0
  BY <1>4 DEF Sessions, Forget
<1>5. confirmed' \in [Clients -> SUBSET Jobs] /\ \A c \in Clients : confirmed'[c] \subseteq jobIds'[c]
  BY DEF Sessions, Forget
<1> QED
  BY <1>2, <1>3, <1>4, <1>5 DEF Sessions

\* An update keeps the type.
LEMMA UpdateTypes ==
    ASSUME NEW j \in Jobs, NEW word \in {"queued", "completed"}, TypeOK,
           updateJobStatus(j, word)
    PROVE  /\ Sessions'
           /\ socket' = socket /\ quiet' = quiet /\ sinceTimer' = sinceTimer
           /\ seen' \in [Clients -> [Jobs -> Words]]
           /\ jobStatuses' \in [Jobs -> Words]
           /\ statusAge' \in [Jobs -> 0..(Retention + 1)]
           /\ \A i \in Jobs : jobStatuses'[i] = None => statusAge'[i] = 0
<1>1. PICK failing \in SUBSET Subscribers(j) :
        /\ Forget(failing)
        /\ seen' = [c \in Clients |-> IF c \in Subscribers(j) \ failing
                                        THEN [seen[c] EXCEPT ![j] = word] ELSE seen[c]]
  BY DEF updateJobStatus, broadcastJobUpdate
<1>2. Sessions'
  BY <1>1, ForgetSessions DEF TypeOK, Sessions
<1>3. seen' \in [Clients -> [Jobs -> Words]]
  BY <1>1 DEF TypeOK, Words
<1>4. /\ jobStatuses' \in [Jobs -> Words]
      /\ statusAge' \in [Jobs -> 0..(Retention + 1)]
      /\ \A i \in Jobs : jobStatuses'[i] = None => statusAge'[i] = 0
  BY HubAssumption DEF TypeOK, Words, updateJobStatus
<1> QED
  BY <1>2, <1>3, <1>4 DEF updateJobStatus

\* A status that is sent, or not, keeps what the clients have seen.
LEMMA SendTypes ==
    ASSUME NEW c \in Clients, NEW j \in Jobs, TypeOK,
           Send(c, j, jobStatuses[j]) \/ seen' = seen
    PROVE  seen' \in [Clients -> [Jobs -> Words]]
<1>1. CASE Send(c, j, jobStatuses[j])
  BY <1>1 DEF TypeOK, Send
<1>2. CASE seen' = seen
  BY <1>2 DEF TypeOK
<1> QED
  BY <1>1, <1>2

LEMMA InitTypes == Init => TypeOK
BY HubAssumption DEF Init, TypeOK, Words

LEMMA NextTypes == TypeOK /\ [Next]_vars => TypeOK'
<1> SUFFICES ASSUME TypeOK, [Next]_vars PROVE TypeOK'
  OBVIOUS
<1> USE HubAssumption
<1>1. ASSUME NEW c \in Clients, registerClient(c) PROVE TypeOK'
  BY <1>1 DEF TypeOK, registerClient, statuses, jobs
<1>2. ASSUME NEW c \in Clients, disconnect(c) PROVE TypeOK'
  <2>1. Sessions'
    BY <1>2, ForgetSessions DEF TypeOK, Sessions, disconnect
  <2>2. /\ socket' \in [Clients -> {"new", "open", "closed", "evicted"}]
        /\ quiet' \in [Clients -> 0..(MaxAge + 1)]
    BY <1>2 DEF TypeOK, disconnect, Close
  <2> QED
    BY <1>2, <2>1, <2>2 DEF TypeOK, Sessions, disconnect, statuses, jobs
<1>3. ASSUME NEW c \in Clients, NEW j \in Jobs, subscribeClientToJob(c, j) PROVE TypeOK'
  <2>1. seen' \in [Clients -> [Jobs -> Words]]
    <3>1. Send(c, j, jobStatuses[j]) \/ seen' = seen
      BY <1>3 DEF subscribeClientToJob, Confirm
    <3>. QED
      BY <3>1, SendTypes
  <2>2. /\ jobIds' \in [Clients -> SUBSET Jobs] /\ confirmed' \in [Clients -> SUBSET Jobs]
        /\ \A d \in Clients : confirmed'[d] \subseteq jobIds'[d]
        /\ \A d \in Clients \ clients : jobIds'[d] = {}
    <3>1. /\ jobIds \in [Clients -> SUBSET Jobs] /\ confirmed \in [Clients -> SUBSET Jobs]
          /\ \A d \in Clients : confirmed[d] \subseteq jobIds[d]
          /\ \A d \in Clients \ clients : jobIds[d] = {}
      BY DEF TypeOK
    <3>2. CASE c \in clients /\ jobIds' = [jobIds EXCEPT ![c] = @ \cup {j}]
      <4>1. confirmed' = confirmed \/ confirmed' = [confirmed EXCEPT ![c] = @ \cup {j}]
        BY <1>3, <3>2 DEF subscribeClientToJob, Confirm
      <4>2. /\ jobIds[c] \cup {j} \in SUBSET Jobs /\ confirmed[c] \cup {j} \in SUBSET Jobs
            /\ confirmed[c] \cup {j} \subseteq jobIds[c] \cup {j}
        BY <3>1
      <4>. QED
        BY <3>1, <3>2, <4>1, <4>2
    <3>3. CASE jobIds' = jobIds /\ confirmed' = confirmed
      BY <3>1, <3>3
    <3>. QED
      BY <1>3, <3>2, <3>3 DEF subscribeClientToJob
  <2>3. quiet' \in [Clients -> 0..(MaxAge + 1)]
    BY <1>3 DEF TypeOK, subscribeClientToJob, Hear
  <2>4. UNCHANGED <<socket, clients, age, jobStatuses, statusAge, added, completed, sinceTimer>>
    BY <1>3 DEF subscribeClientToJob, statuses, jobs
  <2>5. \A d \in Clients \ clients' : jobIds'[d] = {} /\ age'[d] = 0
    BY <2>2, <2>4 DEF TypeOK
  <2> QED
    BY <2>1, <2>2, <2>3, <2>4, <2>5 DEF TypeOK
<1>4. ASSUME NEW c \in Clients, NEW j \in Jobs, unsubscribeClientFromJob(c, j) PROVE TypeOK'
  <2>1. /\ jobIds' \in [Clients -> SUBSET Jobs] /\ confirmed' \in [Clients -> SUBSET Jobs]
        /\ \A d \in Clients : confirmed'[d] \subseteq jobIds'[d]
        /\ \A d \in Clients \ clients : jobIds'[d] = {}
    <3>1. /\ jobIds \in [Clients -> SUBSET Jobs] /\ confirmed \in [Clients -> SUBSET Jobs]
          /\ \A d \in Clients : confirmed[d] \subseteq jobIds[d]
          /\ \A d \in Clients \ clients : jobIds[d] = {}
      BY DEF TypeOK
    <3>2. CASE /\ jobIds' = [jobIds EXCEPT ![c] = @ \ {j}]
               /\ confirmed' = [confirmed EXCEPT ![c] = @ \ {j}]
      <4>1. /\ jobIds[c] \ {j} \in SUBSET Jobs /\ confirmed[c] \ {j} \in SUBSET Jobs
            /\ confirmed[c] \ {j} \subseteq jobIds[c] \ {j}
        BY <3>1
      <4>. QED
        BY <3>1, <3>2, <4>1
    <3>3. CASE jobIds' = jobIds /\ confirmed' = confirmed
      BY <3>1, <3>3
    <3> QED
      BY <1>4, <3>2, <3>3 DEF unsubscribeClientFromJob
  <2>2. quiet' \in [Clients -> 0..(MaxAge + 1)]
    BY <1>4 DEF TypeOK, unsubscribeClientFromJob, Hear
  <2> QED
    BY <1>4, <2>1, <2>2 DEF TypeOK, unsubscribeClientFromJob, statuses, jobs
<1>5. ASSUME NEW c \in Clients, NEW j \in Jobs, sendJobStatus(c, j) PROVE TypeOK'
  <2>1. seen' \in [Clients -> [Jobs -> Words]]
    BY <1>5, SendTypes DEF sendJobStatus
  <2>2. quiet' \in [Clients -> 0..(MaxAge + 1)]
    BY <1>5 DEF TypeOK, sendJobStatus, Hear
  <2> QED
    BY <1>5, <2>1, <2>2 DEF TypeOK, sendJobStatus, statuses, jobs
<1>6. ASSUME NEW j \in Jobs, jobAdded(j) PROVE TypeOK'
  BY <1>6 DEF TypeOK, jobAdded, sessions, statuses
<1>7. ASSUME NEW j \in Jobs, markJobQueued(j) PROVE TypeOK'
  <2>1. updateJobStatus(j, "queued")
    BY <1>7 DEF markJobQueued
  <2>2. /\ added' \in [Jobs -> {"no", "adding", "reported"}]
        /\ completed' = completed
    BY <1>7 DEF TypeOK, markJobQueued
  <2> QED
    BY <2>1, <2>2, UpdateTypes DEF TypeOK, Sessions
<1>8. ASSUME NEW j \in Jobs, jobCompleted(j) PROVE TypeOK'
  BY <1>8 DEF TypeOK, jobCompleted, sessions, statuses
<1>9. ASSUME NEW j \in Jobs, markJobCompleted(j) PROVE TypeOK'
  <2>1. updateJobStatus(j, "completed")
    BY <1>9 DEF markJobCompleted
  <2>2. /\ completed' \in [Jobs -> {"no", "reading", "reported"}]
        /\ added' = added
    BY <1>9 DEF TypeOK, markJobCompleted
  <2> QED
    BY <2>1, <2>2, UpdateTypes DEF TypeOK, Sessions
<1>10. ASSUME tick PROVE TypeOK'
  <2>1. /\ age' \in [Clients -> 0..(MaxAge + 1)]
        /\ quiet' \in [Clients -> 0..(MaxAge + 1)]
        /\ statusAge' \in [Jobs -> 0..(Retention + 1)]
    BY <1>10, OlderBounded DEF TypeOK, tick
  <2>2. sinceTimer' \in 0..CleanupPeriod
    BY <1>10 DEF TypeOK, tick
  <2> QED
    BY <1>10, <2>1, <2>2 DEF TypeOK, tick, jobs
<1>11. ASSUME timer PROVE TypeOK'
  <2>1. Sessions'
    BY <1>11, ForgetSessions DEF TypeOK, Sessions, timer, cleanupInactiveClients
  <2>2. /\ socket' \in [Clients -> {"new", "open", "closed", "evicted"}]
        /\ quiet' \in [Clients -> 0..(MaxAge + 1)]
    BY <1>11 DEF TypeOK, timer, cleanupInactiveClients, Close
  <2>3. /\ jobStatuses' \in [Jobs -> Words]
        /\ statusAge' \in [Jobs -> 0..(Retention + 1)]
        /\ \A j \in Jobs : jobStatuses'[j] = None => statusAge'[j] = 0
    BY <1>11 DEF TypeOK, timer, cleanupOldJobs, Words
  <2> QED
    BY <1>11, <2>1, <2>2, <2>3 DEF TypeOK, Sessions, timer, jobs
<1>12. CASE UNCHANGED vars
  BY <1>12 DEF TypeOK, vars
<1> QED
  BY <1>1, <1>2, <1>3, <1>4, <1>5, <1>6, <1>7, <1>8, <1>9, <1>10, <1>11, <1>12 DEF Next

\* Every reachable state has its type, and a client that is not registered
\* has no subscription.
THEOREM TypeCorrect == Spec => []TypeOK
BY InitTypes, NextTypes, PTL DEF Spec

-----------------------------------------------------------------------------
\* Only a client with an open socket is registered, and who is registered has
\* a current view of the jobs it subscribed to.
IInv == TypeOK /\ RegisteredAreOpen /\ SubscribersCurrent

\* An update leaves the subscribers with what it said and the others with
\* what they had.
LEMMA UpdateInv ==
    ASSUME NEW j \in Jobs, NEW word \in {"queued", "completed"}, IInv,
           updateJobStatus(j, word)
    PROVE  RegisteredAreOpen' /\ SubscribersCurrent'
<1>1. PICK failing \in SUBSET Subscribers(j) :
        /\ Forget(failing)
        /\ seen' = [c \in Clients |-> IF c \in Subscribers(j) \ failing
                                        THEN [seen[c] EXCEPT ![j] = word] ELSE seen[c]]
  BY DEF updateJobStatus, broadcastJobUpdate
<1>2. RegisteredAreOpen'
  BY <1>1 DEF IInv, RegisteredAreOpen, Forget, updateJobStatus
<1>3. ASSUME NEW c \in clients', NEW i \in confirmed'[c], jobStatuses'[i] # None
      PROVE  seen'[c][i] = jobStatuses'[i]
  <2>1. /\ c \in clients /\ c \in Clients /\ c \notin failing
        /\ i \in confirmed[c] /\ i \in jobIds[c] /\ i \in Jobs
    BY <1>1, <1>3 DEF IInv, TypeOK, Forget
  <2>2. seen[c] \in [Jobs -> Words]
    BY <2>1 DEF IInv, TypeOK
  <2>3. CASE i = j
    <3>1. c \in Subscribers(j) \ failing
      BY <2>1, <2>3 DEF Subscribers
    <3>2. seen'[c][i] = word
      BY <1>1, <2>1, <2>2, <2>3, <3>1
    <3> QED
      BY <2>3, <3>2 DEF IInv, TypeOK, updateJobStatus
  <2>4. CASE i # j
    <3>1. jobStatuses'[i] = jobStatuses[i]
      BY <2>1, <2>4 DEF IInv, TypeOK, updateJobStatus
    <3>2. seen'[c][i] = seen[c][i]
      BY <1>1, <2>1, <2>2, <2>4
    <3> QED
      BY <1>3, <2>1, <3>1, <3>2 DEF IInv, SubscribersCurrent
  <2> QED
    BY <2>3, <2>4
<1> QED
  BY <1>2, <1>3 DEF SubscribersCurrent

\* Sending a client the current status of a job keeps it up to date.
LEMMA SendInv ==
    ASSUME NEW c \in Clients, NEW j \in Jobs, IInv, Send(c, j, jobStatuses[j]),
           clients' = clients, jobStatuses' = jobStatuses,
           confirmed' = [confirmed EXCEPT ![c] = @ \cup {j}] \/ confirmed' = confirmed
    PROVE  SubscribersCurrent'
<1>1. ASSUME NEW d \in clients, NEW i \in confirmed'[d], jobStatuses[i] # None
      PROVE  seen'[d][i] = jobStatuses[i]
  <2>1. d \in Clients /\ confirmed[d] \in SUBSET Jobs /\ seen[d] \in [Jobs -> Words]
    BY DEF IInv, TypeOK
  <2>2. CASE d = c /\ i = j
    BY <2>1, <2>2 DEF IInv, TypeOK, Send
  <2>3. CASE ~(d = c /\ i = j)
    <3>1. i \in confirmed[d]
      BY <1>1, <2>1, <2>3 DEF IInv, TypeOK
    <3>2. seen'[d][i] = seen[d][i]
      BY <2>1, <2>3, <3>1 DEF IInv, TypeOK, Send
    <3> QED
      BY <1>1, <3>1, <3>2 DEF IInv, SubscribersCurrent
  <2> QED
    BY <2>2, <2>3
<1> QED
  BY <1>1 DEF SubscribersCurrent

LEMMA InitInv == Init => IInv
BY InitTypes DEF Init, IInv, RegisteredAreOpen, SubscribersCurrent

LEMMA NextInv == IInv /\ [Next]_vars => IInv'
<1> SUFFICES ASSUME IInv, [Next]_vars PROVE RegisteredAreOpen' /\ SubscribersCurrent'
  BY NextTypes DEF IInv
<1>1. ASSUME NEW c \in Clients, registerClient(c)
      PROVE  RegisteredAreOpen' /\ SubscribersCurrent'
  <2>1. c \notin clients /\ jobIds[c] = {}
    BY <1>1 DEF IInv, TypeOK, RegisteredAreOpen, registerClient
  <2> QED
    BY <1>1, <2>1 DEF IInv, TypeOK, RegisteredAreOpen, SubscribersCurrent, registerClient, statuses
<1>2. ASSUME NEW c \in Clients, disconnect(c)
      PROVE  RegisteredAreOpen' /\ SubscribersCurrent'
  BY <1>2 DEF IInv, TypeOK, RegisteredAreOpen, SubscribersCurrent, disconnect, Close, Forget, statuses
<1>3. ASSUME NEW c \in Clients, NEW j \in Jobs, subscribeClientToJob(c, j)
      PROVE  RegisteredAreOpen' /\ SubscribersCurrent'
  <2>1. RegisteredAreOpen'
    BY <1>3 DEF IInv, RegisteredAreOpen, subscribeClientToJob
  <2>2. CASE c \in clients /\ seen' # seen
    <3>1. Send(c, j, jobStatuses[j])
      BY <1>3, <2>2 DEF subscribeClientToJob, Confirm
    <3>2. confirmed' = [confirmed EXCEPT ![c] = @ \cup {j}] \/ confirmed' = confirmed
      BY <1>3, <2>2 DEF subscribeClientToJob, Confirm
    <3>. QED
      BY <1>3, <2>1, <3>1, <3>2, SendInv DEF subscribeClientToJob, statuses
  <2>3. CASE c \in clients /\ seen' = seen
    <3>1. CASE confirmed' = confirmed
      BY <1>3, <2>1, <2>3, <3>1 DEF IInv, SubscribersCurrent, subscribeClientToJob, statuses
    <3>2. CASE Send(c, j, jobStatuses[j]) /\ confirmed' = [confirmed EXCEPT ![c] = @ \cup {j}]
      BY <1>3, <2>1, <3>2, SendInv DEF subscribeClientToJob, statuses
    <3>3. CASE jobStatuses[j] = None /\ confirmed' = [confirmed EXCEPT ![c] = @ \cup {j}]
      BY <1>3, <2>1, <2>3, <3>3 DEF IInv, TypeOK, SubscribersCurrent, subscribeClientToJob, statuses
    <3>. QED
      BY <1>3, <2>3, <3>1, <3>2, <3>3 DEF subscribeClientToJob, Confirm
  <2>4. CASE c \notin clients
    BY <1>3, <2>1, <2>4 DEF IInv, SubscribersCurrent, subscribeClientToJob, statuses
  <2> QED
    BY <2>1, <2>2, <2>3, <2>4
<1>4. ASSUME NEW c \in Clients, NEW j \in Jobs, unsubscribeClientFromJob(c, j)
      PROVE  RegisteredAreOpen' /\ SubscribersCurrent'
  <2>1. confirmed \in [Clients -> SUBSET Jobs] /\ clients \subseteq Clients
    BY DEF IInv, TypeOK
  <2>2. confirmed' = confirmed \/ confirmed' = [confirmed EXCEPT ![c] = @ \ {j}]
    BY <1>4 DEF unsubscribeClientFromJob
  <2>3. \A d \in clients : confirmed'[d] \subseteq confirmed[d]
    BY <2>1, <2>2
  <2>4. UNCHANGED <<socket, clients, seen, jobStatuses>>
    BY <1>4 DEF unsubscribeClientFromJob, statuses
  <2> QED
    BY <2>3, <2>4 DEF IInv, RegisteredAreOpen, SubscribersCurrent
<1>5. ASSUME NEW c \in Clients, NEW j \in Jobs, sendJobStatus(c, j)
      PROVE  RegisteredAreOpen' /\ SubscribersCurrent'
  <2>1. SubscribersCurrent'
    <3>1. CASE Send(c, j, jobStatuses[j])
      BY <1>5, <3>1, SendInv DEF sendJobStatus, statuses
    <3>2. CASE seen' = seen
      BY <1>5, <3>2 DEF IInv, SubscribersCurrent, sendJobStatus, statuses
    <3>. QED
      BY <1>5, <3>1, <3>2 DEF sendJobStatus
  <2> QED
    BY <1>5, <2>1 DEF IInv, RegisteredAreOpen, sendJobStatus
<1>6. ASSUME NEW j \in Jobs, jobAdded(j) \/ jobCompleted(j)
      PROVE  RegisteredAreOpen' /\ SubscribersCurrent'
  BY <1>6 DEF IInv, RegisteredAreOpen, SubscribersCurrent, jobAdded, jobCompleted, sessions, statuses
<1>7. ASSUME NEW j \in Jobs, markJobQueued(j)
      PROVE  RegisteredAreOpen' /\ SubscribersCurrent'
  BY <1>7, UpdateInv DEF markJobQueued
<1>8. ASSUME NEW j \in Jobs, markJobCompleted(j)
      PROVE  RegisteredAreOpen' /\ SubscribersCurrent'
  BY <1>8, UpdateInv DEF markJobCompleted
<1>9. ASSUME tick
      PROVE  RegisteredAreOpen' /\ SubscribersCurrent'
  BY <1>9 DEF IInv, RegisteredAreOpen, SubscribersCurrent, tick
<1>10. ASSUME timer
       PROVE  RegisteredAreOpen' /\ SubscribersCurrent'
  <2>1. RegisteredAreOpen'
    BY <1>10 DEF IInv, TypeOK, RegisteredAreOpen, timer, cleanupInactiveClients, Close, Forget
  <2>2. \A c \in clients' : /\ c \in clients /\ confirmed'[c] = confirmed[c]
                            /\ confirmed[c] \in SUBSET Jobs
    BY <1>10 DEF IInv, TypeOK, timer, cleanupInactiveClients, Forget
  <2>3. \A j \in Jobs : jobStatuses'[j] # None => jobStatuses'[j] = jobStatuses[j]
    BY <1>10 DEF timer, cleanupOldJobs
  <2>4. seen' = seen
    BY <1>10 DEF timer
  <2> QED
    BY <2>1, <2>2, <2>3, <2>4 DEF IInv, SubscribersCurrent
<1>11. CASE UNCHANGED vars
  BY <1>11 DEF IInv, RegisteredAreOpen, SubscribersCurrent, vars
<1> QED
  BY <1>1, <1>2, <1>3, <1>4, <1>5, <1>6, <1>7, <1>8, <1>9, <1>10, <1>11 DEF Next

LEMMA Invariant == Spec => []IInv
BY InitInv, NextInv, PTL DEF Spec

\* A subscriber's last word on a job is the job's status, for any number of
\* clients and jobs, with failing sends and cleanups at any time.
THEOREM SubscribersAreCurrent == Spec => []SubscribersCurrent
<1>1. IInv => SubscribersCurrent
  BY DEF IInv
<1> QED
  BY <1>1, Invariant, PTL

\* No session outlives its socket in the map of clients.
THEOREM NoDeadSessions == Spec => []RegisteredAreOpen
<1>1. IInv => RegisteredAreOpen
  BY DEF IInv
<1> QED
  BY <1>1, Invariant, PTL
=============================================================================
