----------------------------- MODULE StatusHub -----------------------------
(***************************************************************************)
(* JobStatusService keeps the last status of every job; WebSocketService   *)
(* keeps the connected clients and their subscriptions and pushes every    *)
(* update to the subscribers; a timer of WebSocketGateway clears both.     *)
(*                                                                         *)
(* Jobs come from JobLifecycle: here a job is added, its addition is       *)
(* reported, it completes, and its completion is reported: both reports    *)
(* may come in either order.  A job that fails is not reported.            *)
(*                                                                         *)
(* Time is kept as ages, which stop growing once every comparison with     *)
(* them is decided.                                                        *)
(***************************************************************************)
EXTENDS Naturals

CONSTANTS
    Clients,        \* socket ids; each connects once
    Jobs,
    CleanupPeriod,  \* of the timer
    MaxAge,         \* of a connection, in cleanupInactiveClients()
    Retention,      \* of a status, in cleanupOldJobs()
    None

ASSUME HubAssumption ==
    /\ CleanupPeriod \in Nat /\ MaxAge \in Nat /\ Retention \in Nat
    /\ None \notin {"queued", "completed"}

VARIABLES
    socket,      \* client -> its socket
    clients,     \* WebSocketService.clients, as the set of its keys
    jobIds,      \* client -> WebSocketClient.jobIds
    confirmed,   \* client -> those of which it was sent 'subscription-confirmed'
    age,         \* client -> time since connectedAt
    quiet,       \* client -> time since its last message
    seen,        \* client -> job -> last status its socket was sent
    jobStatuses, \* job -> JobStatusUpdate.status, or None
    statusAge,   \* job -> time since JobStatusUpdate.timestamp
    added,       \* job -> where its addition is
    completed,   \* job -> where its completion is
    sinceTimer   \* time since the timer fired

sessions == <<socket, clients, jobIds, confirmed, age, quiet>>
statuses == <<jobStatuses, statusAge>>
jobs == <<added, completed>>
vars == <<socket, clients, jobIds, confirmed, age, quiet, seen, jobStatuses,
          statusAge, added, completed, sinceTimer>>

Words == {None, "queued", "completed"}

TypeOK ==
    /\ socket \in [Clients -> {"new", "open", "closed", "evicted"}]
    /\ clients \in SUBSET Clients
    /\ jobIds \in [Clients -> SUBSET Jobs]
    /\ confirmed \in [Clients -> SUBSET Jobs]
    /\ age \in [Clients -> 0..(MaxAge + 1)]
    /\ quiet \in [Clients -> 0..(MaxAge + 1)]
    /\ seen \in [Clients -> [Jobs -> Words]]
    /\ jobStatuses \in [Jobs -> Words]
    /\ statusAge \in [Jobs -> 0..(Retention + 1)]
    /\ added \in [Jobs -> {"no", "adding", "reported"}]
    /\ completed \in [Jobs -> {"no", "reading", "reported"}]
    /\ sinceTimer \in 0..CleanupPeriod
    /\ \A c \in Clients : confirmed[c] \subseteq jobIds[c]
    /\ \A c \in Clients \ clients : jobIds[c] = {} /\ age[c] = 0
    /\ \A j \in Jobs : jobStatuses[j] = None => statusAge[j] = 0

Init ==
    /\ socket = [c \in Clients |-> "new"]
    /\ clients = {}
    /\ jobIds = [c \in Clients |-> {}]
    /\ confirmed = [c \in Clients |-> {}]
    /\ age = [c \in Clients |-> 0]
    /\ quiet = [c \in Clients |-> 0]
    /\ seen = [c \in Clients |-> [j \in Jobs |-> None]]
    /\ jobStatuses = [j \in Jobs |-> None]
    /\ statusAge = [j \in Jobs |-> 0]
    /\ added = [j \in Jobs |-> "no"]
    /\ completed = [j \in Jobs |-> "no"]
    /\ sinceTimer = 0

-----------------------------------------------------------------------------
(***************************************************************************)
(* Clients.                                                                *)
(***************************************************************************)

\* What a client that is gone was subscribed to and told does not matter.
Forget(C) ==
    /\ clients' = clients \ C
    /\ jobIds' = [c \in Clients |-> IF c \in C THEN {} ELSE jobIds[c]]
    /\ confirmed' = [c \in Clients |-> IF c \in C THEN {} ELSE confirmed[c]]
    /\ age' = [c \in Clients |-> IF c \in C THEN 0 ELSE age[c]]

Close(C, how) ==
    /\ socket' = [c \in Clients |-> IF c \in C THEN how ELSE socket[c]]
    /\ quiet' = [c \in Clients |-> IF c \in C THEN 0 ELSE quiet[c]]

\* A message from the client: its time and what it is answered.
Hear(c) ==
    /\ socket[c] = "open"
    /\ quiet' = [quiet EXCEPT ![c] = 0]

Send(c, j, word) == seen' = [seen EXCEPT ![c][j] = word]

registerClient(c) ==
    /\ socket[c] = "new"
    /\ socket' = [socket EXCEPT ![c] = "open"]
    /\ clients' = clients \cup {c}
    /\ UNCHANGED <<jobIds, confirmed, age, quiet, seen, statuses, jobs, sinceTimer>>

\* What subscribes: the two sends.  Either may throw, and what comes after it
\* is left out; the client keeps its place in jobIds all the same.
Confirm(c, j, status) ==
    \/ status /\ confirmed' = [confirmed EXCEPT ![c] = @ \cup {j}]
    \/ status /\ UNCHANGED confirmed
    \/ UNCHANGED <<confirmed, seen>>

\* Mutants: the session is not asked for; the current status is not sent.
subscribeClientToJobMutAny(c, j) ==
    /\ Hear(c)
    /\ jobIds' = [jobIds EXCEPT ![c] = @ \cup {j}]
    /\ Confirm(c, j, UNCHANGED seen)
    /\ UNCHANGED <<socket, clients, age, statuses, jobs, sinceTimer>>
subscribeClientToJobMut(c, j) ==
    /\ Hear(c)
    /\ c \in clients
    /\ jobIds' = [jobIds EXCEPT ![c] = @ \cup {j}]
    /\ Confirm(c, j, UNCHANGED seen)
    /\ UNCHANGED <<socket, clients, age, statuses, jobs, sinceTimer>>

\* The current status, if there is one, is sent before the confirmation.  A
\* client that is not registered gets an error.
subscribeClientToJob(c, j) ==
    /\ Hear(c)
    /\ \/ /\ c \in clients
          /\ jobIds' = [jobIds EXCEPT ![c] = @ \cup {j}]
          /\ \/ jobStatuses[j] # None /\ Confirm(c, j, Send(c, j, jobStatuses[j]))
             \/ jobStatuses[j] = None /\ Confirm(c, j, UNCHANGED seen)
       \/ /\ c \notin clients
          /\ UNCHANGED <<jobIds, confirmed, seen>>
    /\ UNCHANGED <<socket, clients, age, statuses, jobs, sinceTimer>>

unsubscribeClientFromJob(c, j) ==
    /\ Hear(c)
    /\ \/ /\ c \in clients
          /\ jobIds' = [jobIds EXCEPT ![c] = @ \ {j}]
          /\ confirmed' = [confirmed EXCEPT ![c] = @ \ {j}]
       \/ c \notin clients /\ UNCHANGED <<jobIds, confirmed>>
    /\ UNCHANGED <<socket, clients, age, seen, statuses, jobs, sinceTimer>>

\* The current status or null, to registered clients and others; it may throw.
sendJobStatus(c, j) ==
    /\ Hear(c)
    /\ Send(c, j, jobStatuses[j]) \/ UNCHANGED seen
    /\ UNCHANGED <<socket, clients, jobIds, confirmed, age, statuses, jobs, sinceTimer>>

\* The socket's own listener and the gateway's handler both unregister.
disconnect(c) ==
    /\ socket[c] = "open"
    /\ Close({c}, "closed")
    /\ Forget({c})
    /\ UNCHANGED <<seen, statuses, jobs, sinceTimer>>

-----------------------------------------------------------------------------
(***************************************************************************)
(* Updates of jobs.                                                        *)
(***************************************************************************)
Subscribers(j) == {c \in clients : j \in jobIds[c]}

\* A subscriber whose socket throws is taken for disconnected: it is
\* unregistered, its socket stays as it is.
broadcastJobUpdate(j, word) ==
    \E failing \in SUBSET Subscribers(j) :
        /\ Forget(failing)
        /\ seen' = [c \in Clients |-> IF c \in Subscribers(j) \ failing
                                        THEN [seen[c] EXCEPT ![j] = word] ELSE seen[c]]

updateJobStatus(j, word) ==
    /\ jobStatuses' = [jobStatuses EXCEPT ![j] = word]
    /\ statusAge' = [statusAge EXCEPT ![j] = 0]
    /\ broadcastJobUpdate(j, word)
    /\ UNCHANGED <<socket, quiet, sinceTimer>>

\* Redis has executed the add of the job.
jobAdded(j) ==
    /\ added[j] = "no"
    /\ added' = [added EXCEPT ![j] = "adding"]
    /\ UNCHANGED <<sessions, seen, statuses, completed, sinceTimer>>

markJobQueued(j) ==
    /\ added[j] = "adding"
    /\ added' = [added EXCEPT ![j] = "reported"]
    /\ updateJobStatus(j, "queued")
    /\ UNCHANGED completed

\* The worker emits 'completed': its handler asks Redis for the record.
jobCompleted(j) ==
    /\ added[j] # "no" /\ completed[j] = "no"
    /\ completed' = [completed EXCEPT ![j] = "reading"]
    /\ UNCHANGED <<sessions, seen, statuses, added, sinceTimer>>

\* Mutant: a record that cannot be read is not reported.
markJobCompletedMut(j) ==
    /\ completed[j] = "reading"
    /\ completed' = [completed EXCEPT ![j] = "reported"]
    /\ \/ updateJobStatus(j, "completed")
       \/ UNCHANGED <<sessions, seen, statuses, sinceTimer>>
    /\ UNCHANGED added

\* Redis has answered, with the record, without it or with an error.
markJobCompleted(j) ==
    /\ completed[j] = "reading"
    /\ completed' = [completed EXCEPT ![j] = "reported"]
    /\ updateJobStatus(j, "completed")
    /\ UNCHANGED added

-----------------------------------------------------------------------------
(***************************************************************************)
(* Time and the timer.                                                     *)
(***************************************************************************)
Older(a, limit) == IF a <= limit THEN a + 1 ELSE a

tick ==
    /\ age' = [c \in Clients |-> IF c \in clients THEN Older(age[c], MaxAge) ELSE age[c]]
    /\ quiet' = [c \in Clients |->
                   IF socket[c] = "open" THEN Older(quiet[c], MaxAge) ELSE quiet[c]]
    /\ statusAge' = [j \in Jobs |-> IF jobStatuses[j] # None
                                      THEN Older(statusAge[j], Retention) ELSE statusAge[j]]
    /\ sinceTimer' = IF sinceTimer < CleanupPeriod THEN sinceTimer + 1 ELSE sinceTimer
    /\ UNCHANGED <<socket, clients, jobIds, confirmed, seen, jobStatuses, jobs>>

\* Old connections, whatever their clients did lately.
cleanupInactiveClients ==
    LET old == {c \in clients : age[c] > MaxAge}
    IN  Close(old, "evicted") /\ Forget(old)

\* Mutant: nothing is cleaned up that is not completed.
cleanupOldJobsMut ==
    LET old == {j \in Jobs : jobStatuses[j] = "completed" /\ statusAge[j] > Retention}
    IN  /\ jobStatuses' = [j \in Jobs |-> IF j \in old THEN None ELSE jobStatuses[j]]
        /\ statusAge' = [j \in Jobs |-> IF j \in old THEN 0 ELSE statusAge[j]]

cleanupOldJobs ==
    LET old == {j \in Jobs : jobStatuses[j] # None /\ statusAge[j] > Retention}
    IN  /\ jobStatuses' = [j \in Jobs |-> IF j \in old THEN None ELSE jobStatuses[j]]
        /\ statusAge' = [j \in Jobs |-> IF j \in old THEN 0 ELSE statusAge[j]]

\* The timer may be late, never early.
timer ==
    /\ sinceTimer = CleanupPeriod
    /\ sinceTimer' = 0
    /\ cleanupInactiveClients
    /\ cleanupOldJobs
    /\ UNCHANGED <<seen, jobs>>

-----------------------------------------------------------------------------
Next ==
    \/ \E c \in Clients : registerClient(c) \/ disconnect(c)
    \/ \E c \in Clients, j \in Jobs :
         subscribeClientToJob(c, j) \/ unsubscribeClientFromJob(c, j) \/ sendJobStatus(c, j)
    \/ \E j \in Jobs : jobAdded(j) \/ markJobQueued(j) \/ jobCompleted(j) \/ markJobCompleted(j)
    \/ tick
    \/ timer

Spec == Init /\ [][Next]_vars

\* Redis answers or fails, and the code that waits for it goes on.
FairSpec == Spec /\ \A j \in Jobs : WF_vars(markJobQueued(j)) /\ WF_vars(markJobCompleted(j))

\* Time passes and the timer fires.
TimerRuns == WF_vars(tick) /\ WF_vars(timer)

-----------------------------------------------------------------------------
(***************************************************************************)
(* Properties.                                                             *)
(***************************************************************************)

\* However subscriptions, updates, failing sends and cleanups interleave, the
\* last thing a client whose subscription was confirmed was sent about a job is
\* the job's status, as long as it is kept.  Of a client that is subscribed but
\* got an error instead of the confirmation it does not hold: it may miss the
\* status the job had then, and is told of the next one (WebSocketService).
SubscribersCurrent ==
    \A c \in clients : \A j \in confirmed[c] :
        jobStatuses[j] # None => seen[c][j] = jobStatuses[j]

\* The map holds no client whose socket is gone, whichever of the client, a
\* failed send and the timer ended the session.
RegisteredAreOpen == \A c \in clients : socket[c] = "open"

\* Every session and every status is cleared in the end, even the status of
\* a job that failed and is never reported: nothing is kept for ever.
NothingIsKept ==
    TimerRuns =>
        /\ \A j \in Jobs : jobStatuses[j] # None ~> jobStatuses[j] = None
        /\ \A c \in Clients : c \in clients ~> c \notin clients

\* A client that is subscribed when its job completes is told, unless its
\* subscription or its session ends first; the timer is not needed for it.
CompletionIsTold ==
    \A c \in Clients, j \in Jobs :
        c \in Subscribers(j) /\ completed[j] = "reading" ~>
            seen[c][j] = "completed" \/ c \notin Subscribers(j)

\* Comment at websocket.service.ts:274: cleaned up are clients with "más de 5
\* minutos sin actividad".  It does not hold: the age of the connection is
\* what is tested, and a client that has just been heard is put out.
OnlyInactiveEvicted ==
    [][\A c \in Clients :
          socket[c] = "open" /\ socket'[c] = "evicted" => quiet[c] > MaxAge]_vars
=============================================================================
