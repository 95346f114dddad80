----------------------------- MODULE Idempotency -----------------------------
(***************************************************************************)
(* IdempotencyService under the calls of the atomic enrollment endpoints:  *)
(* an operation runs once per key, callers that come meanwhile wait for    *)
(* it, and those that come later are given its result as long as it is     *)
(* kept.                                                                   *)
(*                                                                         *)
(* A call runs without interruption up to its await.  When the operation   *)
(* settles, the call that started it and those that joined it continue one *)
(* after the other before any other request or answer is let in.           *)
(***************************************************************************)
EXTENDS Naturals

CONSTANTS
    Keys,       \* the keys of operations
    Callers,    \* requests that may be under way at a time
    None,
    TTL,        \* TTL_MS, in units of time
    MaxRuns     \* bound: operations started under a key

VARIABLES
    inProgress,     \* operationsInProgress: key -> the call that runs, or None
    completed,      \* completedOperations: key -> the result, or None
    call,           \* what each caller waits for or was last told
    runs,           \* key -> operations started so far; a run's number is its result
    succeeded,      \* key -> the runs that succeeded
    sinceSuccess    \* key -> time since a run succeeded; stops at TTL + 1

vars == <<inProgress, completed, call, runs, succeeded, sinceSuccess>>

ASSUME IdempotencyAssumption ==
    /\ TTL \in Nat /\ MaxRuns \in Nat
    /\ None \notin Callers /\ None \notin [data : Nat, age : Nat]

Ages == 0 .. (TTL + 1)
Old == TTL + 1
Runs == 1 .. MaxRuns
Older(age) == IF age < Old THEN age + 1 ELSE age

Idle == [stage |-> "idle", key |-> None, run |-> 0, isNew |-> FALSE]
Answer(k, n, isNew) == [stage |-> "answered", key |-> k, run |-> n, isNew |-> isNew]

-----------------------------------------------------------------------------
Init ==
    /\ inProgress = [k \in Keys |-> None]
    /\ completed = [k \in Keys |-> None]
    /\ call = [c \in Callers |-> Idle]
    /\ runs = [k \in Keys |-> 0]
    /\ succeeded = [k \in Keys |-> {}]
    /\ sinceSuccess = [k \in Keys |-> Old]

Free(c) == call[c].stage \in {"idle", "answered"}

(* executeWithIdempotency(), up to its await: the result is kept, *)
replay(c, k) ==
    /\ Free(c)
    /\ completed[k] # None
    /\ call' = [call EXCEPT ![c] = Answer(k, completed[k].data, FALSE)]
    /\ UNCHANGED <<inProgress, completed, runs, succeeded, sinceSuccess>>

(* the operation is under way, *)
join(c, k) ==
    /\ Free(c)
    /\ completed[k] = None /\ inProgress[k] # None
    /\ call' = [call EXCEPT ![c] = [stage |-> "joined", key |-> k, run |-> runs[k],
                                    isNew |-> FALSE]]
    /\ UNCHANGED <<inProgress, completed, runs, succeeded, sinceSuccess>>

(* A wrong version of the next: the operation is entered in the map after   *)
(* an await, too late for the calls that come meanwhile.                   *)
startMut(c, k) ==
    /\ Free(c)
    /\ completed[k] = None
    /\ runs[k] < MaxRuns
    /\ runs' = [runs EXCEPT ![k] = @ + 1]
    /\ inProgress' = [inProgress EXCEPT ![k] = c]
    /\ call' = [call EXCEPT ![c] = [stage |-> "executing", key |-> k,
                                    run |-> runs[k] + 1, isNew |-> TRUE]]
    /\ UNCHANGED <<completed, succeeded, sinceSuccess>>

(* or neither: the message is sent to the microservice. *)
start(c, k) ==
    /\ Free(c)
    /\ completed[k] = None /\ inProgress[k] = None
    /\ runs[k] < MaxRuns
    /\ runs' = [runs EXCEPT ![k] = @ + 1]
    /\ inProgress' = [inProgress EXCEPT ![k] = c]
    /\ call' = [call EXCEPT ![c] = [stage |-> "executing", key |-> k,
                                    run |-> runs[k] + 1, isNew |-> TRUE]]
    /\ UNCHANGED <<completed, succeeded, sinceSuccess>>

Waits(c, k) == call[c].stage \in {"executing", "joined"} /\ call[c].key = k

(* The microservice answers: the result is kept, and told to all who wait. *)
succeed(c) ==
    LET k == call[c].key
        n == call[c].run
    IN  /\ call[c].stage = "executing"
        /\ completed' = [completed EXCEPT ![k] = [data |-> n, age |-> 0]]
        /\ inProgress' = [inProgress EXCEPT ![k] = None]
        /\ call' = [d \in Callers |->
                       IF Waits(d, k) THEN Answer(k, n, d = c) ELSE call[d]]
        /\ succeeded' = [succeeded EXCEPT ![k] = @ \cup {n}]
        /\ sinceSuccess' = [sinceSuccess EXCEPT ![k] = 0]
        /\ UNCHANGED runs

(* A wrong version of the one after: the error is kept as if it were a result. *)
failMutKept(c) ==
    LET k == call[c].key
    IN  /\ call[c].stage = "executing"
        /\ completed' = [completed EXCEPT ![k] = [data |-> 0, age |-> 0]]
        /\ inProgress' = [inProgress EXCEPT ![k] = None]
        /\ call' = [d \in Callers |-> IF Waits(d, k) THEN Idle ELSE call[d]]
        /\ UNCHANGED <<runs, succeeded, sinceSuccess>>

(* A wrong version of the next: those who joined wait on. *)
failMut(c) ==
    LET k == call[c].key
    IN  /\ call[c].stage = "executing"
        /\ inProgress' = [inProgress EXCEPT ![k] = None]
        /\ call' = [call EXCEPT ![c] = Idle]
        /\ UNCHANGED <<completed, runs, succeeded, sinceSuccess>>

(* It answers with an error: all who wait are told the error. *)
fail(c) ==
    LET k == call[c].key
    IN  /\ call[c].stage = "executing"
        /\ inProgress' = [inProgress EXCEPT ![k] = None]
        /\ call' = [d \in Callers |-> IF Waits(d, k) THEN Idle ELSE call[d]]
        /\ UNCHANGED <<completed, runs, succeeded, sinceSuccess>>

tick ==
    /\ sinceSuccess' = [k \in Keys |-> Older(sinceSuccess[k])]
    /\ completed' = [k \in Keys |->
                        IF completed[k] = None THEN None
                        ELSE [completed[k] EXCEPT !.age = Older(@)]]
    /\ UNCHANGED <<inProgress, call, runs, succeeded>>

(* A wrong version of the next: the timer forgets everything. *)
cleanupMut ==
    /\ completed' = [k \in Keys |-> None]
    /\ UNCHANGED <<inProgress, call, runs, succeeded, sinceSuccess>>

(* The timer, which may be late. *)
cleanup ==
    /\ completed' = [k \in Keys |->
                        IF completed[k] # None /\ completed[k].age > TTL THEN None
                        ELSE completed[k]]
    /\ UNCHANGED <<inProgress, call, runs, succeeded, sinceSuccess>>

(* The process restarts: the maps are lost, and the connections of callers. *)
restart ==
    /\ inProgress' = [k \in Keys |-> None]
    /\ completed' = [k \in Keys |-> None]
    /\ call' = [c \in Callers |-> Idle]
    /\ sinceSuccess' = [k \in Keys |-> Old]
    /\ UNCHANGED <<runs, succeeded>>

Next ==
    \/ \E c \in Callers, k \in Keys : replay(c, k) \/ join(c, k) \/ start(c, k)
    \/ \E c \in Callers : succeed(c) \/ fail(c)
    \/ tick
    \/ cleanup
    \/ restart

(* No fairness: nothing makes the microservice answer, send() has no        *)
(* timeout.                                                                *)
Spec == Init /\ [][Next]_vars

-----------------------------------------------------------------------------
Result == [data : Runs, age : Ages]
Call == [stage : {"idle", "executing", "joined", "answered"}, key : Keys \cup {None},
         run : 0 .. MaxRuns, isNew : BOOLEAN]

(* The type of every variable of IdempotencyService and of its callers. *)
TypeOK ==
    /\ inProgress \in [Keys -> Callers \cup {None}]
    /\ completed \in [Keys -> Result \cup {None}]
    /\ call \in [Callers -> Call]
    /\ \A c \in Callers : call[c].stage # "idle" => call[c].key \in Keys
    /\ runs \in [Keys -> 0 .. MaxRuns]
    /\ succeeded \in [Keys -> SUBSET Runs]
    /\ sinceSuccess \in [Keys -> Ages]

(* The map of operations under way names exactly the call that runs each,   *)
(* and whoever joined one waits for the run that is under way: nobody is   *)
(* left waiting for an operation that has settled (executeWithIdempotency, *)
(* its finally).                                                           *)
NobodyIsForgotten ==
    /\ \A k \in Keys : inProgress[k] # None =>
          /\ call[inProgress[k]].stage = "executing"
          /\ call[inProgress[k]].key = k
    /\ \A c \in Callers : call[c].stage = "executing" => inProgress[call[c].key] = c
    /\ \A c \in Callers : call[c].stage = "joined" =>
          inProgress[call[c].key] # None /\ call[c].run = runs[call[c].key]

(* What succeeded within the time to live is kept.  With it every answer    *)
(* is the result of a run of its own key that succeeded, and of those who   *)
(* were told one result one at most was told that it is new.               *)
AnswersAreGenuine ==
    /\ \A k \in Keys : sinceSuccess[k] <= TTL => completed[k] # None
    /\ \A c \in Callers : call[c].stage = "answered" =>
          call[c].run \in succeeded[call[c].key]
    /\ \A c, d \in Callers :
          /\ call[c].stage = "answered" /\ call[d].stage = "answered"
          /\ call[c].isNew /\ call[d].isNew
          /\ call[c].key = call[d].key /\ call[c].run = call[d].run
          => c = d

(* A message is sent for a key only when no operation is under way under    *)
(* that key and none has succeeded within the time to live, while the       *)
(* process lives (executeWithIdempotency).                                  *)
OncePerKey ==
    [][\A k \in Keys : runs'[k] # runs[k] =>
          /\ sinceSuccess[k] > TTL
          /\ \A c \in Callers : ~(call[c].stage = "executing" /\ call[c].key = k)]_vars
=============================================================================
