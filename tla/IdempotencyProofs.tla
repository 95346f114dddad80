-------------------------- MODULE IdempotencyProofs --------------------------
(***************************************************************************)
(* What Idempotency promises for any keys and callers, any time to live    *)
(* and any number of operations.                                           *)
(***************************************************************************)
EXTENDS Idempotency, TLAPS

(* What the invariants need to be inductive: what is kept is the result of *)
(* a run that succeeded and no older than the last success, and the run    *)
(* under way is the last one of its key and has not succeeded.             *)
KeptIsGenuine ==
    \A k \in Keys :
        /\ completed[k] # None => completed[k].data \in succeeded[k]
        /\ sinceSuccess[k] <= TTL =>
              completed[k] # None /\ completed[k].age <= sinceSuccess[k]
        /\ succeeded[k] \subseteq 1 .. runs[k]

UnderWayIsLast ==
    \A c \in Callers :
        call[c].stage = "executing" =>
            /\ call[c].run = runs[call[c].key]
            /\ call[c].run \in Runs
            /\ call[c].run \notin succeeded[call[c].key]

IInv == TypeOK /\ NobodyIsForgotten /\ AnswersAreGenuine /\ KeptIsGenuine /\ UnderWayIsLast

\* Growing older keeps an age an age, and does not bring it under the limit.
LEMMA OlderIsAge ==
    ASSUME NEW a \in Ages
    PROVE  /\ Older(a) \in Ages
           /\ Older(a) <= TTL => a <= TTL /\ Older(a) = a + 1
BY IdempotencyAssumption DEF Older, Ages, Old

\* A result is told apart from its absence.
LEMMA ResultIsSome == None \notin Result
<1> SUFFICES ASSUME NEW r \in Result PROVE r # None
  OBVIOUS
<1>1. r \in [data : Nat, age : Nat]
  BY IdempotencyAssumption DEF Result, Runs, Ages
<1> QED
  BY <1>1, IdempotencyAssumption

-----------------------------------------------------------------------------
LEMMA InitIInv == Init => IInv
<1> SUFFICES ASSUME Init PROVE IInv
  OBVIOUS
<1> USE IdempotencyAssumption DEF Init
<1>1. TypeOK
  <2>1. Idle \in Call
    BY DEF Idle, Call
  <2> QED
    BY <2>1 DEF TypeOK, Idle, Ages, Old
<1>2. NobodyIsForgotten
  BY DEF NobodyIsForgotten, Idle
<1>3. AnswersAreGenuine
  BY DEF AnswersAreGenuine, Idle, Old
<1>4. KeptIsGenuine
  <2> SUFFICES ASSUME NEW k \in Keys
               PROVE  completed[k] = None /\ ~(sinceSuccess[k] <= TTL) /\ succeeded[k] = {}
    BY DEF KeptIsGenuine
  <2> QED
    BY DEF Old
<1>5. UnderWayIsLast
  BY DEF UnderWayIsLast, Idle
<1> QED
  BY <1>1, <1>2, <1>3, <1>4, <1>5 DEF IInv

-----------------------------------------------------------------------------
LEMMA ReplayIInv ==
    ASSUME IInv, NEW c \in Callers, NEW k \in Keys, replay(c, k)
    PROVE  IInv'
<1> USE DEF replay
<1> DEFINE n == completed[k].data
<1>1. n \in Runs /\ n \in succeeded[k]
  BY DEF IInv, TypeOK, KeptIsGenuine, Result
<1>2. Answer(k, n, FALSE) \in Call
  BY <1>1 DEF Answer, Call, Runs
<1>3. /\ call' \in [Callers -> Call]
      /\ call'[c] = Answer(k, n, FALSE)
      /\ \A d \in Callers \ {c} : call'[d] = call[d]
      /\ call[c].stage \in {"idle", "answered"}
  BY <1>2 DEF IInv, TypeOK, Free
<1>4. TypeOK'
  BY <1>3 DEF IInv, TypeOK, Answer
<1>5. NobodyIsForgotten'
  BY <1>3 DEF IInv, TypeOK, NobodyIsForgotten, Answer
<1>6. AnswersAreGenuine'
  BY <1>1, <1>3 DEF IInv, AnswersAreGenuine, Answer
<1>7. KeptIsGenuine'
  BY DEF IInv, KeptIsGenuine
<1>8. UnderWayIsLast'
  BY <1>3 DEF IInv, UnderWayIsLast, Answer
<1> QED
  BY <1>4, <1>5, <1>6, <1>7, <1>8 DEF IInv

LEMMA JoinIInv ==
    ASSUME IInv, NEW c \in Callers, NEW k \in Keys, join(c, k)
    PROVE  IInv'
<1> USE DEF join
<1> DEFINE w == [stage |-> "joined", key |-> k, run |-> runs[k], isNew |-> FALSE]
<1>2. w \in Call
  BY DEF Call, IInv, TypeOK
<1>3. /\ call' \in [Callers -> Call]
      /\ call'[c] = w
      /\ \A d \in Callers \ {c} : call'[d] = call[d]
      /\ call[c].stage \in {"idle", "answered"}
  BY <1>2 DEF IInv, TypeOK, Free
<1>4. TypeOK'
  BY <1>3 DEF IInv, TypeOK
<1>5. NobodyIsForgotten'
  BY <1>3 DEF IInv, TypeOK, NobodyIsForgotten
<1>6. AnswersAreGenuine'
  BY <1>3 DEF IInv, AnswersAreGenuine
<1>7. KeptIsGenuine'
  BY DEF IInv, KeptIsGenuine
<1>8. UnderWayIsLast'
  BY <1>3 DEF IInv, UnderWayIsLast
<1> QED
  BY <1>4, <1>5, <1>6, <1>7, <1>8 DEF IInv

LEMMA StartIInv ==
    ASSUME IInv, NEW c \in Callers, NEW k \in Keys, start(c, k)
    PROVE  IInv'
<1> USE IdempotencyAssumption DEF start
<1> DEFINE w == [stage |-> "executing", key |-> k, run |-> runs[k] + 1, isNew |-> TRUE]
<1>1. runs[k] \in 0 .. MaxRuns /\ runs[k] + 1 \in Runs
  BY DEF IInv, TypeOK, Runs
<1>2. w \in Call
  BY <1>1 DEF Call, Runs
<1>3. /\ call' \in [Callers -> Call]
      /\ call'[c] = w
      /\ \A d \in Callers \ {c} : call'[d] = call[d]
      /\ call[c].stage \in {"idle", "answered"}
  BY <1>2 DEF IInv, TypeOK, Free
<1>4. /\ runs' \in [Keys -> 0 .. MaxRuns]
      /\ runs'[k] = runs[k] + 1
      /\ \A i \in Keys \ {k} : runs'[i] = runs[i]
      /\ inProgress' \in [Keys -> Callers \cup {None}]
      /\ inProgress'[k] = c
      /\ \A i \in Keys \ {k} : inProgress'[i] = inProgress[i]
  BY <1>1 DEF IInv, TypeOK, Runs
<1>5. TypeOK'
  BY <1>3, <1>4 DEF IInv, TypeOK
<1>6. NobodyIsForgotten'
  BY <1>3, <1>4 DEF IInv, TypeOK, NobodyIsForgotten
<1>7. AnswersAreGenuine'
  BY <1>3 DEF IInv, AnswersAreGenuine
<1>8. KeptIsGenuine'
  <2> SUFFICES ASSUME NEW i \in Keys PROVE succeeded[i] \subseteq 1 .. runs'[i]
    BY DEF IInv, KeptIsGenuine
  <2>1. succeeded[i] \subseteq 1 .. runs[i]
    BY DEF IInv, KeptIsGenuine
  <2> QED
    BY <1>1, <1>4, <2>1
<1>9. UnderWayIsLast'
  <2> SUFFICES ASSUME NEW d \in Callers, call'[d].stage = "executing"
               PROVE  /\ call'[d].run = runs'[call'[d].key]
                      /\ call'[d].run \in Runs
                      /\ call'[d].run \notin succeeded[call'[d].key]
    BY DEF UnderWayIsLast
  <2>1. CASE d = c
    <3>1. succeeded[k] \subseteq 1 .. runs[k]
      BY DEF IInv, KeptIsGenuine
    <3> QED
      BY <1>1, <1>3, <1>4, <2>1, <3>1
  <2>2. CASE d # c
    <3>1. call[d].key # k
      BY <1>3, <2>2 DEF IInv, NobodyIsForgotten
    <3> QED
      BY <1>3, <1>4, <2>2, <3>1 DEF IInv, TypeOK, UnderWayIsLast
  <2> QED
    BY <2>1, <2>2
<1> QED
  BY <1>5, <1>6, <1>7, <1>8, <1>9 DEF IInv

LEMMA SucceedIInv ==
    ASSUME IInv, NEW c \in Callers, succeed(c)
    PROVE  IInv'
<1> USE IdempotencyAssumption
<1> DEFINE k == call[c].key
           n == call[c].run
           r == [data |-> n, age |-> 0]
<1>1. k \in Keys /\ n \in Runs /\ n = runs[k] /\ n \notin succeeded[k] /\ inProgress[k] = c
  BY DEF IInv, TypeOK, UnderWayIsLast, NobodyIsForgotten, succeed
<1>2. r \in Result /\ r # None
  BY <1>1 DEF Result, Ages, Runs
<1>3. \A b \in BOOLEAN : Answer(k, n, b) \in Call
  BY <1>1 DEF Answer, Call, Runs
<1>4. /\ call' \in [Callers -> Call]
      /\ \A d \in Callers : Waits(d, k) => call'[d] = Answer(k, n, d = c)
      /\ \A d \in Callers : ~Waits(d, k) => call'[d] = call[d]
  BY <1>3 DEF IInv, TypeOK, succeed
<1>5. /\ completed' \in [Keys -> Result \cup {None}]
      /\ completed'[k] = r
      /\ \A i \in Keys \ {k} : completed'[i] = completed[i]
  BY <1>1, <1>2 DEF IInv, TypeOK, succeed
<1>6. /\ inProgress' \in [Keys -> Callers \cup {None}]
      /\ inProgress'[k] = None
      /\ \A i \in Keys \ {k} : inProgress'[i] = inProgress[i]
  BY <1>1 DEF IInv, TypeOK, succeed
<1>7. /\ succeeded' \in [Keys -> SUBSET Runs]
      /\ succeeded'[k] = succeeded[k] \cup {n}
      /\ \A i \in Keys \ {k} : succeeded'[i] = succeeded[i]
      /\ sinceSuccess' \in [Keys -> Ages]
      /\ sinceSuccess'[k] = 0
      /\ \A i \in Keys \ {k} : sinceSuccess'[i] = sinceSuccess[i]
      /\ runs' = runs
  BY <1>1 DEF IInv, TypeOK, Ages, succeed
<1>8. \A d \in Callers : call'[d].stage \in {"executing", "joined"} =>
          call'[d] = call[d] /\ call[d].key # k
  BY <1>4 DEF Waits, Answer
<1>9. TypeOK'
  <2>1. \A d \in Callers : call'[d].stage # "idle" => call'[d].key \in Keys
    BY <1>1, <1>4 DEF IInv, TypeOK, Answer
  <2> QED
    BY <1>4, <1>5, <1>6, <1>7, <2>1 DEF IInv, TypeOK
<1>10. NobodyIsForgotten'
  <2>1. ASSUME NEW i \in Keys, inProgress'[i] # None
        PROVE  call'[inProgress'[i]].stage = "executing" /\ call'[inProgress'[i]].key = i
    BY <1>4, <1>6, <2>1 DEF IInv, TypeOK, NobodyIsForgotten, Waits
  <2>2. ASSUME NEW d \in Callers, call'[d].stage = "executing"
        PROVE  inProgress'[call'[d].key] = d
    BY <1>6, <1>8, <2>2 DEF IInv, TypeOK, NobodyIsForgotten
  <2>3. ASSUME NEW d \in Callers, call'[d].stage = "joined"
        PROVE  inProgress'[call'[d].key] # None /\ call'[d].run = runs'[call'[d].key]
    BY <1>6, <1>7, <1>8, <2>3 DEF IInv, TypeOK, NobodyIsForgotten
  <2> QED
    BY <2>1, <2>2, <2>3 DEF NobodyIsForgotten
<1>11. AnswersAreGenuine'
  <2>1. ASSUME NEW i \in Keys, sinceSuccess'[i] <= TTL PROVE completed'[i] # None
    BY <1>2, <1>5, <1>7, <2>1 DEF IInv, AnswersAreGenuine
  <2>2. ASSUME NEW d \in Callers, call'[d].stage = "answered"
        PROVE  /\ call'[d].run \in succeeded'[call'[d].key]
               /\ \/ call'[d] = Answer(k, n, d = c)
                  \/ /\ call'[d] = call[d]
                     /\ call[d].run \in succeeded[call[d].key] /\ call[d].key \in Keys
    <3>1. CASE Waits(d, k)
      BY <1>1, <1>4, <1>7, <3>1 DEF Answer
    <3>2. CASE ~Waits(d, k)
      BY <1>4, <1>7, <2>2, <3>2 DEF IInv, TypeOK, AnswersAreGenuine
    <3> QED
      BY <3>1, <3>2
  <2>3. ASSUME NEW d \in Callers, NEW e \in Callers,
               call'[d].stage = "answered", call'[e].stage = "answered",
               call'[d].isNew, call'[e].isNew,
               call'[d].key = call'[e].key, call'[d].run = call'[e].run
        PROVE  d = e
    <3> DEFINE New(x) == call'[x] = Answer(k, n, x = c)
               Kept(x) == /\ call'[x] = call[x]
                          /\ call[x].run \in succeeded[call[x].key]
    <3>1. (New(d) \/ Kept(d)) /\ (New(e) \/ Kept(e))
      BY <2>2, <2>3
    <3>2. CASE New(d) /\ New(e)
      <4>1. ASSUME NEW x \in Callers, New(x), x # c PROVE call'[x].isNew = FALSE
        <5>1. call'[x] = Answer(k, n, FALSE)
          BY <4>1, Zenon
        <5> QED
          BY <5>1 DEF Answer
      <4>2. d = c /\ e = c
        BY <2>3, <3>2, <4>1
      <4> QED
        BY <4>2
    <3>3. CASE Kept(d) /\ Kept(e)
      BY <2>3, <3>3 DEF IInv, AnswersAreGenuine
    <3>4. CASE New(d) /\ Kept(e)
      BY <1>1, <2>3, <3>4 DEF Answer
    <3>5. CASE Kept(d) /\ New(e)
      BY <1>1, <2>3, <3>5 DEF Answer
    <3> QED
      BY <3>1, <3>2, <3>3, <3>4, <3>5
  <2> QED
    BY <2>1, <2>2, <2>3 DEF AnswersAreGenuine
<1>12. KeptIsGenuine'
  <2> SUFFICES ASSUME NEW i \in Keys
               PROVE  /\ completed'[i] # None => completed'[i].data \in succeeded'[i]
                      /\ sinceSuccess'[i] <= TTL =>
                            completed'[i] # None /\ completed'[i].age <= sinceSuccess'[i]
                      /\ succeeded'[i] \subseteq 1 .. runs'[i]
    BY DEF KeptIsGenuine
  <2>1. CASE i = k
    <3>1. n \in 1 .. runs[k] /\ succeeded[k] \subseteq 1 .. runs[k]
      BY <1>1 DEF IInv, KeptIsGenuine, Runs
    <3> QED
      BY <1>2, <1>5, <1>7, <2>1, <3>1
  <2>2. CASE i # k
    BY <1>5, <1>7, <2>2 DEF IInv, KeptIsGenuine
  <2> QED
    BY <2>1, <2>2
<1>13. UnderWayIsLast'
  BY <1>7, <1>8 DEF IInv, TypeOK, UnderWayIsLast
<1> QED
  BY <1>9, <1>10, <1>11, <1>12, <1>13 DEF IInv

LEMMA FailIInv ==
    ASSUME IInv, NEW c \in Callers, fail(c)
    PROVE  IInv'
<1> DEFINE k == call[c].key
<1>1. k \in Keys
  BY DEF IInv, TypeOK, fail
<1>2. Idle \in Call /\ Idle.stage = "idle"
  BY IdempotencyAssumption DEF Idle, Call
<1>3. /\ call' \in [Callers -> Call]
      /\ \A d \in Callers : Waits(d, k) => call'[d] = Idle
      /\ \A d \in Callers : ~Waits(d, k) => call'[d] = call[d]
  BY <1>2 DEF IInv, TypeOK, fail
<1>4. /\ inProgress' \in [Keys -> Callers \cup {None}]
      /\ inProgress'[k] = None
      /\ \A i \in Keys \ {k} : inProgress'[i] = inProgress[i]
      /\ UNCHANGED <<completed, runs, succeeded, sinceSuccess>>
  BY <1>1 DEF IInv, TypeOK, fail
<1>5. \A d \in Callers : call'[d].stage # "idle" => call'[d] = call[d] /\ ~Waits(d, k)
  BY <1>2, <1>3
<1>6. TypeOK'
  BY <1>3, <1>4, <1>5 DEF IInv, TypeOK
<1>7. NobodyIsForgotten'
  <2>1. ASSUME NEW i \in Keys, inProgress'[i] # None
        PROVE  call'[inProgress'[i]].stage = "executing" /\ call'[inProgress'[i]].key = i
    BY <1>3, <1>4, <2>1 DEF IInv, TypeOK, NobodyIsForgotten, Waits
  <2>2. ASSUME NEW d \in Callers, call'[d].stage \in {"executing", "joined"}
        PROVE  /\ call'[d] = call[d] /\ call[d].key \in Keys
               /\ inProgress'[call'[d].key] = inProgress[call[d].key]
    BY <1>4, <1>5, <2>2 DEF IInv, TypeOK, Waits
  <2> QED
    BY <1>4, <2>1, <2>2 DEF IInv, NobodyIsForgotten
<1>8. AnswersAreGenuine'
  BY <1>4, <1>5 DEF IInv, AnswersAreGenuine
<1>9. KeptIsGenuine'
  BY <1>4 DEF IInv, KeptIsGenuine
<1>10. UnderWayIsLast'
  BY <1>4, <1>5 DEF IInv, UnderWayIsLast
<1> QED
  BY <1>6, <1>7, <1>8, <1>9, <1>10 DEF IInv

LEMMA TickIInv ==
    ASSUME IInv, tick
    PROVE  IInv'
<1> USE IdempotencyAssumption DEF tick
<1>1. ASSUME NEW k \in Keys, completed[k] # None
      PROVE  /\ completed[k] \in Result
             /\ completed'[k] = [completed[k] EXCEPT !.age = Older(@)]
             /\ completed'[k] \in Result /\ completed'[k] # None
             /\ completed'[k].data = completed[k].data
             /\ completed'[k].age = Older(completed[k].age)
  <2>1. completed[k] \in Result
    BY <1>1 DEF IInv, TypeOK
  <2>2. completed'[k] = [completed[k] EXCEPT !.age = Older(@)]
    BY <1>1
  <2>3. completed'[k] \in Result
    BY <2>1, <2>2, OlderIsAge DEF Result
  <2>4. completed'[k] # None
    BY <2>3, ResultIsSome
  <2> QED
    BY <2>1, <2>2, <2>3, <2>4 DEF Result
<1>2. \A k \in Keys : completed[k] = None => completed'[k] = None
  OBVIOUS
<1>3. \A k \in Keys : sinceSuccess'[k] = Older(sinceSuccess[k]) /\ sinceSuccess[k] \in Ages
  BY DEF IInv, TypeOK
<1>4. TypeOK'
  <2>1. completed' \in [Keys -> Result \cup {None}]
    BY <1>1, <1>2
  <2>2. sinceSuccess' \in [Keys -> Ages]
    BY <1>3, OlderIsAge
  <2> QED
    BY <2>1, <2>2 DEF IInv, TypeOK
<1>5. NobodyIsForgotten'
  BY DEF IInv, NobodyIsForgotten
<1>6. KeptIsGenuine'
  <2> SUFFICES ASSUME NEW k \in Keys
               PROVE  /\ completed'[k] # None => completed'[k].data \in succeeded[k]
                      /\ sinceSuccess'[k] <= TTL =>
                            completed'[k] # None /\ completed'[k].age <= sinceSuccess'[k]
                      /\ succeeded[k] \subseteq 1 .. runs[k]
    BY DEF KeptIsGenuine
  <2>1. completed'[k] # None => completed'[k].data \in succeeded[k]
    BY <1>1, <1>2 DEF IInv, KeptIsGenuine
  <2>2. ASSUME sinceSuccess'[k] <= TTL
        PROVE  completed'[k] # None /\ completed'[k].age <= sinceSuccess'[k]
    <3>1. sinceSuccess[k] <= TTL /\ sinceSuccess'[k] = sinceSuccess[k] + 1
      BY <1>3, <2>2, OlderIsAge
    <3>2. completed[k] # None /\ completed[k].age <= sinceSuccess[k]
      BY <3>1 DEF IInv, KeptIsGenuine
    <3>3. completed'[k].age = Older(completed[k].age) /\ completed[k].age \in Ages
      BY <1>1, <3>2 DEF Result
    <3> QED
      BY <1>1, <1>3, <3>1, <3>2, <3>3 DEF Older, Ages, Old
  <2> QED
    BY <2>1, <2>2 DEF IInv, KeptIsGenuine
<1>7. AnswersAreGenuine'
  BY <1>6 DEF IInv, AnswersAreGenuine, KeptIsGenuine
<1>8. UnderWayIsLast'
  BY DEF IInv, UnderWayIsLast
<1> QED
  BY <1>4, <1>5, <1>6, <1>7, <1>8 DEF IInv

LEMMA CleanupIInv ==
    ASSUME IInv, cleanup
    PROVE  IInv'
<1> USE IdempotencyAssumption DEF cleanup
<1>1. \A k \in Keys : completed'[k] = completed[k] \/ completed'[k] = None
  OBVIOUS
<1>2. ASSUME NEW k \in Keys, sinceSuccess[k] <= TTL PROVE completed'[k] = completed[k]
  <2>1. completed[k] # None /\ completed[k].age <= sinceSuccess[k]
    BY <1>2 DEF IInv, KeptIsGenuine
  <2>2. completed[k].age \in Ages /\ sinceSuccess[k] \in Ages
    BY <2>1 DEF IInv, TypeOK, Result
  <2> QED
    BY <1>2, <2>1, <2>2 DEF Ages
<1>3. TypeOK'
  BY <1>1 DEF IInv, TypeOK
<1>4. NobodyIsForgotten'
  BY DEF IInv, NobodyIsForgotten
<1>5. KeptIsGenuine'
  BY <1>1, <1>2 DEF IInv, KeptIsGenuine
<1>6. AnswersAreGenuine'
  BY <1>2 DEF IInv, AnswersAreGenuine
<1>7. UnderWayIsLast'
  BY DEF IInv, UnderWayIsLast
<1> QED
  BY <1>3, <1>4, <1>5, <1>6, <1>7 DEF IInv

LEMMA RestartIInv ==
    ASSUME IInv, restart
    PROVE  IInv'
<1> USE IdempotencyAssumption DEF restart
<1>1. Idle \in Call /\ \A c \in Callers : call'[c].stage = "idle"
  BY DEF Idle, Call
<1>2. TypeOK'
  BY <1>1 DEF IInv, TypeOK, Ages, Old
<1>3. NobodyIsForgotten'
  BY <1>1 DEF NobodyIsForgotten
<1>4. AnswersAreGenuine'
  BY <1>1 DEF AnswersAreGenuine, Old
<1>5. KeptIsGenuine'
  BY DEF IInv, KeptIsGenuine, Old
<1>6. UnderWayIsLast'
  BY <1>1 DEF UnderWayIsLast
<1> QED
  BY <1>2, <1>3, <1>4, <1>5, <1>6 DEF IInv

LEMMA NextIInv == IInv /\ [Next]_vars => IInv'
<1> SUFFICES ASSUME IInv, [Next]_vars PROVE IInv'
  OBVIOUS
<1>1. CASE \E c \in Callers, k \in Keys : replay(c, k) \/ join(c, k) \/ start(c, k)
  BY <1>1, ReplayIInv, JoinIInv, StartIInv
<1>2. CASE \E c \in Callers : succeed(c) \/ fail(c)
  BY <1>2, SucceedIInv, FailIInv
<1>3. CASE tick
  BY <1>3, TickIInv
<1>4. CASE cleanup
  BY <1>4, CleanupIInv
<1>5. CASE restart
  BY <1>5, RestartIInv
<1>6. CASE UNCHANGED vars
  BY <1>6 DEF vars, IInv, TypeOK, NobodyIsForgotten, AnswersAreGenuine, KeptIsGenuine,
              UnderWayIsLast, Result, Call, Waits
<1> QED
  BY <1>1, <1>2, <1>3, <1>4, <1>5, <1>6 DEF Next

LEMMA Invariance == Spec => []IInv
BY InitIInv, NextIInv, PTL DEF Spec

(* IdempotencyService keeps its types: in particular a failure is never    *)
(* kept as a result.                                                       *)
THEOREM TypeCorrect == Spec => []TypeOK
BY Invariance, PTL DEF IInv

(* Every caller that waits, waits for a run that is under way.             *)
THEOREM NobodyLeftWaiting == Spec => []NobodyIsForgotten
BY Invariance, PTL DEF IInv

(* Every answer of executeWithIdempotency() is the result of a run of its  *)
(* key that succeeded, and one caller at most is told that it is new.      *)
THEOREM EveryAnswerGenuine == Spec => []AnswersAreGenuine
BY Invariance, PTL DEF IInv

(* No message is sent while one is under way for its key or its result is  *)
(* fresh.                                                                  *)
THEOREM ExecutedOnce == Spec => OncePerKey
<1> DEFINE Step == \A k \in Keys : runs'[k] # runs[k] =>
                      /\ sinceSuccess[k] > TTL
                      /\ \A c \in Callers : ~(call[c].stage = "executing" /\ call[c].key = k)
<1>1. ASSUME IInv, [Next]_vars PROVE [Step]_vars
  <2> SUFFICES ASSUME Next, NEW k \in Keys, runs'[k] # runs[k]
               PROVE  /\ sinceSuccess[k] > TTL
                      /\ \A c \in Callers : ~(call[c].stage = "executing" /\ call[c].key = k)
    BY <1>1
  <2>1. PICK c \in Callers, i \in Keys : start(c, i)
    BY DEF Next, replay, join, succeed, fail, tick, cleanup, restart
  <2>2. i = k
    BY <2>1 DEF start, IInv, TypeOK
  <2>3. sinceSuccess[k] \in Ages /\ ~(sinceSuccess[k] <= TTL)
    BY <1>1, <2>1, <2>2 DEF start, IInv, TypeOK, AnswersAreGenuine
  <2>4. sinceSuccess[k] > TTL
    BY <2>3, IdempotencyAssumption DEF Ages
  <2>5. ASSUME NEW d \in Callers, call[d].stage = "executing", call[d].key = k PROVE FALSE
    BY <1>1, <2>1, <2>2, <2>5, IdempotencyAssumption DEF start, IInv, NobodyIsForgotten
  <2> QED
    BY <2>4, <2>5
<1> QED
  BY <1>1, Invariance, PTL DEF Spec, OncePerKey
=============================================================================
