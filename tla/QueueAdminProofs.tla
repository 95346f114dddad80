-------------------------- MODULE QueueAdminProofs --------------------------
(***************************************************************************)
(* Proofs about QueueAdmin for any number of calls and workers, any        *)
(* definitions and updates, any number of failed saves and restarts.       *)
(***************************************************************************)
EXTENDS QueueAdmin, FiniteSetTheorems, SequenceTheorems, WellFoundedInduction, TLAPS

-----------------------------------------------------------------------------
(***************************************************************************)
(* Numbers and sequences.                                                  *)
(***************************************************************************)

\* A set of numbers that is not empty has a smallest one.
LEMMA Smallest ==
    ASSUME NEW S, S \subseteq Nat, S # {}
    PROVE  \E x \in S : \A y \in S : x <= y
<1>1. PICK x \in S : \A y \in S : ~(<<y, x>> \in OpToRel(<, Nat))
  BY NatLessThanWellFounded, WFMin
<1>2. ASSUME NEW y \in S PROVE x <= y
  <2>1. x \in Nat /\ y \in Nat
    OBVIOUS
  <2>2. ~(y < x)
    BY <1>1, <2>1 DEF OpToRel
  <2>. QED
    BY <2>1, <2>2
<1>. QED
  BY <1>2

\* One that is bounded has a greatest, which Max finds.
LEMMA MaxProperties ==
    ASSUME NEW S, S \subseteq Nat, S # {}, NEW n \in Nat, \A x \in S : x <= n
    PROVE  Max(S) \in S /\ \A y \in S : y <= Max(S)
<1>. DEFINE T == {n - x : x \in S}
<1>1. T \subseteq Nat /\ T # {}
  <2>1. \A x \in S : n - x \in Nat
    OBVIOUS
  <2>2. T # {}
    BY Zenon
  <2>. QED
    BY <2>1, <2>2, Zenon
<1>2. PICK t \in T : \A u \in T : t <= u
  BY <1>1, Smallest
<1>3. PICK x \in S : t = n - x
  OBVIOUS
<1>4. ASSUME NEW y \in S PROVE x >= y
  <2>1. n - x <= n - y
    BY <1>2, <1>3
  <2>. QED
    BY <2>1
<1>5. \E z \in S : \A y \in S : z >= y
  BY <1>4
<1>6. Max(S) \in S /\ \A y \in S : Max(S) >= y
  BY <1>5, Zenon DEF Max
<1>. QED
  BY <1>6

\* RemoveAt closes the gap.
LEMMA RemoveAtProperties ==
    ASSUME NEW S, NEW s \in Seq(S), NEW n \in 1..Len(s)
    PROVE  /\ RemoveAt(s, n) \in Seq(S)
           /\ Len(RemoveAt(s, n)) = Len(s) - 1
           /\ \A i \in 1..(Len(s) - 1) : RemoveAt(s, n)[i] = IF i < n THEN s[i] ELSE s[i + 1]
<1>. DEFINE a == SubSeq(s, 1, n - 1)
            b == SubSeq(s, n + 1, Len(s))
<1>1. Len(s) \in Nat /\ \A i \in 1..Len(s) : s[i] \in S
  BY LenProperties
<1>2. a \in Seq(S) /\ Len(a) = n - 1 /\ \A i \in 1..(n - 1) : a[i] = s[i]
  <2>1. n - 1 \in Int /\ \A i \in 1..(n - 1) : s[i] \in S
    BY <1>1
  <2>. HIDE DEF a
  <2>. QED
    BY <1>1, <2>1, SubSeqProperties DEF a
<1>3. b \in Seq(S) /\ Len(b) = Len(s) - n /\ \A i \in 1..(Len(s) - n) : b[i] = s[i + n]
  <2>1. n + 1 \in Int /\ Len(s) \in Int /\ \A i \in (n + 1)..Len(s) : s[i] \in S
    BY <1>1
  <2>2. /\ b \in Seq(S) /\ Len(b) = IF n + 1 <= Len(s) THEN Len(s) - (n + 1) + 1 ELSE 0
        /\ \A i \in 1..(Len(s) - (n + 1) + 1) : b[i] = s[n + 1 + i - 1]
    BY <2>1, SubSeqProperties
  <2>. HIDE DEF b
  <2>. QED
    BY <1>1, <2>1, <2>2
<1>4. RemoveAt(s, n) = a \o b
  BY DEF RemoveAt
<1>. HIDE DEF a, b
<1>5. /\ a \o b \in Seq(S) /\ Len(a \o b) = Len(a) + Len(b)
      /\ \A i \in 1..(Len(a) + Len(b)) : (a \o b)[i] = IF i <= Len(a) THEN a[i] ELSE b[i - Len(a)]
  BY <1>2, <1>3, ConcatProperties
<1>6. Len(a \o b) = Len(s) - 1
  BY <1>1, <1>2, <1>3, <1>5
<1>7. ASSUME NEW i \in 1..(Len(s) - 1) PROVE (a \o b)[i] = IF i < n THEN s[i] ELSE s[i + 1]
  <2>1. i <= Len(a) + Len(b) /\ i \in 1..(Len(a) + Len(b))
    BY <1>1, <1>2, <1>3
  <2>2. CASE i < n
    BY <1>1, <1>2, <1>5, <2>1, <2>2
  <2>3. CASE ~(i < n)
    <3>1. (a \o b)[i] = b[i - (n - 1)]
      BY <1>1, <1>2, <1>5, <2>1, <2>3
    <3>2. i - (n - 1) \in 1..(Len(s) - n)
      BY <1>1, <2>3
    <3>3. b[i - (n - 1)] = s[i - (n - 1) + n]
      BY <1>3, <3>2
    <3>. QED
      BY <1>1, <2>3, <3>1, <3>3
  <2>. QED
    BY <2>2, <2>3
<1>. QED
  BY <1>4, <1>5, <1>6, <1>7

-----------------------------------------------------------------------------
(***************************************************************************)
(* The map of workers.                                                     *)
(***************************************************************************)
Distinct(map) == \A i, j \in DOMAIN map : map[i].number = map[j].number => i = j
DistinctWorkers(map) == \A i, j \in DOMAIN map : map[i].worker = map[j].worker => i = j

\* A worker is added under a number, in the place of the one that had it.
LEMMA MapSetProperties ==
    ASSUME NEW map \in Seq(Worker), Distinct(map),
           NEW n \in Nat \ {0}, NEW w \in Nat \ {0}
    PROVE  /\ MapSet(map, n, w) \in Seq(Worker)
           /\ Distinct(MapSet(map, n, w))
           /\ \A i \in DOMAIN MapSet(map, n, w) :
                \/ MapSet(map, n, w)[i] = [number |-> n, worker |-> w]
                \/ i \in DOMAIN map /\ MapSet(map, n, w)[i] = map[i] /\ map[i].number # n
           /\ DistinctWorkers(map) /\ (\A i \in DOMAIN map : map[i].worker # w) =>
                DistinctWorkers(MapSet(map, n, w))
<1>. DEFINE new == [number |-> n, worker |-> w]
            res == MapSet(map, n, w)
<1>1. Len(map) \in Nat /\ DOMAIN map = 1..Len(map) /\ \A i \in DOMAIN map : map[i] \in Worker
  BY LenProperties
<1>2. new \in Worker
  BY DEF Worker
<1>3. CASE \E i \in DOMAIN map : map[i].number = n
  <2>1. res = [i \in DOMAIN map |->
                 IF map[i].number = n THEN [map[i] EXCEPT !.worker = w] ELSE map[i]]
    BY <1>3 DEF MapSet
  <2>2. \A i \in DOMAIN map : map[i].number = n => [map[i] EXCEPT !.worker = w] = new
    BY <1>1 DEF Worker
  <2>3. DOMAIN res = 1..Len(map) /\ \A i \in 1..Len(map) : res[i] = IF map[i].number = n THEN new ELSE map[i]
    BY <1>1, <2>1, <2>2
  <2>4. res \in [1..Len(map) -> Worker]
    BY <1>1, <1>2, <2>1, <2>3
  <2>5. res \in Seq(Worker)
    BY <1>1, <2>4, SeqDef
  <2>. HIDE DEF res
  <2>. QED
    BY <1>1, <2>3, <2>5 DEF Distinct, DistinctWorkers, res
<1>4. CASE ~ \E i \in DOMAIN map : map[i].number = n
  <2>1. res = Append(map, new)
    BY <1>4 DEF MapSet
  <2>2. /\ res \in Seq(Worker) /\ Len(res) = Len(map) + 1
        /\ \A i \in 1..Len(map) : res[i] = map[i]
        /\ res[Len(map) + 1] = new
    BY <1>2, <2>1, AppendProperties
  <2>3. DOMAIN res = 1..(Len(map) + 1)
    BY <2>2, LenProperties
  <2>. HIDE DEF res
  <2>4. Distinct(res)
    BY <1>1, <1>4, <2>2, <2>3 DEF Distinct
  <2>5. \A i \in DOMAIN res : res[i] = new \/ (i \in DOMAIN map /\ res[i] = map[i] /\ map[i].number # n)
    BY <1>1, <1>4, <2>2, <2>3
  <2>6. DistinctWorkers(map) /\ (\A i \in DOMAIN map : map[i].worker # w) => DistinctWorkers(res)
    BY <1>1, <2>2, <2>3 DEF DistinctWorkers
  <2>. QED
    BY <2>2, <2>4, <2>5, <2>6 DEF res
<1>. QED
  BY <1>3, <1>4

\* A number is taken out; the other entries stay in their order.
LEMMA MapDeleteProperties ==
    ASSUME NEW map \in Seq(Worker), Distinct(map), NEW n
    PROVE  /\ MapDelete(map, n) \in Seq(Worker)
           /\ Distinct(MapDelete(map, n))
           /\ DistinctWorkers(map) => DistinctWorkers(MapDelete(map, n))
           /\ \A i \in DOMAIN MapDelete(map, n) : \E j \in DOMAIN map :
                MapDelete(map, n)[i] = map[j] /\ map[j].number # n
<1>. DEFINE res == MapDelete(map, n)
<1>1. Len(map) \in Nat /\ DOMAIN map = 1..Len(map) /\ \A i \in DOMAIN map : map[i] \in Worker
  BY LenProperties
<1>2. CASE \E i \in DOMAIN map : map[i].number = n
  <2>. DEFINE k == CHOOSE i \in DOMAIN map : map[i].number = n
  <2>1. k \in DOMAIN map /\ map[k].number = n
    BY <1>2
  <2>2. res = RemoveAt(map, k)
    BY <1>2 DEF MapDelete
  <2>. HIDE DEF k
  <2>3. /\ res \in Seq(Worker) /\ Len(res) = Len(map) - 1
        /\ \A i \in 1..(Len(map) - 1) : res[i] = IF i < k THEN map[i] ELSE map[i + 1]
    BY <1>1, <2>1, <2>2, RemoveAtProperties
  <2>4. DOMAIN res = 1..(Len(map) - 1)
    BY <2>3, LenProperties
  <2>. HIDE DEF res
  <2>. DEFINE from(i) == IF i < k THEN i ELSE i + 1
  <2>5. \A i \in DOMAIN res : from(i) \in DOMAIN map /\ res[i] = map[from(i)]
    BY <1>1, <2>1, <2>3, <2>4
  <2>6. \A i, j \in DOMAIN res : from(i) = from(j) => i = j
    BY <1>1, <2>1, <2>4
  <2>. HIDE DEF from
  <2>7. Distinct(res)
    BY <2>5, <2>6 DEF Distinct
  <2>8. DistinctWorkers(map) => DistinctWorkers(res)
    BY <2>5, <2>6 DEF DistinctWorkers
  <2>9. ASSUME NEW i \in DOMAIN res PROVE \E j \in DOMAIN map : res[i] = map[j] /\ map[j].number # n
    <3>1. i \in 1..(Len(map) - 1) /\ i \in DOMAIN map /\ i + 1 \in DOMAIN map /\ k \in 1..Len(map)
      BY <1>1, <2>1, <2>4
    <3>2. CASE i < k
      <4>1. res[i] = map[i] /\ i # k
        BY <2>3, <3>1, <3>2
      <4>. QED
        BY <2>1, <3>1, <4>1 DEF Distinct
    <3>3. CASE ~(i < k)
      <4>1. res[i] = map[i + 1] /\ i + 1 # k
        BY <2>3, <3>1, <3>3
      <4>. QED
        BY <2>1, <3>1, <4>1 DEF Distinct
    <3>. QED
      BY <3>2, <3>3
  <2>. QED
    BY <2>3, <2>7, <2>8, <2>9 DEF res
<1>3. CASE ~ \E i \in DOMAIN map : map[i].number = n
  BY <1>1, <1>3 DEF MapDelete
<1>. QED
  BY <1>2, <1>3

\* When the entries are numbered by their places, the last one is cut off.
LEMMA MapDeleteLast ==
    ASSUME NEW map \in Seq(Worker), map # << >>, \A i \in DOMAIN map : map[i].number = i
    PROVE  /\ Len(MapDelete(map, Len(map))) = Len(map) - 1
           /\ \A i \in 1..(Len(map) - 1) : MapDelete(map, Len(map))[i] = map[i]
<1>1. Len(map) \in Nat \ {0} /\ DOMAIN map = 1..Len(map)
  BY LenProperties, EmptySeq
<1>2. \E i \in DOMAIN map : map[i].number = Len(map)
  BY <1>1
<1>3. \A i \in DOMAIN map : map[i].number = Len(map) <=> i = Len(map)
  OBVIOUS
<1>4. (CHOOSE i \in DOMAIN map : map[i].number = Len(map)) = Len(map)
  BY <1>2, <1>3
<1>5. MapDelete(map, Len(map)) = RemoveAt(map, Len(map))
  BY <1>2, <1>4 DEF MapDelete
<1>6. Len(map) \in 1..Len(map)
  BY <1>1
<1>7. /\ Len(RemoveAt(map, Len(map))) = Len(map) - 1
      /\ \A i \in 1..(Len(map) - 1) :
           RemoveAt(map, Len(map))[i] = IF i < Len(map) THEN map[i] ELSE map[i + 1]
  BY <1>6, RemoveAtProperties
<1>8. \A i \in 1..(Len(map) - 1) : i < Len(map)
  BY <1>1
<1>. QED
  BY <1>5, <1>7, <1>8

\* A new worker has an identity of its own.
LEMMA NewInstanceIsNew ==
    ASSUME IsFiniteSet(DOMAIN instance)
    PROVE  NewInstance \in Nat \ {0} /\ NewInstance \notin DOMAIN instance
<1>. DEFINE n == Cardinality(DOMAIN instance)
<1>1. n \in Nat
  BY FS_CardinalityType
<1>. HIDE DEF n
<1>2. IsFiniteSet(1..(n + 1)) /\ Cardinality(1..(n + 1)) = n + 1
  <2>1. 1 \in Int /\ n + 1 \in Int /\ 1 <= n + 1
    BY <1>1
  <2>. QED
    BY <1>1, <2>1, FS_Interval
<1>3. ~(1..(n + 1) \subseteq DOMAIN instance)
  BY <1>1, <1>2, FS_Subset DEF n
<1>4. \E w \in 1..(n + 1) : w \notin DOMAIN instance
  BY <1>3
<1>5. NewInstance \in 1..(n + 1) /\ NewInstance \notin DOMAIN instance
  BY <1>4, Zenon DEF NewInstance, n
<1>. QED
  BY <1>1, <1>5

-----------------------------------------------------------------------------
(***************************************************************************)
(* The workers a start of the process creates.                             *)
(***************************************************************************)

LEMMA WorkersOfBound ==
    ASSUME NEW def \in Definition
    PROVE  /\ WorkersOf(def) \in 0..MaxPerQueue
           /\ WorkersOf(def) > 0 => def.enabled
  BY AdminAssumption DEF WorkersOf, getWorkerCountForQueue, Definition

\* Identities differ, and are bounded by the number of definitions.
LEMMA IdentityProperties ==
    ASSUME NEW i \in Nat \ {0}, NEW k \in 1..MaxPerQueue,
           NEW j \in Nat \ {0}, NEW l \in 1..MaxPerQueue
    PROVE  /\ Identity(i, k) \in Nat \ {0}
           /\ Identity(i, k) = Identity(j, l) => i = j /\ k = l
           /\ i <= j => Identity(i, k) <= j * MaxPerQueue
<1>. DEFINE M == MaxPerQueue
<1>1. M \in Nat \ {0} /\ k \in 1..M /\ l \in 1..M
  BY AdminAssumption
<1>. HIDE DEF M
<1>2. ASSUME NEW a \in Nat PROVE a * M \in Nat
  BY <1>1
<1>3. ASSUME NEW a \in Nat, NEW b \in Nat, a < b PROVE (a + 1) * M <= b * M
  <2>1. PICK d \in Nat : b = a + 1 + d
    <3>1. b - a - 1 \in Nat /\ b = a + 1 + (b - a - 1)
      BY <1>3
    <3>. QED
      BY <3>1
  <2>2. b * M = (a + 1) * M + d * M
    BY <1>1, <2>1
  <2>3. d * M \in Nat /\ (a + 1) * M \in Nat
    BY <1>2
  <2>. QED
    BY <2>2, <2>3
<1>4. ASSUME NEW a \in Nat PROVE (a + 1) * M = a * M + M
  BY <1>1
<1>5. i - 1 \in Nat /\ j - 1 \in Nat /\ (i - 1) + 1 = i /\ (j - 1) + 1 = j
  OBVIOUS
<1>. DEFINE p == (i - 1) * M
            q == (j - 1) * M
<1>6. p \in Nat /\ q \in Nat /\ i * M = p + M /\ j * M = q + M
  BY <1>2, <1>4, <1>5
<1>7. /\ i < j => i * M <= q
      /\ j < i => j * M <= p
  <2>1. ASSUME i < j PROVE i * M <= q
    <3>1. i - 1 < j - 1
      BY <2>1
    <3>. QED
      BY <1>3, <1>5, <3>1
  <2>2. ASSUME j < i PROVE j * M <= p
    <3>1. j - 1 < i - 1
      BY <2>2
    <3>. QED
      BY <1>3, <1>5, <3>1
  <2>. QED
    BY <2>1, <2>2
<1>8. Identity(i, k) = p + k /\ Identity(j, l) = q + l
  BY DEF Identity, M
<1>. HIDE DEF p, q
<1>9. p + k \in Nat \ {0}
  BY <1>1, <1>6
<1>10. p + k = q + l => i = j /\ k = l
  <2>1. ASSUME i < j PROVE p + k # q + l
    BY <1>1, <1>6, <1>7, <2>1
  <2>2. ASSUME j < i PROVE p + k # q + l
    BY <1>1, <1>6, <1>7, <2>2
  <2>3. ASSUME i = j PROVE p = q
    BY <2>3 DEF p, q
  <2>. QED
    BY <1>1, <1>6, <2>1, <2>2, <2>3
<1>11. i <= j => p + k <= j * M
  <2>1. CASE i < j
    BY <1>1, <1>6, <1>7, <2>1
  <2>2. CASE i = j
    BY <1>1, <1>6, <2>2
  <2>. QED
    BY <2>1, <2>2
<1>. QED
  BY <1>8, <1>9, <1>10, <1>11 DEF M

\* The definition in force is the last one that is enabled.
LEMMA LastEnabledProperties ==
    ASSUME NEW defs \in Seq(Definition)
    PROVE  /\ Enabled(defs) = {} => LastEnabled(defs) = None
           /\ Enabled(defs) # {} =>
                /\ Max(Enabled(defs)) \in Enabled(defs)
                /\ LastEnabled(defs) = defs[Max(Enabled(defs))]
           /\ LastEnabled(defs) \in Definition \cup {None}
           /\ LastEnabled(defs) = None <=> Enabled(defs) = {}
           /\ LastEnabled(defs) # None => LastEnabled(defs) \in ToSet(defs)
<1>1. Len(defs) \in Nat /\ DOMAIN defs = 1..Len(defs) /\ \A i \in DOMAIN defs : defs[i] \in Definition
  BY LenProperties
<1>2. Enabled(defs) \subseteq Nat /\ \A i \in Enabled(defs) : i <= Len(defs)
  BY <1>1 DEF Enabled
<1>3. Enabled(defs) # {} => Max(Enabled(defs)) \in Enabled(defs)
  BY <1>1, <1>2, MaxProperties
<1>4. Enabled(defs) \subseteq DOMAIN defs
  BY DEF Enabled
<1>. QED
  BY <1>1, <1>3, <1>4, AdminAssumption DEF LastEnabled, ToSet

\* What an instance of a start is the worker of.
LEMMA InitialIdentities ==
    ASSUME NEW defs \in Seq(Definition)
    PROVE  /\ \A w \in DOMAIN InitialInstances(defs) :
                \E i \in Enabled(defs), k \in 1..MaxPerQueue :
                  k <= WorkersOf(defs[i]) /\ w = Identity(i, k)
           /\ \A i \in DOMAIN defs, k \in Nat \ {0} :
                k <= WorkersOf(defs[i]) => Identity(i, k) \in DOMAIN InitialInstances(defs)
<1>1. Len(defs) \in Nat /\ DOMAIN defs = 1..Len(defs) /\ \A i \in DOMAIN defs : defs[i] \in Definition
  BY LenProperties
<1>2. DOMAIN InitialInstances(defs) = UNION {Identities(defs, i) : i \in DOMAIN defs}
  BY DEF InitialInstances
<1>3. \A i \in DOMAIN defs : /\ WorkersOf(defs[i]) \in 0..MaxPerQueue
                             /\ WorkersOf(defs[i]) > 0 => i \in Enabled(defs)
  BY <1>1, WorkersOfBound DEF Enabled
<1>4. MaxPerQueue \in Nat
  BY AdminAssumption
<1>5. ASSUME NEW w \in DOMAIN InitialInstances(defs)
      PROVE  \E i \in Enabled(defs), k \in 1..MaxPerQueue :
               k <= WorkersOf(defs[i]) /\ w = Identity(i, k)
  <2>1. PICK i \in DOMAIN defs : w \in Identities(defs, i)
    BY <1>2
  <2>2. PICK k \in 1..WorkersOf(defs[i]) : w = Identity(i, k)
    BY <2>1 DEF Identities
  <2>3. k \in 1..MaxPerQueue /\ k <= WorkersOf(defs[i]) /\ i \in Enabled(defs)
    BY <1>3, <1>4
  <2>. QED
    BY <2>2, <2>3
<1>6. ASSUME NEW i \in DOMAIN defs, NEW k \in Nat \ {0}, k <= WorkersOf(defs[i])
      PROVE  Identity(i, k) \in DOMAIN InitialInstances(defs)
  <2>1. k \in 1..WorkersOf(defs[i])
    BY <1>3, <1>6
  <2>. QED
    BY <1>2, <2>1 DEF Identities
<1>. QED
  BY <1>5, <1>6

\* The instances of a start.
LEMMA InitialInstancesProperties ==
    ASSUME NEW defs \in Seq(Definition)
    PROVE  LET new == InitialInstances(defs) IN
           /\ DOMAIN new \subseteq Nat \ {0} /\ IsFiniteSet(DOMAIN new)
           /\ new \in [DOMAIN new -> [state: {"running", "closing"}, concurrency: Nat \ {0}]]
           /\ \A w \in DOMAIN new : new[w].state = "running"
           /\ ~Twice(defs) => \A w \in DOMAIN new :
                LastEnabled(defs) # None /\ new[w].concurrency = LastEnabled(defs).concurrency
<1>. DEFINE new == InitialInstances(defs)
            by(w) == CHOOSE i \in DOMAIN defs : w \in Identities(defs, i)
<1>1. Len(defs) \in Nat /\ DOMAIN defs = 1..Len(defs) /\ \A i \in DOMAIN defs : defs[i] \in Definition
  BY LenProperties
<1>2. MaxPerQueue \in Nat \ {0} /\ Len(defs) * MaxPerQueue \in Nat
  BY <1>1, AdminAssumption
<1>3. DOMAIN new \subseteq 1..(Len(defs) * MaxPerQueue)
  <2>. SUFFICES ASSUME NEW w \in DOMAIN new PROVE w \in 1..(Len(defs) * MaxPerQueue)
    OBVIOUS
  <2>1. PICK i \in Enabled(defs), k \in 1..MaxPerQueue : w = Identity(i, k)
    BY InitialIdentities
  <2>2. i \in Nat \ {0} /\ i <= Len(defs) /\ Len(defs) \in Nat \ {0}
    BY <1>1 DEF Enabled
  <2>3. w \in Nat \ {0} /\ w <= Len(defs) * MaxPerQueue
    BY <1>2, <2>1, <2>2, IdentityProperties
  <2>. QED
    BY <1>2, <2>3
<1>4. DOMAIN new \subseteq Nat \ {0} /\ IsFiniteSet(DOMAIN new)
  <2>1. IsFiniteSet(1..(Len(defs) * MaxPerQueue))
    BY <1>2, FS_Interval
  <2>. QED
    BY <1>2, <1>3, <2>1, FS_Subset
<1>5. \A w \in DOMAIN new : by(w) \in DOMAIN defs /\ w \in Identities(defs, by(w))
  <2>1. \A w \in DOMAIN new : \E i \in DOMAIN defs : w \in Identities(defs, i)
    BY DEF InitialInstances
  <2>. QED
    BY <2>1
<1>6. new = [w \in DOMAIN new |-> [state |-> "running", concurrency |-> defs[by(w)].concurrency]]
  BY DEF InitialInstances
<1>7. \A w \in DOMAIN new : defs[by(w)].concurrency \in Nat \ {0}
  BY <1>1, <1>5 DEF Definition
<1>. HIDE DEF new, by
<1>8. new \in [DOMAIN new -> [state: {"running", "closing"}, concurrency: Nat \ {0}]]
  BY <1>6, <1>7
<1>9. \A w \in DOMAIN new : new[w].state = "running" /\ new[w].concurrency = defs[by(w)].concurrency
  BY <1>6
<1>10. ASSUME ~Twice(defs), NEW w \in DOMAIN new
       PROVE  LastEnabled(defs) # None /\ new[w].concurrency = LastEnabled(defs).concurrency
  <2>1. by(w) \in Enabled(defs)
    <3>1. 1..WorkersOf(defs[by(w)]) # {}
      BY <1>5 DEF Identities
    <3>2. WorkersOf(defs[by(w)]) \in 0..MaxPerQueue /\ (WorkersOf(defs[by(w)]) > 0 => defs[by(w)].enabled)
      BY <1>1, <1>5, WorkersOfBound
    <3>. QED
      BY <1>5, <3>1, <3>2 DEF Enabled
  <2>2. LastEnabled(defs) = defs[by(w)] /\ LastEnabled(defs) # None
    BY <1>10, <2>1, LastEnabledProperties DEF Twice
  <2>. QED
    BY <1>9, <2>2
<1>. QED
  BY <1>4, <1>8, <1>9, <1>10 DEF new

\* The entries of the map of a start.
LEMMA InitialWorkersProperties ==
    ASSUME NEW defs \in Seq(Definition)
    PROVE  LET map == InitialWorkers(defs) IN
           /\ map \in Seq(Worker) /\ \A k \in DOMAIN map : map[k].number = k
           /\ DistinctWorkers(map)
           /\ \A k \in DOMAIN map : map[k].worker \in DOMAIN InitialInstances(defs)
           /\ ~Twice(defs) => \A w \in DOMAIN InitialInstances(defs) :
                \E k \in DOMAIN map : map[k].worker = w
<1>. DEFINE map == InitialWorkers(defs)
            sizes == {0} \cup {WorkersOf(defs[i]) : i \in DOMAIN defs}
            having(k) == {i \in DOMAIN defs : k <= WorkersOf(defs[i])}
            last(k) == Max(having(k))
<1>1. Len(defs) \in Nat /\ DOMAIN defs = 1..Len(defs) /\ \A i \in DOMAIN defs : defs[i] \in Definition
  BY LenProperties
<1>2. \A i \in DOMAIN defs : /\ WorkersOf(defs[i]) \in 0..MaxPerQueue
                             /\ WorkersOf(defs[i]) > 0 => i \in Enabled(defs)
  BY <1>1, WorkersOfBound DEF Enabled
<1>3. MaxPerQueue \in Nat
  BY AdminAssumption
<1>4. Max(sizes) \in sizes /\ \A x \in sizes : x <= Max(sizes)
  <2>1. sizes \subseteq Nat /\ sizes # {} /\ \A x \in sizes : x <= MaxPerQueue
    BY <1>2, <1>3
  <2>. HIDE DEF sizes
  <2>. QED
    BY <1>3, <2>1, MaxProperties
<1>5. Max(sizes) \in 0..MaxPerQueue
  BY <1>2, <1>3, <1>4
<1>. DEFINE n == Max(sizes)
<1>6. \A i \in DOMAIN defs : WorkersOf(defs[i]) <= n
  BY <1>4
<1>7. map = [k \in 1..n |-> [number |-> k, worker |-> Identity(last(k), k)]]
  BY DEF InitialWorkers
<1>8. ASSUME NEW k \in 1..n PROVE last(k) \in having(k)
  <2>1. having(k) # {}
    BY <1>4, <1>5, <1>8
  <2>2. having(k) \subseteq Nat /\ \A i \in having(k) : i <= Len(defs)
    BY <1>1
  <2>. HIDE DEF having
  <2>. QED
    BY <1>1, <2>1, <2>2, MaxProperties
<1>9. \A k \in 1..n : last(k) \in DOMAIN defs /\ k <= WorkersOf(defs[last(k)])
  BY <1>8
<1>. HIDE DEF n, last, sizes, map
<1>10. n \in 0..MaxPerQueue
  BY <1>5 DEF n
<1>11. \A k \in 1..n : last(k) \in Nat \ {0} /\ k \in 1..MaxPerQueue
  BY <1>1, <1>3, <1>9, <1>10
<1>12. \A k \in 1..n : Identity(last(k), k) \in Nat \ {0}
  BY <1>11, IdentityProperties
<1>13. map \in [1..n -> Worker] /\ DOMAIN map = 1..n
  BY <1>7, <1>11, <1>12 DEF Worker
<1>14. map \in Seq(Worker)
  BY <1>3, <1>10, <1>13, SeqDef
<1>15. \A k \in DOMAIN map : map[k].number = k /\ map[k].worker = Identity(last(k), k)
  BY <1>7
<1>16. \A k, l \in DOMAIN map : map[k].worker = map[l].worker => k = l
  BY <1>11, <1>13, <1>15, IdentityProperties
<1>17. \A k \in DOMAIN map : map[k].worker \in DOMAIN InitialInstances(defs)
  BY <1>9, <1>11, <1>13, <1>15, InitialIdentities
<1>18. ASSUME ~Twice(defs), NEW w \in DOMAIN InitialInstances(defs)
       PROVE  \E k \in DOMAIN map : map[k].worker = w
  <2>1. PICK i \in Enabled(defs), k \in 1..MaxPerQueue :
          k <= WorkersOf(defs[i]) /\ w = Identity(i, k)
    BY InitialIdentities
  <2>2. i \in DOMAIN defs /\ k <= n /\ k \in 1..n
    BY <1>2, <1>3, <1>6, <1>10, <2>1 DEF Enabled, n
  <2>3. last(k) \in Enabled(defs)
    BY <1>2, <1>9, <1>11, <2>2
  <2>4. last(k) = i
    BY <1>18, <2>1, <2>3 DEF Twice
  <2>. QED
    BY <1>13, <1>15, <2>1, <2>2, <2>4
<1>. QED
  BY <1>14, <1>15, <1>16, <1>17, <1>18 DEF map, DistinctWorkers

-----------------------------------------------------------------------------
(***************************************************************************)
(* The inductive invariant, part by part.                                  *)
(***************************************************************************)

\* Where each operation can be.
StepsOf(op) ==
    CASE op = "none"         -> {"none"}
      [] op = "addWorker"    -> {"track", "count", "countFile", "published"}
      [] op = "removeWorker" -> {"count", "countFile", "published"}
      [] op = "createQueue"  -> {"announce", "ensure", "track", "more", "removeSome"}
      [] op = "updateQueue"  -> {"recreate", "create", "reconcile", "removeAll", "removeSome",
                                 "more", "track", "countFile", "published", "lastSave", "end"}
      [] op = "deleteQueue"  -> {"removeAll", "dropQueue", "announce", "end"}

\* A call carries what its next step needs.
ShapeOf(m) ==
    /\ m.next \in StepsOf(m.op)
    /\ m.at = "idle" <=> m = Idle
    /\ m.op = "none" => m = Idle
    /\ m.at = "closing" => m.target \in Worker /\ m.next \in {"count", "removeSome", "removeAll"}
    /\ m.next = "track" => m.target \in Worker /\ m.at = "ready"
    /\ m.at = "file" => m.content \in Seq(Definition)
    /\ m.op = "updateQueue" => m.def \in Definition
Shape == \A c \in Calls : ShapeOf(call[c])

\* Entries of the map are for different workers.
EntriesDiffer ==
    \A i, j \in DOMAIN workers : workers[i].worker = workers[j].worker => i = j

\* A worker that was created and is not in the map yet runs, and one call only
\* will put it there.
CreatedIsFresh ==
    \A c \in Calls : call[c].next = "track" =>
        /\ call[c].target.worker \in Running \ Tracked
        /\ \A d \in Calls \ {c} :
             call[d].next = "track" => call[d].target.worker # call[c].target.worker

\* A call that closes a worker knows its entry in the map, if it has one.
ClosingIsTracked ==
    \A c \in Calls : call[c].at = "closing" =>
        /\ call[c].target.worker \in DOMAIN instance
        /\ instance[call[c].target.worker].state = "closing"
        /\ \A i \in DOMAIN workers :
             workers[i].worker = call[c].target.worker => workers[i].number = call[c].target.number

\* What is in the map has not closed, and somebody waits for a worker that is
\* being closed.
TrackedExist == Tracked \subseteq DOMAIN instance
ClosingIsAwaited ==
    \A w \in DOMAIN instance : instance[w].state = "closing" => WaitingFor(w) # {}

Pool == EntriesDiffer /\ CreatedIsFresh /\ ClosingIsTracked /\ TrackedExist /\ ClosingIsAwaited

\* The calls that save the configuration in Redis before they end.
WillSave(m) == m.next = "announce" \/ (m.op = "updateQueue" /\ m.next # "end")
RedisFollows ==
    ~upset /\ redis # None => redis = config \/ \E c \in Calls : WillSave(call[c])

\* Until calls overlap, the one under way is alone.
Alone == ~overlapped => \A c, d \in UnderWay : c = d

\* And the file is the configuration, is being written, or will be.
FileKnown(m) ==
    /\ m.at = "file" => file = Torn /\ m.content = config
    /\ m.at # "file" /\ m.next \notin {"create", "countFile"} => file = config
FileFollows ==
    ~upset /\ ~overlapped =>
        /\ Quiescent => file = config
        /\ \A c \in UnderWay : FileKnown(call[c])

\* And entries are numbered by their places: the one closed is the last, the
\* one added comes after the last.
Numbered ==
    ~overlapped =>
        /\ \A i \in DOMAIN workers : workers[i].number = i
        /\ \A c \in Calls : call[c].at = "closing" =>
             workers # << >> /\ call[c].target = workers[Len(workers)]
        /\ \A c \in Calls : call[c].next = "track" => call[c].target.number = Len(workers) + 1

\* And what runs is in the map, or on its way there.
OnTheWay == {call[c].target.worker : c \in {d \in Calls : call[d].next = "track"}}
RunningKnown == ~overlapped /\ ~doubled => Running \subseteq Tracked \cup OnTheWay

\* And what runs has the concurrency of the definition, unless an update is
\* about to replace it.
AllHave(k) == \A w \in Running : instance[w].concurrency = k
Applied == Running = {} \/ (definition # None /\ AllHave(definition.concurrency))
AppliedFor(m) ==
    /\ m.next = "recreate" =>
         /\ definition # None /\ Applied
         /\ ~m.changed => m.def.concurrency = definition.concurrency
    /\ m.next = "create" => (~m.changed => AllHave(m.def.concurrency))
    /\ m.next = "reconcile" =>
         definition # None /\ (~m.changed => AllHave(definition.concurrency))
    /\ m.next = "dropQueue" => Running = {}
    /\ m.next \notin {"create", "reconcile"} /\ ~(m.op = "updateQueue" /\ m.next = "removeAll") => Applied
ConcurrencyKnown ==
    ~upset /\ ~overlapped /\ ~doubled =>
        /\ Quiescent => Applied
        /\ \A c \in UnderWay : AppliedFor(call[c])

IInv ==
    /\ TypeOK /\ Shape /\ DefinitionsAgree /\ Pool
    /\ RedisFollows /\ Alone /\ FileFollows /\ Numbered /\ RunningKnown /\ ConcurrencyKnown

-----------------------------------------------------------------------------
(***************************************************************************)
(* The kinds of steps a call takes.  The operators of QueueAdmin nest as   *)
(* the methods of the services do; here each way through them is one case. *)
(***************************************************************************)

\* A call c, whose record is m, runs on or begins.
Active(c, m) ==
    \/ call[c].at = "ready" /\ m = call[c] /\ UNCHANGED history
    \/ /\ Start(c)
       /\ m \in Progress /\ m.op # "none" /\ m.next = "none"
       /\ m.target = None /\ m.content = None
       /\ m.op = "updateQueue" =>
            /\ definition # None /\ m.def \in Definition
            /\ ~m.changed => m.def.concurrency = definition.concurrency

\* It is about to give the queue the number of workers wanted.
Adjusts(m) ==
    /\ m.op \in {"createQueue", "updateQueue"}
    /\ \/ m.next \in {"more", "removeSome", "ensure"}
       \/ m.next = "reconcile" /\ ~m.changed
       \/ m.next \in {"reconcile", "removeAll"} /\ workers = << >>

Closes(c, m) ==
    /\ workers # << >>
    /\ \E next \in {"count", "removeSome", "removeAll"}, n \in Nat :
         /\ closeLast(c, m, next, n)
         /\ next = "count" => m.op = "removeWorker" /\ m.next = "none"
         /\ next = "removeSome" => Adjusts(m)
         /\ next = "removeAll" =>
              \/ m.op = "updateQueue" /\ m.next \in {"reconcile", "removeAll"}
              \/ m.op = "deleteQueue" /\ m.next \in {"none", "removeAll"}

Adds(c, m) ==
    /\ definition # None
    /\ Adjusts(m) \/ (m.op = "addWorker" /\ m.next = "none")
    /\ \E n \in Nat : addWorkerForQueue(c, m, n)

Tracks(c, m) == m.next = "track" /\ track(c, m)

Counts(c, m) ==
    /\ workers # << >> /\ definition # None
    /\ \/ m.op = "updateQueue" /\ Adjusts(m)
       \/ m.op \in {"addWorker", "removeWorker"} /\ m.next = "count"
    /\ setQueueWorkers(c, m, Len(workers))
    /\ UNCHANGED pool

SavesLast(c, m) ==
    /\ m.op = "updateQueue"
    /\ m.next = "lastSave" \/ Adjusts(m)
    /\ lastSave(c, m)
    /\ UNCHANGED pool

Ends(c, m) ==
    /\ \/ m.next = "end"
       \/ m.op \in {"addWorker", "removeWorker"} /\ m.next \in {"count", "published"}
       \/ m.op = "createQueue" /\ Adjusts(m)
    /\ End(c)
    /\ UNCHANGED <<definitions, pool, saves>>

Throws(c, m) == m.next # "track" /\ Throw(c) /\ UNCHANGED <<definitions, pool, saves>>

ClosesQueue(c, m) ==
    /\ definition # None
    /\ \/ /\ m.op = "updateQueue" /\ m.next = "none"
          /\ Await(c, m, "queueClosing", "recreate")
       \/ /\ m.op = "deleteQueue" /\ m.next \in {"none", "removeAll"} /\ workers = << >>
          /\ Await(c, m, "queueClosing", "dropQueue")
    /\ UNCHANGED <<definitions, pool, saves, upset>>

Drops(c, m) ==
    /\ \/ m.op = "updateQueue" /\ m.next = "recreate"
       \/ m.op = "deleteQueue" /\ m.next = "dropQueue"
    /\ dropQueue(c, m)

Creates(c, m) ==
    /\ definition = None
    /\ \E def \in Definition, next \in {"reconcile", "announce"} :
         /\ \/ m.op = "updateQueue" /\ m.next = "create" /\ next = "reconcile" /\ def = m.def
            \/ m.op = "createQueue" /\ m.next = "none" /\ next = "announce"
         /\ definition' = def
         /\ config' = Append(config, def)
         /\ saveConfigToFile(c, m, next)
    /\ UNCHANGED pool

Writes(c, m) ==
    /\ m.next = "countFile"
    /\ UNCHANGED <<definitions, pool>>
    /\ saveConfigToFile(c, m, "published")

Publishes(c, m) ==
    /\ m.op = "updateQueue" /\ m.next = "published"
    /\ Await(c, m, "redis", "lastSave")
    /\ UNCHANGED <<definitions, pool, saves, upset>>

Announces(c, m) ==
    /\ m.next = "announce"
    /\ UNCHANGED <<definitions, pool>>
    /\ \/ m.op = "createQueue" /\ saveConfig(c, m, "ensure")
       \/ m.op = "deleteQueue" /\ saveConfig(c, m, "end")

Kind(c, m) ==
    \/ Closes(c, m) \/ Adds(c, m) \/ Tracks(c, m)
    \/ Counts(c, m) \/ SavesLast(c, m) \/ Ends(c, m) \/ Throws(c, m)
    \/ ClosesQueue(c, m) \/ Drops(c, m) \/ Creates(c, m)
    \/ Writes(c, m) \/ Publishes(c, m) \/ Announces(c, m)

\* What ensureWorkersForQueue() comes to.
LEMMA EnsuredKinds ==
    ASSUME NEW c, NEW m, Adjusts(m), ensured(c, m)
    PROVE  Kind(c, m)
<1>1. UNCHANGED pool
  BY DEF ensured
<1>2. CASE m.op = "updateQueue" /\ count(c, m)
  <2>1. CASE workers # << >> /\ definition # None /\ setQueueWorkers(c, m, Len(workers))
    BY <1>1, <1>2, <2>1 DEF Kind, Counts
  <2>2. CASE Throw(c) /\ UNCHANGED <<definitions, saves>>
    BY <1>1, <2>2 DEF Kind, Throws, Adjusts
  <2>3. CASE lastSave(c, m)
    BY <1>1, <1>2, <2>3 DEF Kind, SavesLast
  <2>. QED
    BY <1>2, <2>1, <2>2, <2>3 DEF count
<1>3. CASE m.op = "createQueue" /\ End(c) /\ UNCHANGED <<definitions, saves>>
  BY <1>1, <1>3 DEF Kind, Ends
<1>. QED
  BY <1>2, <1>3 DEF ensured

LEMMA RemoveSomeKinds ==
    ASSUME NEW c, NEW m, Adjusts(m), NEW n \in Nat, removeSome(c, m, n)
    PROVE  Kind(c, m)
<1>1. CASE ensured(c, m)
  BY <1>1, EnsuredKinds
<1>2. CASE Throw(c) /\ UNCHANGED <<definitions, pool, saves>>
  BY <1>2 DEF Kind, Throws, Adjusts
<1>3. CASE n > 0 /\ workers # << >> /\ closeLast(c, m, "removeSome", n - 1)
  <2>1. n - 1 \in Nat
    BY <1>3
  <2>. QED
    BY <1>3, <2>1 DEF Kind, Closes
<1>. QED
  BY <1>1, <1>2, <1>3 DEF removeSome

LEMMA AddSomeKinds ==
    ASSUME NEW c, NEW m, Adjusts(m), NEW n \in Nat, addSome(c, m, n)
    PROVE  Kind(c, m)
<1>1. CASE ensured(c, m)
  BY <1>1, EnsuredKinds
<1>2. CASE Throw(c) /\ UNCHANGED <<definitions, pool, saves>>
  BY <1>2 DEF Kind, Throws, Adjusts
<1>3. CASE n > 0 /\ definition # None /\ addWorkerForQueue(c, m, n - 1)
  <2>1. n - 1 \in Nat
    BY <1>3
  <2>. QED
    BY <1>3, <2>1 DEF Kind, Adds
<1>. QED
  BY <1>1, <1>2, <1>3 DEF addSome

LEMMA EnsureKinds ==
    ASSUME TypeOK, NEW c, NEW m, Adjusts(m), ensure(c, m)
    PROVE  Kind(c, m)
<1>1. CASE Throw(c) /\ UNCHANGED <<definitions, pool, saves>>
  BY <1>1 DEF Kind, Throws, Adjusts
<1>2. CASE ensured(c, m)
  BY <1>2, EnsuredKinds
<1>3. CASE /\ definition # None
           /\ LET desired == getWorkerCountForQueue(definition) IN
                \/ Len(workers) < desired /\ addSome(c, m, desired - Len(workers))
                \/ Len(workers) >= desired /\ removeSome(c, m, Len(workers) - desired)
  <2>. DEFINE desired == getWorkerCountForQueue(definition)
  <2>1. desired \in Nat
    BY <1>3, AdminAssumption DEF TypeOK, Definition, getWorkerCountForQueue
  <2>2. Len(workers) \in Nat
    BY LenProperties DEF TypeOK
  <2>. HIDE DEF desired
  <2>3. CASE Len(workers) < desired /\ addSome(c, m, desired - Len(workers))
    <3>1. desired - Len(workers) \in Nat
      BY <2>1, <2>2, <2>3
    <3>. QED
      BY <2>3, <3>1, AddSomeKinds
  <2>4. CASE Len(workers) >= desired /\ removeSome(c, m, Len(workers) - desired)
    <3>1. Len(workers) - desired \in Nat
      BY <2>1, <2>2, <2>4
    <3>. QED
      BY <2>4, <3>1, RemoveSomeKinds
  <2>. QED
    BY <1>3, <2>3, <2>4 DEF desired
<1>. QED
  BY <1>1, <1>2, <1>3 DEF ensure

LEMMA RemoveAllKinds ==
    ASSUME TypeOK, NEW c, NEW m, removeAll(c, m),
           \/ m.op = "updateQueue" /\ m.next \in {"reconcile", "removeAll"}
           \/ m.op = "deleteQueue" /\ m.next \in {"none", "removeAll"}
    PROVE  Kind(c, m)
<1>1. CASE workers # << >> /\ closeLast(c, m, "removeAll", 0)
  BY <1>1 DEF Kind, Closes
<1>2. CASE workers = << >> /\ m.op = "updateQueue" /\ ensure(c, m)
  <2>1. Adjusts(m)
    BY <1>2 DEF Adjusts
  <2>. QED
    BY <1>2, <2>1, EnsureKinds
<1>3. CASE workers = << >> /\ m.op = "deleteQueue" /\ removeQueue(c, m, "dropQueue")
  <2>1. CASE definition # None /\ Await(c, m, "queueClosing", "dropQueue") /\ UNCHANGED upset
    BY <1>3, <2>1 DEF Kind, ClosesQueue, removeQueue
  <2>2. CASE Throw(c)
    BY <1>3, <2>2 DEF Kind, Throws, removeQueue
  <2>. QED
    BY <1>3, <2>1, <2>2 DEF removeQueue
<1>. QED
  BY <1>1, <1>2, <1>3 DEF removeAll

\* A call that runs on takes one of these steps.
LEMMA ResumeKinds ==
    ASSUME TypeOK, Shape, NEW c \in Calls, resume(c)
    PROVE  Active(c, call[c]) /\ Kind(c, call[c])
<1>. DEFINE m == call[c]
<1>1. Active(c, m)
  BY DEF resume, Active
<1>2. m \in Progress /\ m.at = "ready" /\ m.op # "none" /\ m.next \in StepsOf(m.op)
  <2>1. m \in Progress /\ m.at = "ready"
    BY DEF TypeOK, resume
  <2>2. m # Idle
    BY <2>1 DEF Idle
  <2>. QED
    BY <2>1, <2>2 DEF Shape, ShapeOf
<1>3. Continue(c, m)
  BY DEF resume
<1>. HIDE DEF m
<1>. SUFFICES Kind(c, m)
  BY <1>1 DEF m
<1>4. m.todo \in Nat /\ m.op \in Operations
  BY <1>2 DEF Progress
<1>5. CASE m.next = "track" /\ track(c, m)
  BY <1>5 DEF Kind, Tracks
<1>6. CASE m.next = "more" /\ addSome(c, m, m.todo)
  <2>1. Adjusts(m)
    BY <1>2, <1>4, <1>6 DEF Adjusts, StepsOf, Operations
  <2>. QED
    BY <1>4, <1>6, <2>1, AddSomeKinds
<1>7. CASE m.next = "count" /\ count(c, m) /\ UNCHANGED pool
  <2>1. m.op \in {"addWorker", "removeWorker"}
    BY <1>2, <1>4, <1>7 DEF StepsOf, Operations
  <2>. QED
    BY <1>7, <2>1 DEF Kind, count, Counts, Throws, Ends
<1>8. CASE m.next = "countFile" /\ UNCHANGED <<definitions, pool>> /\ saveConfigToFile(c, m, "published")
  BY <1>8 DEF Kind, Writes
<1>9. CASE /\ m.next = "published" /\ m.op = "updateQueue"
           /\ Await(c, m, "redis", "lastSave")
           /\ UNCHANGED <<definitions, pool, saves, upset>>
  BY <1>9 DEF Kind, Publishes
<1>10. CASE m.next = "lastSave" /\ lastSave(c, m) /\ UNCHANGED pool
  <2>1. m.op = "updateQueue"
    BY <1>2, <1>4, <1>10 DEF StepsOf, Operations
  <2>. QED
    BY <1>10, <2>1 DEF Kind, SavesLast
<1>11. CASE m.next = "removeSome" /\ removeSome(c, m, m.todo)
  <2>1. Adjusts(m)
    BY <1>2, <1>4, <1>11 DEF Adjusts, StepsOf, Operations
  <2>. QED
    BY <1>4, <1>11, <2>1, RemoveSomeKinds
<1>12. CASE m.next = "removeAll" /\ removeAll(c, m)
  <2>1. m.op \in {"updateQueue", "deleteQueue"}
    BY <1>2, <1>4, <1>12 DEF StepsOf, Operations
  <2>. QED
    BY <1>12, <2>1, RemoveAllKinds
<1>13. CASE m.next \in {"dropQueue", "recreate"} /\ dropQueue(c, m)
  <2>1. \/ m.op = "updateQueue" /\ m.next = "recreate"
        \/ m.op = "deleteQueue" /\ m.next = "dropQueue"
    BY <1>2, <1>4, <1>13 DEF StepsOf, Operations
  <2>. QED
    BY <1>13, <2>1 DEF Kind, Drops
<1>14. CASE m.next = "create" /\ newQueue(c, m, m.def, "reconcile")
  <2>1. m.op = "updateQueue"
    BY <1>2, <1>4, <1>14 DEF StepsOf, Operations
  <2>2. m.def \in Definition
    BY <2>1 DEF Shape, ShapeOf, m
  <2>. QED
    BY <1>14, <2>1, <2>2 DEF newQueue, Kind, Creates, Throws
<1>15. CASE m.next = "reconcile" /\ reconcile(c, m)
  <2>1. m.op = "updateQueue"
    BY <1>2, <1>4, <1>15 DEF StepsOf, Operations
  <2>2. CASE removeAll(c, m)
    BY <1>15, <2>1, <2>2, RemoveAllKinds
  <2>3. CASE ~m.changed /\ ensure(c, m)
    <3>1. Adjusts(m)
      BY <1>15, <2>1, <2>3 DEF Adjusts
    <3>. QED
      BY <2>3, <3>1, EnsureKinds
  <2>. QED
    BY <1>15, <2>2, <2>3 DEF reconcile
<1>16. CASE /\ m.next = "announce"
            /\ UNCHANGED <<definitions, pool>>
            /\ saveConfig(c, m, IF m.op = "createQueue" THEN "ensure" ELSE "end")
  <2>1. m.op \in {"createQueue", "deleteQueue"}
    BY <1>2, <1>4, <1>16 DEF StepsOf, Operations
  <2>. QED
    BY <1>16, <2>1 DEF Kind, Announces
<1>17. CASE m.next = "ensure" /\ ensure(c, m)
  <2>1. Adjusts(m)
    BY <1>2, <1>4, <1>17 DEF Adjusts, StepsOf, Operations
  <2>. QED
    BY <1>17, <2>1, EnsureKinds
<1>18. CASE /\ m.next = "end" \/ (m.next = "published" /\ m.op # "updateQueue")
            /\ End(c)
            /\ UNCHANGED <<definitions, pool, saves>>
  <2>1. m.next = "end" \/ (m.op \in {"addWorker", "removeWorker"} /\ m.next = "published")
    BY <1>2, <1>4, <1>18 DEF StepsOf, Operations
  <2>. QED
    BY <1>18, <2>1 DEF Kind, Ends
<1>. QED
  BY <1>3, <1>5, <1>6, <1>7, <1>8, <1>9, <1>10, <1>11, <1>12, <1>13, <1>14, <1>15, <1>16, <1>17,
     <1>18 DEF Continue

\* And so does one that begins.
LEMMA StartKinds ==
    ASSUME TypeOK, Shape, NEW c \in Calls,
           addWorker(c) \/ removeWorker(c) \/ createQueue(c) \/ updateQueue(c) \/ deleteQueue(c)
    PROVE  \E m \in Progress : Active(c, m) /\ Kind(c, m)
<1>. DEFINE fresh(op) == [Idle EXCEPT !.op = op]
<1>1. \A op \in Operations :
        /\ fresh(op) \in Progress /\ fresh(op).op = op /\ fresh(op).next = "none"
        /\ fresh(op).target = None /\ fresh(op).content = None
  BY DEF Idle, Progress, Operations, Waits, Steps
<1>2. \A op \in Operations \ {"updateQueue"} : Start(c) => Active(c, fresh(op))
  BY <1>1 DEF Active, Operations
<1>. HIDE DEF fresh
<1>3. CASE addWorker(c)
  <2>. DEFINE m == fresh("addWorker")
  <2>1. m \in Progress /\ m.op = "addWorker" /\ m.next = "none" /\ Active(c, m)
    BY <1>1, <1>2, <1>3 DEF addWorker, Operations
  <2>2. Adds(c, m)
    BY <1>3, <2>1 DEF addWorker, Adds, fresh
  <2>. QED
    BY <2>1, <2>2 DEF Kind
<1>4. CASE removeWorker(c)
  <2>. DEFINE m == fresh("removeWorker")
  <2>1. m \in Progress /\ m.op = "removeWorker" /\ m.next = "none" /\ Active(c, m)
    BY <1>1, <1>2, <1>4 DEF removeWorker, Operations
  <2>2. Closes(c, m)
    BY <1>4, <2>1 DEF removeWorker, Closes, fresh
  <2>. QED
    BY <2>1, <2>2 DEF Kind
<1>5. CASE createQueue(c)
  <2>. DEFINE m == fresh("createQueue")
  <2>1. m \in Progress /\ m.op = "createQueue" /\ m.next = "none" /\ Active(c, m)
    BY <1>1, <1>2, <1>5 DEF createQueue, Operations
  <2>2. PICK def \in NewDefs : newQueue(c, m, def, "announce")
    BY <1>5 DEF createQueue, fresh
  <2>3. def \in Definition
    BY AdminAssumption
  <2>4. CASE /\ definition = None /\ definition' = def /\ config' = Append(config, def)
             /\ saveConfigToFile(c, m, "announce") /\ UNCHANGED pool
    BY <2>1, <2>3, <2>4 DEF Creates, Kind
  <2>5. CASE Throw(c) /\ UNCHANGED <<definitions, saves>> /\ UNCHANGED pool
    BY <2>1, <2>5 DEF Throws, Kind
  <2>. QED
    BY <2>2, <2>4, <2>5 DEF newQueue
<1>6. CASE updateQueue(c)
  <2>1. Start(c) /\ definition # None
    BY <1>6 DEF updateQueue
  <2>2. PICK u \in Updates :
          LET field(f) == IF f \in DOMAIN u THEN u[f] ELSE definition[f]
              def == [workers |-> field("workers"), concurrency |-> field("concurrency"),
                      enabled |-> field("enabled")]
          IN  removeQueue(c, [Idle EXCEPT !.op = "updateQueue", !.def = def,
                                          !.changed = def.concurrency # definition.concurrency],
                          "recreate")
    BY <1>6 DEF updateQueue
  <2>. DEFINE field(f) == IF f \in DOMAIN u THEN u[f] ELSE definition[f]
              def == [workers |-> field("workers"), concurrency |-> field("concurrency"),
                      enabled |-> field("enabled")]
              m == [Idle EXCEPT !.op = "updateQueue", !.def = def,
                                !.changed = def.concurrency # definition.concurrency]
  <2>3. def \in Definition
    BY <2>1, AdminAssumption DEF TypeOK, Definition
  <2>4. removeQueue(c, m, "recreate")
    BY <2>2
  <2>. HIDE DEF def
  <2>5. /\ m \in Progress /\ m.op = "updateQueue" /\ m.next = "none"
        /\ m.target = None /\ m.content = None /\ m.def = def
        /\ m.changed = (def.concurrency # definition.concurrency)
    BY <2>3 DEF Idle, Progress, Operations, Waits, Steps
  <2>. HIDE DEF m
  <2>6. Active(c, m)
    BY <2>1, <2>3, <2>5 DEF Active
  <2>7. Kind(c, m)
    BY <2>1, <2>4, <2>5 DEF removeQueue, Kind, ClosesQueue
  <2>. QED
    BY <2>5, <2>6, <2>7
<1>7. CASE deleteQueue(c)
  <2>. DEFINE m == fresh("deleteQueue")
  <2>1. m \in Progress /\ m.op = "deleteQueue" /\ m.next = "none" /\ Active(c, m)
    BY <1>1, <1>2, <1>7 DEF deleteQueue, Operations
  <2>2. removeAll(c, m)
    BY <1>7 DEF deleteQueue, fresh
  <2>3. Kind(c, m)
    BY <2>1, <2>2, RemoveAllKinds
  <2>. QED
    BY <2>1, <2>3
<1>. QED
  BY <1>3, <1>4, <1>5, <1>6, <1>7

-----------------------------------------------------------------------------
(***************************************************************************)
(* Types, and the shape of a call's record.                                *)
(***************************************************************************)
DefinitionsTyped == definition \in Definition \cup {None} /\ config \in Seq(Definition)
PoolTyped ==
    /\ workers \in Seq(Worker) /\ Distinct(workers)
    /\ DOMAIN instance \subseteq Nat \ {0} /\ IsFiniteSet(DOMAIN instance)
    /\ instance \in [DOMAIN instance -> [state: {"running", "closing"}, concurrency: Nat \ {0}]]
SavesTyped ==
    /\ redis \in Seq(Definition) \cup {None} /\ file \in Seq(Definition) \cup {Torn}
    /\ faults \in 0..MaxFaults /\ upset \in BOOLEAN
HistoryTyped == started \in 0..MaxStarted /\ {overlapped, doubled} \subseteq BOOLEAN
CallsTyped == call \in [Calls -> Progress]

LEMMA TypesByGroup ==
    TypeOK <=> DefinitionsTyped /\ PoolTyped /\ SavesTyped /\ HistoryTyped /\ CallsTyped
  BY Zenon DEF TypeOK, DefinitionsTyped, PoolTyped, SavesTyped, HistoryTyped, CallsTyped, Distinct

\* What a call that takes a step is.
LEMMA ActiveProperties ==
    ASSUME TypeOK, Shape, NEW c \in Calls, NEW m \in Progress, Active(c, m)
    PROVE  /\ m.op \in Operations
           /\ m.op = "updateQueue" => m.def \in Definition
           /\ m.next = "none" \/ (m = call[c] /\ m.at = "ready" /\ m.next \in StepsOf(m.op))
           /\ m.next = "none" => call[c] = Idle
           /\ m.next = "track" => m.target \in Worker
           /\ call[c].at \in {"idle", "ready"}
           /\ HistoryTyped'
<1>1. CASE call[c].at = "ready" /\ m = call[c] /\ UNCHANGED history
  <2>1. m # Idle /\ ShapeOf(m)
    BY <1>1 DEF Idle, Shape
  <2>2. m.op # "none" /\ m.op \in Operations
    BY <2>1 DEF ShapeOf, Progress
  <2>3. m.next # "none"
    BY <2>1, <2>2 DEF ShapeOf, StepsOf, Operations
  <2>4. HistoryTyped'
    BY <1>1 DEF TypeOK, HistoryTyped, history
  <2>. QED
    BY <1>1, <2>1, <2>2, <2>3, <2>4 DEF ShapeOf
<1>2. CASE /\ Start(c) /\ m.op # "none" /\ m.next = "none"
           /\ m.op = "updateQueue" => m.def \in Definition
  <2>1. m.op \in Operations /\ call[c] = Idle
    BY <1>2 DEF Progress, Start
  <2>2. HistoryTyped'
    BY <1>2, AdminAssumption DEF Start, TypeOK, HistoryTyped
  <2>. QED
    BY <1>2, <2>1, <2>2 DEF Idle
<1>. QED
  BY <1>1, <1>2 DEF Active

\* The next record of the call, for every kind of step.
LEMMA NextRecord ==
    ASSUME TypeOK, Shape, NEW c \in Calls, NEW m \in Progress, Active(c, m), Kind(c, m),
           DefinitionsTyped'
    PROVE  \E r \in Progress : ShapeOf(r) /\ call' = [call EXCEPT ![c] = r]
<1>. DEFINE Found == \E r \in Progress : ShapeOf(r) /\ call' = [call EXCEPT ![c] = r]
<1>1. /\ m.op \in Operations /\ m.todo \in Nat
      /\ m.op = "updateQueue" => m.def \in Definition
      /\ m.next = "none" \/ (m.next \in StepsOf(m.op) /\ m.next # "none")
  BY ActiveProperties DEF Progress, StepsOf, Operations
<1>2. config' \in Seq(Definition)
  BY DEF DefinitionsTyped
<1>3. ASSUME NEW io \in Waits \ {"idle", "closing", "file"},
             NEW next \in StepsOf(m.op) \ {"none", "track"}, next \in Steps, Await(c, m, io, next)
      PROVE  Found
  <2>. DEFINE r == [m EXCEPT !.at = io, !.next = next]
  <2>1. r \in Progress /\ r.at = io /\ r.next = next /\ r.op = m.op /\ r.def = m.def
    BY <1>3 DEF Progress
  <2>2. ShapeOf(r)
    BY <1>1, <1>3, <2>1 DEF ShapeOf, Idle, Operations
  <2>. QED
    BY <1>3, <2>1, <2>2 DEF Await
<1>4. ASSUME NEW next \in StepsOf(m.op) \ {"none", "track"}, next \in Steps, saveConfig(c, m, next)
      PROVE  Found
  <2>1. "redis" \in Waits \ {"idle", "closing", "file"} /\ "redisDown" \in Waits \ {"idle", "closing", "file"}
    BY DEF Waits
  <2>. QED
    BY <1>3, <1>4, <2>1 DEF saveConfig
<1>5. ASSUME NEW next \in StepsOf(m.op) \ {"none", "track"}, next \in Steps, saveConfigToFile(c, m, next)
      PROVE  Found
  <2>1. "fileDown" \in Waits \ {"idle", "closing", "file"}
    BY DEF Waits
  <2>2. CASE Await(c, m, "fileDown", next)
    BY <1>3, <1>5, <2>1, <2>2
  <2>3. CASE Await(c, [m EXCEPT !.content = config'], "file", next)
    <3>. DEFINE r == [[m EXCEPT !.content = config'] EXCEPT !.at = "file", !.next = next]
    <3>1. /\ r \in Progress /\ r.at = "file" /\ r.next = next /\ r.op = m.op /\ r.def = m.def
          /\ r.content = config'
      BY <1>2, <1>5 DEF Progress, Waits
    <3>2. ShapeOf(r)
      BY <1>1, <1>2, <1>5, <3>1 DEF ShapeOf, Idle, Operations
    <3>. QED
      BY <2>3, <3>1, <3>2 DEF Await
  <2>. QED
    BY <1>5, <2>2, <2>3 DEF saveConfigToFile
<1>6. ASSUME call' = [call EXCEPT ![c] = Idle] PROVE Found
  <2>1. Idle \in Progress /\ ShapeOf(Idle)
    BY DEF Idle, Progress, ShapeOf, StepsOf, Waits, Steps
  <2>. QED
    BY <1>6, <2>1
<1>. SUFFICES Found
  OBVIOUS
<1>. HIDE DEF Found
<1>7. CASE Closes(c, m)
  <2>1. PICK next \in {"count", "removeSome", "removeAll"}, n \in Nat :
          /\ closeLast(c, m, next, n) /\ next \in StepsOf(m.op)
    BY <1>7 DEF Closes, Adjusts, StepsOf
  <2>. DEFINE last == workers[Len(workers)]
              r == [[m EXCEPT !.target = last, !.todo = n] EXCEPT !.at = "closing", !.next = next]
  <2>2. last \in Worker
    <3>1. workers \in Seq(Worker) /\ workers # << >>
      BY <1>7 DEF Closes, TypeOK
    <3>. QED
      BY <3>1, LenProperties, EmptySeq
  <2>. HIDE DEF last
  <2>3. /\ r \in Progress /\ r.at = "closing" /\ r.next = next /\ r.op = m.op /\ r.def = m.def
        /\ r.target = last
    BY <2>1, <2>2 DEF Progress, Waits, Steps
  <2>4. ShapeOf(r)
    BY <1>1, <2>1, <2>2, <2>3 DEF ShapeOf, Idle, Operations
  <2>. QED
    BY <2>1, <2>3, <2>4 DEF closeLast, Await, last, Found
<1>8. CASE Adds(c, m)
  <2>1. PICK n \in Nat : addWorkerForQueue(c, m, n)
    BY <1>8 DEF Adds
  <2>. DEFINE new == [number |-> Len(workers) + 1, worker |-> NewInstance]
              r == [[m EXCEPT !.target = new, !.todo = n] EXCEPT !.at = "ready", !.next = "track"]
  <2>2. new \in Worker
    <3>1. Len(workers) \in Nat /\ NewInstance \in Nat \ {0}
      BY NewInstanceIsNew, LenProperties DEF TypeOK
    <3>. QED
      BY <3>1 DEF Worker
  <2>3. call' = [call EXCEPT ![c] = r]
    BY <2>1 DEF addWorkerForQueue, Await
  <2>. HIDE DEF new
  <2>4. /\ r \in Progress /\ r.at = "ready" /\ r.next = "track" /\ r.op = m.op /\ r.def = m.def
        /\ r.target = new
    BY <2>2 DEF Progress, Waits, Steps
  <2>5. "track" \in StepsOf(m.op)
    BY <1>8 DEF Adds, Adjusts, StepsOf
  <2>6. ShapeOf(r)
    BY <1>1, <2>2, <2>4, <2>5 DEF ShapeOf, Idle, Operations
  <2>. QED
    BY <2>3, <2>4, <2>6 DEF Found
<1>9. CASE Tracks(c, m)
  <2>. DEFINE next == IF m.op = "addWorker" THEN "count" ELSE "more"
              r == [[m EXCEPT !.target = None] EXCEPT !.at = "ready", !.next = next]
  <2>1. call' = [call EXCEPT ![c] = r]
    BY <1>9 DEF Tracks, track, Await
  <2>3. next \in StepsOf(m.op) /\ next \in {"count", "more"}
    BY <1>1, <1>9 DEF Tracks, StepsOf, Operations
  <2>. HIDE DEF next
  <2>2. r \in Progress /\ r.at = "ready" /\ r.next = next /\ r.op = m.op /\ r.def = m.def
    BY <2>3 DEF Progress, Waits, Steps
  <2>4. ShapeOf(r)
    BY <1>1, <2>2, <2>3 DEF ShapeOf, Idle, Operations
  <2>. QED
    BY <2>1, <2>2, <2>4 DEF Found
<1>10. CASE Counts(c, m)
  <2>1. saveConfig(c, m, "countFile") /\ "countFile" \in StepsOf(m.op) /\ "countFile" \in Steps
    BY <1>10 DEF Counts, Adjusts, setQueueWorkers, StepsOf, Steps
  <2>. QED
    BY <1>4, <2>1
<1>11. CASE SavesLast(c, m)
  <2>1. saveConfig(c, m, "end") /\ "end" \in StepsOf(m.op) /\ "end" \in Steps
    BY <1>11 DEF SavesLast, lastSave, StepsOf, Steps
  <2>. QED
    BY <1>4, <2>1
<1>12. CASE Ends(c, m) \/ Throws(c, m)
  BY <1>6, <1>12 DEF Ends, Throws, End, Throw
<1>13. CASE ClosesQueue(c, m)
  <2>1. "queueClosing" \in Waits \ {"idle", "closing", "file"} /\ {"recreate", "dropQueue"} \subseteq Steps
    BY DEF Waits, Steps
  <2>2. CASE m.op = "updateQueue" /\ Await(c, m, "queueClosing", "recreate")
    BY <1>3, <2>1, <2>2 DEF StepsOf
  <2>3. CASE m.op = "deleteQueue" /\ Await(c, m, "queueClosing", "dropQueue")
    BY <1>3, <2>1, <2>3 DEF StepsOf
  <2>. QED
    BY <1>13, <2>2, <2>3 DEF ClosesQueue
<1>14. CASE Drops(c, m)
  <2>1. CASE m.op = "updateQueue" /\ Await(c, m, "ready", "create")
    BY <1>3, <2>1 DEF StepsOf, Waits, Steps
  <2>2. CASE m.op = "deleteQueue" /\ saveConfigToFile(c, m, "announce")
    BY <1>5, <2>2 DEF StepsOf, Steps
  <2>. QED
    BY <1>14, <2>1, <2>2 DEF Drops, dropQueue
<1>15. CASE Creates(c, m)
  <2>1. CASE m.op = "updateQueue" /\ saveConfigToFile(c, m, "reconcile")
    BY <1>5, <2>1 DEF StepsOf, Steps
  <2>2. CASE m.op = "createQueue" /\ saveConfigToFile(c, m, "announce")
    BY <1>5, <2>2 DEF StepsOf, Steps
  <2>. QED
    BY <1>15, <2>1, <2>2 DEF Creates
<1>16. CASE Writes(c, m)
  <2>1. saveConfigToFile(c, m, "published") /\ "published" \in StepsOf(m.op) /\ "published" \in Steps
    BY <1>1, <1>16 DEF Writes, StepsOf, Steps, Operations
  <2>. QED
    BY <1>5, <2>1
<1>17. CASE Publishes(c, m)
  BY <1>3, <1>17 DEF Publishes, StepsOf, Waits, Steps
<1>18. CASE Announces(c, m)
  <2>1. CASE m.op = "createQueue" /\ saveConfig(c, m, "ensure")
    BY <1>4, <2>1 DEF StepsOf, Steps
  <2>2. CASE m.op = "deleteQueue" /\ saveConfig(c, m, "end")
    BY <1>4, <2>2 DEF StepsOf, Steps
  <2>. QED
    BY <1>18, <2>1, <2>2 DEF Announces
<1>. QED
  BY <1>7, <1>8, <1>9, <1>10, <1>11, <1>12, <1>13, <1>14, <1>15, <1>16, <1>17, <1>18 DEF Kind

\* Only four kinds of steps change the definitions, and they change them together.
LEMMA DefinitionsKinds ==
    ASSUME TypeOK, Shape, DefinitionsAgree,
           NEW c \in Calls, NEW m \in Progress, Active(c, m), Kind(c, m)
    PROVE  DefinitionsTyped' /\ DefinitionsAgree'
<1>1. CASE UNCHANGED definitions
  BY <1>1 DEF TypeOK, DefinitionsAgree, DefinitionsTyped, definitions
<1>2. CASE Counts(c, m)
  <2>1. definition' = [definition EXCEPT !.workers = Len(workers)] /\ definition # None
    BY <1>2 DEF Counts, setQueueWorkers
  <2>2. Len(workers) \in Nat /\ definition \in Definition
    BY <2>1, LenProperties DEF TypeOK
  <2>3. definition' \in Definition
    BY <2>1, <2>2 DEF Definition
  <2>4. config # << >>
    BY <2>1 DEF DefinitionsAgree, ToSet
  <2>5. config' = [config EXCEPT ![1] = definition']
    BY <1>2, <2>4 DEF Counts, setQueueWorkers
  <2>6. config \in Seq(Definition) /\ 1 \in 1..Len(config)
    <3>1. config \in Seq(Definition)
      BY DEF TypeOK
    <3>. QED
      BY <2>4, <3>1, EmptySeq, LenProperties
  <2>7. config' \in Seq(Definition) /\ DOMAIN config' = DOMAIN config /\ config'[1] = definition'
    BY <2>3, <2>5, <2>6, ExceptSeq, LenProperties
  <2>8. definition' \in ToSet(config')
    BY <2>6, <2>7, LenProperties DEF ToSet
  <2>9. definition' # None
    BY <2>3, AdminAssumption
  <2>. QED
    BY <2>3, <2>7, <2>8, <2>9 DEF DefinitionsTyped, DefinitionsAgree
<1>3. CASE Drops(c, m)
  <2>1. definition' = None /\ config' = << >>
    BY <1>3 DEF Drops, dropQueue
  <2>. QED
    BY <2>1 DEF DefinitionsTyped, DefinitionsAgree, Enabled
<1>4. CASE Creates(c, m)
  <2>1. PICK def \in Definition : definition' = def /\ config' = Append(config, def)
    BY <1>4 DEF Creates
  <2>2. /\ config \in Seq(Definition) /\ config' \in Seq(Definition)
        /\ Len(config) \in Nat /\ Len(config') = Len(config) + 1 /\ config'[Len(config) + 1] = def
    BY <2>1, AppendProperties, LenProperties DEF TypeOK
  <2>3. Len(config) + 1 \in DOMAIN config'
    BY <2>2, LenProperties
  <2>4. def # None /\ def \in ToSet(config')
    BY <2>2, <2>3, AdminAssumption DEF ToSet
  <2>. QED
    BY <2>1, <2>2, <2>4 DEF DefinitionsTyped, DefinitionsAgree
<1>. QED
  BY <1>1, <1>2, <1>3, <1>4 DEF Kind, Closes, closeLast, Adds, addWorkerForQueue, Tracks, track,
     SavesLast, lastSave, Ends, Throws, ClosesQueue, Writes, Publishes, Announces

\* What the two saves do to the stores.
LEMMA SaveKinds ==
    ASSUME TypeOK, NEW c, NEW m, NEW next, DefinitionsTyped',
           saveConfig(c, m, next) \/ saveConfigToFile(c, m, next)
    PROVE  SavesTyped'
<1>1. /\ faults \in 0..MaxFaults /\ config' \in Seq(Definition) /\ upset \in BOOLEAN
      /\ redis \in Seq(Definition) \cup {None} /\ file \in Seq(Definition) \cup {Torn}
  BY DEF TypeOK, DefinitionsTyped
<1>2. /\ redis' \in Seq(Definition) \cup {None} /\ file' \in Seq(Definition) \cup {Torn}
  BY <1>1 DEF saveConfig, saveConfigToFile
<1>3. (UNCHANGED <<faults, upset>>) \/ (Fault /\ upset' = TRUE)
  BY DEF saveConfig, saveConfigToFile
<1>4. faults' \in 0..MaxFaults
  BY <1>1, <1>3, AdminAssumption DEF Fault
<1>5. upset' \in BOOLEAN
  BY <1>1, <1>3, Zenon
<1>. QED
  BY <1>2, <1>4, <1>5 DEF SavesTyped

LEMMA SavesKinds ==
    ASSUME TypeOK, NEW c \in Calls, NEW m \in Progress, Kind(c, m), DefinitionsTyped'
    PROVE  SavesTyped'
<1>1. CASE UNCHANGED saves /\ upset' \in BOOLEAN
  BY <1>1 DEF TypeOK, SavesTyped, saves
<1>2. CASE \E next : saveConfig(c, m, next) \/ saveConfigToFile(c, m, next)
  <2>1. PICK next : saveConfig(c, m, next) \/ saveConfigToFile(c, m, next)
    BY <1>2
  <2>. QED
    BY <2>1, SaveKinds
<1>3. upset \in BOOLEAN
  BY DEF TypeOK
<1>4. CASE Closes(c, m) \/ Adds(c, m) \/ Tracks(c, m)
  BY <1>1, <1>3, <1>4, Zenon DEF Closes, closeLast, Adds, addWorkerForQueue, Tracks, track
<1>5. CASE Counts(c, m) \/ SavesLast(c, m) \/ Creates(c, m) \/ Writes(c, m) \/ Announces(c, m)
  BY <1>2, <1>5 DEF Counts, setQueueWorkers, SavesLast, lastSave, Creates, Writes, Announces
<1>6. CASE Ends(c, m) \/ Throws(c, m)
  BY <1>1, <1>3, <1>6 DEF Ends, End, Throws, Throw
<1>7. CASE ClosesQueue(c, m) \/ Publishes(c, m)
  BY <1>1, <1>3, <1>7 DEF ClosesQueue, Publishes
<1>8. CASE Drops(c, m)
  BY <1>1, <1>2, <1>3, <1>8 DEF Drops, dropQueue
<1>. QED
  BY <1>4, <1>5, <1>6, <1>7, <1>8 DEF Kind

\* Only three kinds of steps touch the workers.
LEMMA PoolUntouched ==
    ASSUME NEW c, NEW m, Kind(c, m)
    PROVE  Closes(c, m) \/ Adds(c, m) \/ Tracks(c, m) \/ UNCHANGED pool
  BY DEF Kind, Counts, SavesLast, Ends, Throws, ClosesQueue, Drops, dropQueue, Creates, Writes,
     Publishes, Announces, pool

LEMMA PoolKinds ==
    ASSUME TypeOK, Shape, NEW c \in Calls, NEW m \in Progress, Active(c, m), Kind(c, m)
    PROVE  PoolTyped'
<1>1. PoolTyped
  BY TypesByGroup
<1>2. CASE UNCHANGED pool
  BY <1>1, <1>2 DEF PoolTyped, pool, Distinct
<1>3. CASE Closes(c, m)
  <2>. DEFINE last == workers[Len(workers)]
              State == [state : {"running", "closing"}, concurrency : Nat \ {0}]
  <2>1. workers' = workers /\ instance' = [instance EXCEPT ![last.worker].state = "closing"]
    BY <1>3 DEF Closes, closeLast
  <2>. HIDE DEF last
  <2>2. instance \in [DOMAIN instance -> State]
    BY <1>1 DEF PoolTyped
  <2>3. ASSUME NEW w \in DOMAIN instance
        PROVE  [instance[w] EXCEPT !.state = "closing"] \in State
    BY <2>2
  <2>. HIDE DEF State
  <2>4. instance' = [w \in DOMAIN instance |->
                       IF w = last.worker THEN [instance[w] EXCEPT !.state = "closing"]
                                          ELSE instance[w]]
    BY <2>1, <2>2
  <2>5. instance' \in [DOMAIN instance -> State]
    BY <2>2, <2>3, <2>4
  <2>6. DOMAIN instance' = DOMAIN instance
    BY <2>4
  <2>7. workers' \in Seq(Worker) /\ Distinct(workers')
    BY <1>1, <2>1, Zenon DEF PoolTyped
  <2>8. DOMAIN instance' \subseteq Nat \ {0} /\ IsFiniteSet(DOMAIN instance')
    BY <1>1, <2>6, Zenon DEF PoolTyped
  <2>9. instance' \in [DOMAIN instance' -> State]
    BY <2>5, <2>6, Zenon
  <2>. QED
    BY <2>7, <2>8, <2>9, Zenon DEF PoolTyped, State
<1>4. CASE Adds(c, m)
  <2>1. definition # None /\ definition \in Definition
    BY <1>4 DEF Adds, TypeOK
  <2>2. /\ workers' = workers
        /\ instance' = [w \in DOMAIN instance \cup {NewInstance} |->
                          IF w = NewInstance
                          THEN [state |-> "running", concurrency |-> definition.concurrency]
                          ELSE instance[w]]
    BY <1>4 DEF Adds, addWorkerForQueue
  <2>3. NewInstance \in Nat \ {0}
    BY <1>1, NewInstanceIsNew DEF PoolTyped
  <2>4. IsFiniteSet(DOMAIN instance \cup {NewInstance})
    BY <1>1, FS_AddElement DEF PoolTyped
  <2>5. definition.concurrency \in Nat \ {0}
    BY <2>1 DEF Definition
  <2>. QED
    BY <1>1, <2>2, <2>3, <2>4, <2>5 DEF PoolTyped, Distinct
<1>5. CASE Tracks(c, m)
  <2>1. m.target \in Worker
    BY <1>5, ActiveProperties DEF Tracks
  <2>2. workers' = MapSet(workers, m.target.number, m.target.worker) /\ instance' = instance
    BY <1>5 DEF Tracks, track
  <2>3. m.target.number \in Nat \ {0} /\ m.target.worker \in Nat \ {0}
    BY <2>1 DEF Worker
  <2>4. workers' \in Seq(Worker) /\ Distinct(workers')
    BY <1>1, <2>2, <2>3, MapSetProperties DEF PoolTyped
  <2>. QED
    BY <1>1, <2>2, <2>4 DEF PoolTyped, Distinct
<1>. QED
  BY <1>2, <1>3, <1>4, <1>5, PoolUntouched

\* A record that is replaced by another one keeps the calls typed and shaped.
LEMMA CallReplaced ==
    ASSUME TypeOK, Shape, NEW c \in Calls, NEW r \in Progress, ShapeOf(r),
           call' = [call EXCEPT ![c] = r]
    PROVE  CallsTyped' /\ Shape'
<1>1. call' \in [Calls -> Progress]
  BY DEF TypeOK
<1>2. \A d \in Calls : call'[d] = r \/ call'[d] = call[d]
  BY DEF TypeOK
<1>3. \A d \in Calls : ShapeOf(call'[d])
  BY <1>2 DEF Shape
<1>. QED
  BY <1>1, <1>3 DEF CallsTyped, Shape

LEMMA CallKinds ==
    ASSUME TypeOK, Shape, DefinitionsAgree,
           NEW c \in Calls, NEW m \in Progress, Active(c, m), Kind(c, m)
    PROVE  TypeOK' /\ Shape' /\ DefinitionsAgree'
<1>1. DefinitionsTyped' /\ DefinitionsAgree'
  BY DefinitionsKinds
<1>2. PICK r \in Progress : ShapeOf(r) /\ call' = [call EXCEPT ![c] = r]
  BY <1>1, NextRecord
<1>3. CallsTyped' /\ Shape'
  BY <1>2, CallReplaced
<1>4. SavesTyped' /\ PoolTyped' /\ HistoryTyped'
  BY <1>1, SavesKinds, PoolKinds, ActiveProperties
<1>5. TypeOK'
  BY <1>1, <1>3, <1>4, TypesByGroup, PTL
<1>. QED
  BY <1>1, <1>3, <1>5

\* What the outside world answers changes the call that waits, and the file.
LEMMA OutsideProperties ==
    ASSUME TypeOK, Shape, NEW c \in Calls, Outside(c)
    PROVE  /\ UNCHANGED <<definitions, pool, redis, faults, history>>
           /\ Quiet /\ call[c].at \notin {"idle", "closing", "ready"}
           /\ \/ /\ call' = [call EXCEPT ![c] = [call[c] EXCEPT !.at = "ready", !.content = None]]
                 /\ UNCHANGED upset
                 /\ \/ file' = file /\ call[c].at # "file"
                    \/ call[c].at = "file" /\ file' = call[c].content
                    \/ call[c].at = "file" /\ file \notin {Torn, call[c].content} /\ file' = Torn
              \/ /\ call' = [call EXCEPT ![c] = Idle]
                 /\ upset' = TRUE /\ file' = file
<1>1. ASSUME NEW io \in Waits, Answered(c, io)
      PROVE  /\ UNCHANGED <<definitions, pool, redis, faults, history, upset>>
             /\ Quiet /\ call[c].at = io
             /\ call' = [call EXCEPT ![c] = [call[c] EXCEPT !.at = "ready", !.content = None]]
  BY <1>1, Zenon DEF Answered
<1>2. CASE redisAnswers(c) \/ (Answered(c, "redisDown") /\ UNCHANGED file)
  <2>1. {"redis", "redisDown"} \subseteq Waits
    BY DEF Waits
  <2>2. PICK io \in {"redis", "redisDown"} : Answered(c, io)
    BY <1>2 DEF redisAnswers
  <2>3. file' = file
    BY <1>2 DEF redisAnswers
  <2>. QED
    BY <1>1, <2>1, <2>2, <2>3 DEF definitions, pool, history
<1>3. CASE fileWritten(c)
  <2>1. "file" \in Waits
    BY DEF Waits
  <2>. QED
    BY <1>1, <1>3, <2>1 DEF fileWritten, definitions, pool, history
<1>4. CASE /\ Quiet /\ call[c].at \in {"redisDown", "fileDown"}
           /\ Throw(c) /\ UNCHANGED <<definitions, pool, saves, history>>
  BY <1>4 DEF Throw, definitions, pool, saves, history
<1>. QED
  BY <1>2, <1>3, <1>4 DEF Outside, redisFails, fileFails

LEMMA OutsideTyped ==
    ASSUME TypeOK, Shape, DefinitionsAgree, NEW c \in Calls, Outside(c)
    PROVE  TypeOK' /\ Shape' /\ DefinitionsAgree'
<1>1. DefinitionsTyped /\ PoolTyped /\ SavesTyped /\ HistoryTyped /\ CallsTyped
  BY TypesByGroup
<1>2. UNCHANGED <<definitions, pool, redis, faults, history>>
  BY OutsideProperties
<1>3. DefinitionsTyped' /\ DefinitionsAgree' /\ HistoryTyped'
  BY <1>1, <1>2 DEF DefinitionsTyped, DefinitionsAgree, HistoryTyped, definitions, history
<1>4. PoolTyped'
  BY <1>1, <1>2 DEF PoolTyped, Distinct, pool
<1>5. call[c] \in Progress /\ ShapeOf(call[c])
  BY DEF TypeOK, Shape
<1>6. SavesTyped'
  <2>1. file' \in Seq(Definition) \cup {Torn}
    BY <1>1, <1>5, OutsideProperties DEF SavesTyped, ShapeOf
  <2>2. upset' \in BOOLEAN
    BY <1>1, OutsideProperties DEF SavesTyped
  <2>. QED
    BY <1>1, <1>2, <2>1, <2>2 DEF SavesTyped
<1>7. CallsTyped' /\ Shape'
  <2>1. CASE call' = [call EXCEPT ![c] = [call[c] EXCEPT !.at = "ready", !.content = None]]
    <3>. DEFINE r == [call[c] EXCEPT !.at = "ready", !.content = None]
    <3>1. /\ r \in Progress /\ r.at = "ready" /\ r.op = call[c].op /\ r.next = call[c].next
          /\ r.def = call[c].def /\ r.target = call[c].target
      BY <1>5 DEF Progress, Waits
    <3>2. call[c].at \notin {"idle", "closing", "ready"}
      BY OutsideProperties
    <3>3. r.op # "none"
      BY <1>5, <3>1, <3>2 DEF ShapeOf, Idle
    <3>4. ShapeOf(r)
      BY <1>5, <3>1, <3>2, <3>3 DEF ShapeOf, Idle
    <3>. QED
      BY <2>1, <3>1, <3>4, CallReplaced
  <2>2. CASE call' = [call EXCEPT ![c] = Idle]
    <3>1. Idle \in Progress /\ ShapeOf(Idle)
      BY DEF Idle, Progress, ShapeOf, StepsOf, Waits, Steps
    <3>. QED
      BY <2>2, <3>1, CallReplaced
  <2>. QED
    BY <2>1, <2>2, OutsideProperties
<1>. QED
  BY <1>3, <1>4, <1>6, <1>7, TypesByGroup, PTL

\* The calls that wait for a worker run on, and nobody else does.
Woken(w) ==
    /\ \A c \in Calls \ WaitingFor(w) : call'[c] = call[c]
    /\ \A c \in WaitingFor(w) :
         /\ call[c].at = "closing" /\ call[c].target.worker = w
         /\ call'[c] = [call[c] EXCEPT !.at = "ready", !.target = None]
         /\ call'[c].at = "ready" /\ call'[c].next \in {"count", "removeSome", "removeAll"}
         /\ \A f \in {"op", "next", "def", "changed", "content"} : call'[c][f] = call[c][f]

LEMMA WokenCalls ==
    ASSUME TypeOK, Shape, NEW w, WakeUp(WaitingFor(w))
    PROVE  CallsTyped' /\ Shape' /\ Woken(w)
<1>. DEFINE r(c) == [call[c] EXCEPT !.at = "ready", !.target = None]
<1>1. WaitingFor(w) \subseteq Calls
  BY DEF WaitingFor
<1>2. \A c \in Calls : call'[c] = IF c \in WaitingFor(w) THEN r(c) ELSE call[c]
  BY DEF WakeUp
<1>3. ASSUME NEW c \in WaitingFor(w)
      PROVE  /\ call[c].at = "closing" /\ call[c].target.worker = w
             /\ r(c) \in Progress /\ ShapeOf(r(c))
             /\ r(c).at = "ready" /\ r(c).next \in {"count", "removeSome", "removeAll"}
             /\ \A f \in {"op", "next", "def", "changed", "content"} : r(c)[f] = call[c][f]
  <2>1. call[c] \in Progress /\ ShapeOf(call[c]) /\ call[c].at = "closing" /\ call[c].target.worker = w
    BY DEF TypeOK, Shape, WaitingFor
  <2>2. /\ r(c) \in Progress /\ r(c).at = "ready" /\ r(c).op = call[c].op
        /\ r(c).next = call[c].next /\ r(c).def = call[c].def
        /\ \A f \in {"op", "next", "def", "changed", "content"} : r(c)[f] = call[c][f]
    BY <2>1 DEF Progress, Waits
  <2>3. call[c].op # "none"
    BY <2>1 DEF ShapeOf, Idle
  <2>4. ShapeOf(r(c))
    BY <2>1, <2>2, <2>3 DEF ShapeOf, Idle
  <2>. QED
    BY <2>1, <2>2, <2>4 DEF ShapeOf
<1>. HIDE DEF r
<1>4. CallsTyped'
  <2>1. call' = [c \in Calls |-> IF c \in WaitingFor(w) THEN r(c) ELSE call[c]]
    BY DEF WakeUp, r
  <2>2. \A c \in Calls : (IF c \in WaitingFor(w) THEN r(c) ELSE call[c]) \in Progress
    BY <1>3 DEF TypeOK
  <2>. QED
    BY <2>1, <2>2 DEF CallsTyped
<1>5. Shape'
  <2>1. \A c \in Calls : ShapeOf(call'[c])
    BY <1>2, <1>3 DEF Shape
  <2>. QED
    BY <2>1 DEF Shape
<1>6. \A c \in Calls \ WaitingFor(w) : call'[c] = call[c]
  BY <1>2
<1>7. \A c \in WaitingFor(w) : call'[c] = r(c)
  BY <1>1, <1>2
<1>8. ASSUME NEW c \in WaitingFor(w)
      PROVE  /\ call[c].at = "closing" /\ call[c].target.worker = w
             /\ call'[c].at = "ready" /\ call'[c].next \in {"count", "removeSome", "removeAll"}
             /\ \A f \in {"op", "next", "def", "changed", "content"} : call'[c][f] = call[c][f]
  <2>1. call'[c] = r(c)
    BY <1>7
  <2>. QED
    BY <1>3, <2>1
<1>9. \A c \in WaitingFor(w) : call'[c] = [call[c] EXCEPT !.at = "ready", !.target = None]
  BY <1>7, Zenon DEF r
<1>. QED
  BY <1>4, <1>5, <1>6, <1>8, <1>9, Zenon DEF Woken

LEMMA ClosedTyped ==
    ASSUME TypeOK, Shape, DefinitionsAgree, NEW w \in DOMAIN instance, workerClosed(w)
    PROVE  TypeOK' /\ Shape' /\ DefinitionsAgree'
<1>1. DefinitionsTyped /\ PoolTyped /\ SavesTyped /\ HistoryTyped /\ CallsTyped
  BY TypesByGroup
<1>2. CallsTyped' /\ Shape'
  BY WokenCalls DEF workerClosed, Woken
<1>3. UNCHANGED <<definitions, saves, history, upset>>
  BY DEF workerClosed
<1>4. DefinitionsTyped' /\ DefinitionsAgree' /\ HistoryTyped' /\ SavesTyped'
  BY <1>1, <1>3 DEF DefinitionsTyped, DefinitionsAgree, HistoryTyped, SavesTyped, definitions, history, saves
<1>5. PoolTyped'
  <2>1. PICK c \in WaitingFor(w) : workers' = MapDelete(workers, call[c].target.number)
    BY DEF workerClosed
  <2>2. workers' \in Seq(Worker) /\ Distinct(workers')
    BY <1>1, <2>1, MapDeleteProperties DEF PoolTyped
  <2>3. instance' = [v \in DOMAIN instance \ {w} |-> instance[v]]
    BY DEF workerClosed
  <2>4. IsFiniteSet(DOMAIN instance \ {w})
    BY <1>1, FS_RemoveElement DEF PoolTyped
  <2>. QED
    BY <1>1, <2>2, <2>3, <2>4 DEF PoolTyped, Distinct
<1>. QED
  BY <1>2, <1>4, <1>5, TypesByGroup, PTL

\* The state a start of the process makes from a list of definitions.
StartedFrom(defs) ==
    /\ config = defs /\ definition = LastEnabled(defs)
    /\ workers = InitialWorkers(defs) /\ instance = InitialInstances(defs)
    /\ call = [c \in Calls |-> Idle]
JustStarted == \E defs \in Seq(Definition) : StartedFrom(defs)

LEMMA StartTyped ==
    JustStarted => DefinitionsTyped /\ DefinitionsAgree /\ PoolTyped /\ CallsTyped /\ Shape
<1>. SUFFICES ASSUME NEW defs \in Seq(Definition), StartedFrom(defs)
              PROVE  DefinitionsTyped /\ DefinitionsAgree /\ PoolTyped /\ CallsTyped /\ Shape
  BY DEF JustStarted
<1>. USE DEF StartedFrom
<1>1. DefinitionsTyped /\ DefinitionsAgree
  BY LastEnabledProperties DEF DefinitionsTyped, DefinitionsAgree
<1>2. workers \in Seq(Worker) /\ \A k \in DOMAIN workers : workers[k].number = k
  BY InitialWorkersProperties
<1>3. PoolTyped
  BY <1>2, InitialInstancesProperties DEF PoolTyped, Distinct
<1>4. Idle \in Progress /\ ShapeOf(Idle)
  BY DEF Idle, Progress, ShapeOf, StepsOf, Waits, Steps
<1>5. CallsTyped /\ Shape
  BY <1>4 DEF CallsTyped, Shape
<1>. QED
  BY <1>1, <1>3, <1>5

LEMMA LoadedDefinitions ==
    ASSUME TypeOK
    PROVE  loadQueueConfig(file) \in Seq(Definition)
  BY AdminAssumption DEF TypeOK, loadQueueConfig

LEMMA RestartTyped ==
    ASSUME TypeOK, Shape, DefinitionsAgree, restart
    PROVE  TypeOK' /\ Shape' /\ DefinitionsAgree'
<1>. DEFINE defs == loadQueueConfig(file)
<1>1. defs \in Seq(Definition)
  BY LoadedDefinitions
<1>2. /\ config' = defs /\ definition' = LastEnabled(defs)
      /\ workers' = InitialWorkers(defs) /\ instance' = InitialInstances(defs)
      /\ call' = [c \in Calls |-> Idle]
  BY DEF restart
<1>. HIDE DEF defs
<1>3. DefinitionsTyped' /\ DefinitionsAgree' /\ PoolTyped' /\ CallsTyped' /\ Shape'
  <2>1. JustStarted'
    BY <1>1, <1>2 DEF JustStarted, StartedFrom
  <2>. QED
    BY <2>1, StartTyped, PTL
<1>4. HistoryTyped' /\ SavesTyped'
  <2>1. /\ UNCHANGED <<redis, file, started, overlapped>> /\ Fault
        /\ doubled' = (doubled \/ Twice(defs))
        /\ upset' = (upset \/ ~Quiescent \/ defs # config)
    BY DEF restart, defs
  <2>2. doubled' \in BOOLEAN /\ upset' \in BOOLEAN
    BY <2>1, Zenon
  <2>3. faults' \in 0..MaxFaults
    BY <2>1, AdminAssumption DEF Fault, TypeOK
  <2>. QED
    BY <2>1, <2>2, <2>3 DEF TypeOK, HistoryTyped, SavesTyped
<1>. QED
  BY <1>3, <1>4, TypesByGroup, PTL

LEMMA InitTyped ==
    ASSUME Init
    PROVE  TypeOK /\ Shape /\ DefinitionsAgree
<1>1. StartDefs \in Seq(Definition)
  BY AdminAssumption
<1>2. DefinitionsTyped /\ DefinitionsAgree /\ PoolTyped /\ CallsTyped /\ Shape
  BY <1>1, StartTyped DEF Init, JustStarted, StartedFrom
<1>3. HistoryTyped /\ SavesTyped
  <2>1. doubled \in BOOLEAN /\ overlapped \in BOOLEAN /\ upset \in BOOLEAN
    BY Zenon DEF Init, Twice
  <2>2. /\ redis \in Seq(Definition) \cup {None} /\ file \in Seq(Definition) \cup {Torn}
        /\ started \in 0..MaxStarted /\ faults \in 0..MaxFaults
    BY <1>1, AdminAssumption DEF Init
  <2>. QED
    BY <2>1, <2>2 DEF HistoryTyped, SavesTyped
<1>. QED
  BY <1>2, <1>3, TypesByGroup

-----------------------------------------------------------------------------
(***************************************************************************)
(* Where a call is after its step.                                         *)
(***************************************************************************)
Others(c) == \A d \in Calls \ {c} : call'[d] = call[d]
After(c, m, io, next) ==
    /\ call'[c].at = io /\ call'[c].next = next /\ call'[c].op = m.op
    /\ call'[c].def = m.def /\ call'[c].changed = m.changed
    /\ Others(c)

LEMMA AwaitAfter ==
    ASSUME TypeOK, NEW c \in Calls, NEW m \in Progress, NEW io, NEW next, Await(c, m, io, next)
    PROVE  After(c, m, io, next) /\ call'[c].target = m.target /\ call'[c].content = m.content
  BY DEF Await, After, Others, TypeOK, Progress

LEMMA IdleAfter ==
    ASSUME TypeOK, NEW c \in Calls, call' = [call EXCEPT ![c] = Idle]
    PROVE  call'[c] = Idle /\ Others(c)
  BY DEF Others, TypeOK

LEMMA SaveConfigAfter ==
    ASSUME TypeOK, NEW c \in Calls, NEW m \in Progress, NEW next, saveConfig(c, m, next)
    PROVE  /\ file' = file
           /\ \/ After(c, m, "redis", next) /\ redis' = config' /\ UNCHANGED upset
              \/ After(c, m, "redisDown", next) /\ upset'
<1>1. CASE redis' = config' /\ Await(c, m, "redis", next) /\ UNCHANGED <<faults, upset>>
  BY <1>1, AwaitAfter DEF saveConfig
<1>2. CASE Await(c, m, "redisDown", next) /\ upset' = TRUE
  BY <1>2, AwaitAfter DEF saveConfig
<1>. QED
  BY <1>1, <1>2 DEF saveConfig

LEMMA SaveFileAfter ==
    ASSUME TypeOK, DefinitionsTyped', NEW c \in Calls, NEW m \in Progress, NEW next,
           saveConfigToFile(c, m, next)
    PROVE  /\ redis' = redis
           /\ \/ /\ After(c, m, "file", next) /\ call'[c].content = config' /\ file' = Torn
                 /\ UNCHANGED upset
              \/ After(c, m, "fileDown", next) /\ upset'
<1>1. CASE /\ file' = Torn /\ Await(c, [m EXCEPT !.content = config'], "file", next)
           /\ UNCHANGED <<faults, upset>>
  <2>. DEFINE n == [m EXCEPT !.content = config']
  <2>1. config' \in Seq(Definition)
    BY DEF DefinitionsTyped
  <2>2. /\ n \in Progress /\ n.content = config'
        /\ n.op = m.op /\ n.def = m.def /\ n.changed = m.changed
    BY <2>1 DEF Progress
  <2>3. Await(c, n, "file", next)
    BY <1>1
  <2>. HIDE DEF n
  <2>4. After(c, n, "file", next) /\ call'[c].content = config'
    BY <2>2, <2>3, AwaitAfter
  <2>5. After(c, m, "file", next)
    BY <2>2, <2>4 DEF After
  <2>. QED
    BY <1>1, <2>4, <2>5 DEF saveConfigToFile
<1>2. CASE Await(c, m, "fileDown", next) /\ upset' = TRUE
  BY <1>2, AwaitAfter DEF saveConfigToFile
<1>. QED
  BY <1>1, <1>2 DEF saveConfigToFile

LEMMA ClosesAfter ==
    ASSUME TypeOK, NEW c \in Calls, NEW m \in Progress, NEW next, NEW n \in Nat,
           workers # << >>, closeLast(c, m, next, n)
    PROVE  /\ Len(workers) \in DOMAIN workers /\ workers[Len(workers)] \in Worker
           /\ After(c, m, "closing", next) /\ call'[c].target = workers[Len(workers)]
           /\ UNCHANGED <<workers, definitions, saves, upset>>
           /\ instance' = [instance EXCEPT ![workers[Len(workers)].worker].state = "closing"]
<1>. DEFINE last == workers[Len(workers)]
            k == [m EXCEPT !.target = last, !.todo = n]
<1>1. Len(workers) \in DOMAIN workers /\ last \in Worker
  <2>1. workers \in Seq(Worker)
    BY DEF TypeOK
  <2>. QED
    BY <2>1, LenProperties, EmptySeq
<1>2. Await(c, k, "closing", next)
  BY DEF closeLast
<1>3. /\ UNCHANGED <<workers, definitions, saves, upset>>
      /\ instance' = [instance EXCEPT ![last.worker].state = "closing"]
  BY DEF closeLast
<1>. HIDE DEF last
<1>4. k \in Progress /\ k.target = last /\ k.op = m.op /\ k.def = m.def /\ k.changed = m.changed
  BY <1>1 DEF Progress
<1>. HIDE DEF k
<1>5. After(c, k, "closing", next) /\ call'[c].target = last
  BY <1>2, <1>4, AwaitAfter
<1>. QED
  BY <1>1, <1>3, <1>4, <1>5 DEF After, last

LEMMA AddsAfter ==
    ASSUME TypeOK, NEW c \in Calls, NEW m \in Progress, NEW n \in Nat,
           addWorkerForQueue(c, m, n)
    PROVE  /\ After(c, m, "ready", "track")
           /\ call'[c].target = [number |-> Len(workers) + 1, worker |-> NewInstance]
           /\ UNCHANGED <<workers, definitions, saves, upset>>
           /\ DOMAIN instance' = DOMAIN instance \cup {NewInstance}
           /\ instance'[NewInstance] = [state |-> "running", concurrency |-> definition.concurrency]
           /\ \A w \in DOMAIN instance : instance'[w] = instance[w]
           /\ NewInstance \in Nat \ {0} /\ NewInstance \notin DOMAIN instance
<1>. DEFINE new == [number |-> Len(workers) + 1, worker |-> NewInstance]
            k == [m EXCEPT !.target = new, !.todo = n]
<1>1. NewInstance \in Nat \ {0} /\ NewInstance \notin DOMAIN instance
  BY NewInstanceIsNew DEF TypeOK
<1>2. Await(c, k, "ready", "track")
  BY DEF addWorkerForQueue
<1>3. new \in Worker
  <2>1. Len(workers) \in Nat
    BY LenProperties DEF TypeOK
  <2>. QED
    BY <1>1, <2>1 DEF Worker
<1>. HIDE DEF new
<1>4. k \in Progress /\ k.target = new /\ k.op = m.op /\ k.def = m.def /\ k.changed = m.changed
  BY <1>3 DEF Progress
<1>. HIDE DEF k
<1>5. After(c, m, "ready", "track") /\ call'[c].target = new
  BY <1>2, <1>4, AwaitAfter DEF After
<1>6. /\ UNCHANGED <<workers, definitions, saves, upset>>
      /\ instance' = [w \in DOMAIN instance \cup {NewInstance} |->
                        IF w = NewInstance
                        THEN [state |-> "running", concurrency |-> definition.concurrency]
                        ELSE instance[w]]
  BY DEF addWorkerForQueue
<1>7. /\ DOMAIN instance' = DOMAIN instance \cup {NewInstance}
      /\ instance'[NewInstance] = [state |-> "running", concurrency |-> definition.concurrency]
      /\ \A w \in DOMAIN instance : instance'[w] = instance[w]
  BY <1>1, <1>6
<1>. QED
  BY <1>1, <1>5, <1>6, <1>7 DEF new

LEMMA TracksAfter ==
    ASSUME TypeOK, NEW c \in Calls, NEW m \in Progress, track(c, m)
    PROVE  /\ After(c, m, "ready", IF m.op = "addWorker" THEN "count" ELSE "more")
           /\ workers' = MapSet(workers, m.target.number, m.target.worker)
           /\ UNCHANGED <<instance, definitions, saves, upset>>
<1>. DEFINE k == [m EXCEPT !.target = None]
            next == IF m.op = "addWorker" THEN "count" ELSE "more"
<1>1. Await(c, k, "ready", next)
  BY DEF track
<1>. HIDE DEF next
<1>2. k \in Progress /\ k.op = m.op /\ k.def = m.def /\ k.changed = m.changed
  BY DEF Progress
<1>. HIDE DEF k
<1>3. After(c, m, "ready", next)
  BY <1>1, <1>2, AwaitAfter DEF After
<1>. QED
  BY <1>3 DEF track, next

\* A step that leaves the workers alone leads to no place that is about one.
LEMMA QuietAfter ==
    ASSUME TypeOK, DefinitionsTyped', NEW c \in Calls, NEW m \in Progress, Kind(c, m),
           ~(Closes(c, m) \/ Adds(c, m) \/ Tracks(c, m))
    PROVE  call'[c].at # "closing" /\ call'[c].next # "track" /\ Others(c) /\ UNCHANGED pool
<1>. DEFINE Goal == call'[c].at # "closing" /\ call'[c].next # "track" /\ Others(c)
<1>1. ASSUME NEW next, next # "track", saveConfig(c, m, next) \/ saveConfigToFile(c, m, next)
      PROVE  Goal
  BY <1>1, SaveConfigAfter, SaveFileAfter DEF After
<1>2. ASSUME NEW io, NEW next, io # "closing", next # "track", Await(c, m, io, next)
      PROVE  Goal
  BY <1>2, AwaitAfter DEF After
<1>3. ASSUME call' = [call EXCEPT ![c] = Idle] PROVE Goal
  <2>1. call'[c] = Idle /\ Others(c)
    BY <1>3, IdleAfter
  <2>2. Idle.at # "closing" /\ Idle.next # "track"
    BY DEF Idle
  <2>. QED
    BY <2>1, <2>2
<1>. SUFFICES Goal
  BY PoolUntouched
<1>. HIDE DEF Goal
<1>4. CASE Counts(c, m) \/ SavesLast(c, m) \/ Creates(c, m) \/ Writes(c, m) \/ Announces(c, m)
  <2>1. PICK next \in {"countFile", "end", "reconcile", "announce", "published", "ensure"} :
          saveConfig(c, m, next) \/ saveConfigToFile(c, m, next)
    BY <1>4 DEF Counts, setQueueWorkers, SavesLast, lastSave, Creates, Writes, Announces
  <2>. QED
    BY <1>1, <2>1
<1>5. CASE Ends(c, m) \/ Throws(c, m)
  BY <1>3, <1>5 DEF Ends, End, Throws, Throw
<1>6. CASE ClosesQueue(c, m) \/ Publishes(c, m)
  BY <1>2, <1>6 DEF ClosesQueue, Publishes
<1>7. CASE Drops(c, m)
  BY <1>1, <1>2, <1>7 DEF Drops, dropQueue
<1>. QED
  BY <1>4, <1>5, <1>6, <1>7 DEF Kind

-----------------------------------------------------------------------------
(***************************************************************************)
(* The map, the workers and the calls that hold one.                       *)
(***************************************************************************)

\* A step that leaves the workers alone.
LEMMA PoolQuiet ==
    ASSUME TypeOK, Pool, UNCHANGED pool,
           \A d \in Calls :
             /\ call'[d].at = "closing" <=> call[d].at = "closing"
             /\ call'[d].at = "closing" => call'[d].target = call[d].target
             /\ call'[d].next = "track" => call[d].next = "track" /\ call'[d].target = call[d].target
    PROVE  Pool'
<1>1. workers' = workers /\ instance' = instance
  BY DEF pool
<1>2. EntriesDiffer' /\ TrackedExist'
  BY <1>1 DEF Pool, EntriesDiffer, TrackedExist, Tracked
<1>3. CreatedIsFresh'
  BY <1>1 DEF Pool, CreatedIsFresh, Running, Tracked
<1>4. ClosingIsTracked'
  BY <1>1 DEF Pool, ClosingIsTracked
<1>5. ClosingIsAwaited'
  BY <1>1 DEF Pool, ClosingIsAwaited, WaitingFor
<1>. QED
  BY <1>2, <1>3, <1>4, <1>5 DEF Pool

LEMMA PoolCloses ==
    ASSUME TypeOK, Shape, Pool, NEW c \in Calls, NEW m \in Progress, Active(c, m), Closes(c, m)
    PROVE  Pool'
<1>. DEFINE last == workers[Len(workers)]
<1>1. PICK next \in {"count", "removeSome", "removeAll"}, n \in Nat : closeLast(c, m, next, n)
  BY DEF Closes
<1>2. /\ Len(workers) \in DOMAIN workers /\ last \in Worker
      /\ After(c, m, "closing", next) /\ call'[c].target = last
      /\ UNCHANGED <<workers, definitions, saves, upset>>
      /\ instance' = [instance EXCEPT ![last.worker].state = "closing"]
  BY <1>1, ClosesAfter DEF Closes
<1>3. last.worker \in Tracked /\ last.worker \in DOMAIN instance
  BY <1>2 DEF Pool, TrackedExist, Tracked
<1>4. /\ call'[c].at = "closing" /\ call'[c].next # "track" /\ call[c].at # "closing"
      /\ \A d \in Calls \ {c} : call'[d] = call[d]
  BY <1>2, ActiveProperties DEF After, Others
<1>5. \A i \in DOMAIN workers : workers[i].worker = last.worker => workers[i].number = last.number
  BY <1>2 DEF Pool, EntriesDiffer
<1>6. workers' = workers /\ DOMAIN instance' = DOMAIN instance
      /\ instance'[last.worker].state = "closing"
      /\ \A w \in DOMAIN instance \ {last.worker} : instance'[w] = instance[w]
  BY <1>2, <1>3 DEF TypeOK
<1>. HIDE DEF last
<1>7. EntriesDiffer' /\ TrackedExist'
  BY <1>6 DEF Pool, EntriesDiffer, TrackedExist, Tracked
<1>8. CreatedIsFresh'
  BY <1>3, <1>4, <1>6 DEF Pool, CreatedIsFresh, Running, Tracked
<1>9. ClosingIsTracked'
  <2>. SUFFICES ASSUME NEW d \in Calls, call'[d].at = "closing"
                PROVE  /\ call'[d].target.worker \in DOMAIN instance'
                       /\ instance'[call'[d].target.worker].state = "closing"
                       /\ \A i \in DOMAIN workers' :
                            workers'[i].worker = call'[d].target.worker =>
                              workers'[i].number = call'[d].target.number
    BY DEF ClosingIsTracked
  <2>1. CASE d = c
    BY <1>2, <1>3, <1>5, <1>6, <2>1
  <2>2. CASE d # c
    <3>1. call'[d] = call[d]
      BY <1>4, <2>2
    <3>. QED
      BY <1>6, <3>1 DEF Pool, ClosingIsTracked
  <2>. QED
    BY <2>1, <2>2
<1>10. ClosingIsAwaited'
  <2>. SUFFICES ASSUME NEW w \in DOMAIN instance', instance'[w].state = "closing"
                PROVE  \E d \in Calls : call'[d].at = "closing" /\ call'[d].target.worker = w
    BY DEF ClosingIsAwaited, WaitingFor
  <2>1. CASE w = last.worker
    BY <1>2, <1>4, <2>1
  <2>2. CASE w # last.worker
    <3>1. w \in DOMAIN instance /\ instance[w].state = "closing"
      BY <1>6, <2>2
    <3>2. PICK d \in Calls : call[d].at = "closing" /\ call[d].target.worker = w
      BY <3>1 DEF Pool, ClosingIsAwaited, WaitingFor
    <3>. QED
      BY <1>4, <3>2
  <2>. QED
    BY <2>1, <2>2
<1>. QED
  BY <1>7, <1>8, <1>9, <1>10 DEF Pool

LEMMA PoolAdds ==
    ASSUME TypeOK, Shape, Pool, NEW c \in Calls, NEW m \in Progress, Active(c, m), Adds(c, m)
    PROVE  Pool'
<1>. DEFINE new == NewInstance
<1>1. PICK n \in Nat : addWorkerForQueue(c, m, n)
  BY DEF Adds
<1>2. /\ After(c, m, "ready", "track") /\ call'[c].target.worker = new
      /\ UNCHANGED <<workers, definitions, saves, upset>>
      /\ DOMAIN instance' = DOMAIN instance \cup {new}
      /\ instance'[new].state = "running"
      /\ \A w \in DOMAIN instance : instance'[w] = instance[w]
      /\ new \notin DOMAIN instance
  <2>1. /\ call'[c].target = [number |-> Len(workers) + 1, worker |-> new]
        /\ instance'[new] = [state |-> "running", concurrency |-> definition.concurrency]
    BY <1>1, AddsAfter
  <2>2. call'[c].target.worker = new /\ instance'[new].state = "running"
    <3>. HIDE DEF new
    <3>. QED
      BY <2>1
  <2>. QED
    BY <1>1, <2>2, AddsAfter
<1>. HIDE DEF new
<1>3. /\ call'[c].at = "ready" /\ call[c].at # "closing"
      /\ \A d \in Calls \ {c} : call'[d] = call[d]
  BY <1>2, ActiveProperties DEF After, Others
<1>4. new \notin Tracked /\ workers' = workers
  BY <1>2 DEF Pool, TrackedExist
<1>5. EntriesDiffer' /\ TrackedExist'
  BY <1>2, <1>4 DEF Pool, EntriesDiffer, TrackedExist, Tracked
<1>6. CreatedIsFresh'
  <2>1. \A d \in Calls \ {c} : call'[d].next = "track" =>
          call'[d].target.worker \in Running \ Tracked /\ call'[d].target.worker # new
    BY <1>2, <1>3 DEF Pool, CreatedIsFresh, Running
  <2>2. Tracked' = Tracked /\ Running \subseteq Running' /\ new \in Running'
    BY <1>2, <1>4 DEF Tracked, Running
  <2>3. \A d, e \in Calls \ {c} : call'[d].next = "track" /\ call'[e].next = "track" /\ d # e =>
          call'[d].target.worker # call'[e].target.worker
    BY <1>3 DEF Pool, CreatedIsFresh
  <2>. QED
    BY <1>2, <1>4, <2>1, <2>2, <2>3 DEF CreatedIsFresh
<1>7. ClosingIsTracked'
  BY <1>2, <1>3, <1>4 DEF Pool, ClosingIsTracked
<1>8. ClosingIsAwaited'
  <2>. SUFFICES ASSUME NEW w \in DOMAIN instance', instance'[w].state = "closing"
                PROVE  \E d \in Calls : call'[d].at = "closing" /\ call'[d].target.worker = w
    BY DEF ClosingIsAwaited, WaitingFor
  <2>1. w \in DOMAIN instance /\ instance[w].state = "closing"
    BY <1>2
  <2>2. PICK d \in Calls : call[d].at = "closing" /\ call[d].target.worker = w
    BY <2>1 DEF Pool, ClosingIsAwaited, WaitingFor
  <2>. QED
    BY <1>3, <2>2
<1>. QED
  BY <1>5, <1>6, <1>7, <1>8 DEF Pool

LEMMA PoolTracks ==
    ASSUME TypeOK, Shape, Pool, NEW c \in Calls, NEW m \in Progress, Active(c, m), Tracks(c, m)
    PROVE  Pool'
<1>. DEFINE number == m.target.number
            worker == m.target.worker
<1>1. m = call[c] /\ m.next = "track" /\ m.target \in Worker /\ call[c].at # "closing"
  BY ActiveProperties DEF Tracks
<1>2. number \in Nat \ {0} /\ worker \in Nat \ {0}
  BY <1>1 DEF Worker
<1>3. worker \in Running \ Tracked
  BY <1>1 DEF Pool, CreatedIsFresh
<1>4. /\ call'[c].at = "ready" /\ call'[c].next # "track"
      /\ \A d \in Calls \ {c} : call'[d] = call[d]
  BY TracksAfter DEF Tracks, After, Others
<1>5. workers' = MapSet(workers, number, worker) /\ instance' = instance
  BY TracksAfter DEF Tracks
<1>6. workers \in Seq(Worker) /\ Distinct(workers) /\ DistinctWorkers(workers)
  BY DEF TypeOK, Distinct, DistinctWorkers, Pool, EntriesDiffer
<1>7. \A i \in DOMAIN workers : workers[i].worker # worker
  BY <1>3 DEF Tracked
<1>8. /\ DistinctWorkers(workers')
      /\ \A i \in DOMAIN workers' :
           \/ workers'[i].worker = worker
           \/ i \in DOMAIN workers /\ workers'[i] = workers[i]
  <2>. HIDE DEF number, worker
  <2>. DEFINE map == MapSet(workers, number, worker)
  <2>1. /\ \A i \in DOMAIN map :
             \/ map[i] = [number |-> number, worker |-> worker]
             \/ i \in DOMAIN workers /\ map[i] = workers[i] /\ workers[i].number # number
        /\ DistinctWorkers(workers) /\ (\A i \in DOMAIN workers : workers[i].worker # worker) =>
             DistinctWorkers(map)
    BY <1>2, <1>6, MapSetProperties
  <2>2. workers' = map
    BY <1>5
  <2>. HIDE DEF map
  <2>3. DistinctWorkers(workers')
    BY <1>6, <1>7, <2>1, <2>2
  <2>. QED
    BY <2>1, <2>2, <2>3
<1>9. \A d \in Calls \ {c} : call[d].next = "track" => call[d].target.worker # worker
  BY <1>1 DEF Pool, CreatedIsFresh
<1>. HIDE DEF number, worker
<1>10. EntriesDiffer'
  BY <1>8 DEF EntriesDiffer, DistinctWorkers
<1>11. TrackedExist'
  BY <1>3, <1>5, <1>8 DEF Pool, TrackedExist, Tracked, Running
<1>12. CreatedIsFresh'
  <2>1. Running' = Running
    BY <1>5 DEF Running
  <2>2. Tracked' \subseteq Tracked \cup {worker}
    BY <1>8 DEF Tracked
  <2>. QED
    BY <1>4, <1>9, <2>1, <2>2 DEF Pool, CreatedIsFresh
<1>13. ClosingIsTracked'
  <2>. SUFFICES ASSUME NEW d \in Calls, call'[d].at = "closing"
                PROVE  /\ call'[d].target.worker \in DOMAIN instance'
                       /\ instance'[call'[d].target.worker].state = "closing"
                       /\ \A i \in DOMAIN workers' :
                            workers'[i].worker = call'[d].target.worker =>
                              workers'[i].number = call'[d].target.number
    BY DEF ClosingIsTracked
  <2>1. d # c /\ call'[d] = call[d]
    BY <1>4
  <2>2. call[d].target.worker # worker
    BY <1>3, <2>1 DEF Pool, ClosingIsTracked, Running
  <2>. QED
    BY <1>5, <1>8, <2>1, <2>2 DEF Pool, ClosingIsTracked
<1>14. ClosingIsAwaited'
  BY <1>1, <1>4, <1>5 DEF Pool, ClosingIsAwaited, WaitingFor
<1>. QED
  BY <1>10, <1>11, <1>12, <1>13, <1>14 DEF Pool

LEMMA PoolKept ==
    ASSUME TypeOK, Shape, Pool, DefinitionsTyped',
           NEW c \in Calls, NEW m \in Progress, Active(c, m), Kind(c, m)
    PROVE  Pool'
<1>1. CASE ~(Closes(c, m) \/ Adds(c, m) \/ Tracks(c, m))
  <2>1. call'[c].at # "closing" /\ call'[c].next # "track" /\ Others(c) /\ UNCHANGED pool
    BY <1>1, QuietAfter
  <2>2. call[c].at # "closing"
    BY ActiveProperties
  <2>. QED
    BY <2>1, <2>2, PoolQuiet DEF Others
<1>. QED
  BY <1>1, PoolCloses, PoolAdds, PoolTracks

LEMMA PoolOutside ==
    ASSUME TypeOK, Shape, Pool, NEW c \in Calls, Outside(c)
    PROVE  Pool'
<1>1. UNCHANGED pool /\ call[c].at \notin {"idle", "closing", "ready"}
  BY OutsideProperties
<1>2. call[c] \in Progress /\ call[c].next # "track"
  BY <1>1 DEF TypeOK, Shape, ShapeOf
<1>3. /\ call'[c].at # "closing" /\ call'[c].next # "track"
      /\ \A d \in Calls \ {c} : call'[d] = call[d]
  <2>1. CASE call' = [call EXCEPT ![c] = Idle]
    <3>1. call'[c] = Idle /\ Others(c)
      BY <2>1, IdleAfter
    <3>2. Idle.at # "closing" /\ Idle.next # "track"
      BY DEF Idle
    <3>. QED
      BY <3>1, <3>2 DEF Others
  <2>2. CASE call' = [call EXCEPT ![c] = [call[c] EXCEPT !.at = "ready", !.content = None]]
    BY <1>2, <2>2 DEF TypeOK, Progress
  <2>. QED
    BY <2>1, <2>2, OutsideProperties
<1>. QED
  BY <1>1, <1>3, PoolQuiet

LEMMA PoolClosed ==
    ASSUME TypeOK, Shape, Pool, NEW w \in DOMAIN instance, workerClosed(w)
    PROVE  Pool'
<1>1. PICK c \in WaitingFor(w) : workers' = MapDelete(workers, call[c].target.number)
  BY DEF workerClosed
<1>2. /\ instance[w].state = "closing"
      /\ DOMAIN instance' = DOMAIN instance \ {w}
      /\ \A v \in DOMAIN instance \ {w} : instance'[v] = instance[v]
  BY DEF workerClosed
<1>3. /\ \A d \in Calls \ WaitingFor(w) : call'[d] = call[d]
      /\ \A d \in WaitingFor(w) : call'[d].at = "ready" /\ call'[d].next # "track"
  BY WokenCalls DEF workerClosed, Woken
<1>4. workers \in Seq(Worker) /\ Distinct(workers) /\ DistinctWorkers(workers)
  BY DEF TypeOK, Distinct, DistinctWorkers, Pool, EntriesDiffer
<1>5. /\ DistinctWorkers(workers')
      /\ \A i \in DOMAIN workers' : \E j \in DOMAIN workers :
           workers'[i] = workers[j] /\ workers[j].number # call[c].target.number
  BY <1>1, <1>4, MapDeleteProperties
<1>6. c \in Calls /\ call[c].at = "closing" /\ call[c].target.worker = w
  BY DEF WaitingFor
<1>7. \A j \in DOMAIN workers : workers[j].worker = w => workers[j].number = call[c].target.number
  BY <1>6 DEF Pool, ClosingIsTracked
<1>8. \A i \in DOMAIN workers' : \E j \in DOMAIN workers :
        workers'[i] = workers[j] /\ workers[j].worker # w
  BY <1>5, <1>7
<1>9. EntriesDiffer'
  BY <1>5 DEF EntriesDiffer, DistinctWorkers
<1>10. Tracked' \subseteq Tracked \ {w}
  BY <1>8 DEF Tracked
<1>11. TrackedExist'
  BY <1>2, <1>10 DEF Pool, TrackedExist
<1>12. CreatedIsFresh'
  <2>1. Running \subseteq Running'
    BY <1>2 DEF Running
  <2>. QED
    BY <1>3, <1>10, <2>1 DEF Pool, CreatedIsFresh
<1>13. ClosingIsTracked'
  <2>. SUFFICES ASSUME NEW d \in Calls, call'[d].at = "closing"
                PROVE  /\ call'[d].target.worker \in DOMAIN instance'
                       /\ instance'[call'[d].target.worker].state = "closing"
                       /\ \A i \in DOMAIN workers' :
                            workers'[i].worker = call'[d].target.worker =>
                              workers'[i].number = call'[d].target.number
    BY DEF ClosingIsTracked
  <2>1. d \notin WaitingFor(w) /\ call'[d] = call[d]
    BY <1>3
  <2>2. call[d].target.worker # w
    BY <2>1 DEF WaitingFor
  <2>. QED
    BY <1>2, <1>8, <2>1, <2>2 DEF Pool, ClosingIsTracked
<1>14. ClosingIsAwaited'
  <2>. SUFFICES ASSUME NEW v \in DOMAIN instance', instance'[v].state = "closing"
                PROVE  \E d \in Calls : call'[d].at = "closing" /\ call'[d].target.worker = v
    BY DEF ClosingIsAwaited, WaitingFor
  <2>1. v \in DOMAIN instance /\ v # w /\ instance[v].state = "closing"
    BY <1>2
  <2>2. PICK d \in Calls : call[d].at = "closing" /\ call[d].target.worker = v
    BY <2>1 DEF Pool, ClosingIsAwaited, WaitingFor
  <2>3. d \notin WaitingFor(w)
    BY <2>1, <2>2 DEF WaitingFor
  <2>. QED
    BY <1>3, <2>2, <2>3
<1>. QED
  BY <1>9, <1>11, <1>12, <1>13, <1>14 DEF Pool

LEMMA PoolStarted == JustStarted => Pool
<1>. SUFFICES ASSUME NEW defs \in Seq(Definition), StartedFrom(defs)
              PROVE  Pool
  BY DEF JustStarted
<1>. USE DEF StartedFrom
<1>1. \A c \in Calls : call[c].at = "idle" /\ call[c].next = "none"
  BY DEF Idle
<1>2. EntriesDiffer /\ TrackedExist
  BY InitialWorkersProperties DEF EntriesDiffer, TrackedExist, Tracked, DistinctWorkers
<1>3. \A w \in DOMAIN instance : instance[w].state = "running"
  BY InitialInstancesProperties
<1>. QED
  BY <1>1, <1>2, <1>3 DEF Pool, CreatedIsFresh, ClosingIsTracked, ClosingIsAwaited

\* With these, nothing in the map has closed.
LEMMA NoDead ==
    ASSUME TypeOK, Pool
    PROVE  MapHasNoDead
<1>. SUFFICES ASSUME NEW w \in Tracked
              PROVE  /\ w \in DOMAIN instance
                     /\ \/ instance[w].state = "running"
                        \/ \E c \in Calls : call[c].at = "closing" /\ call[c].target.worker = w
  BY DEF MapHasNoDead
<1>1. w \in DOMAIN instance /\ instance[w].state \in {"running", "closing"}
  BY DEF Pool, TrackedExist, TypeOK
<1>. QED
  BY <1>1 DEF Pool, ClosingIsAwaited, WaitingFor

-----------------------------------------------------------------------------
(***************************************************************************)
(* Each way a step of a call can go that upsets nothing, with all that the *)
(* saves and the calls are about.                                          *)
(***************************************************************************)
Way(c, m) ==
    \/ /\ UNCHANGED <<definitions, redis, file>> /\ m.next \notin {"create", "countFile", "announce"}
       /\ \E io \in {"closing", "ready"}, next \in {"track", "more", "count", "removeSome", "removeAll"} :
            After(c, m, io, next)
    \/ /\ m.next \notin {"create", "countFile"}
       /\ redis' = config' /\ file' = file
       /\ \E next \in {"countFile", "end", "ensure"} :
            After(c, m, "redis", next) /\ (next # "countFile" => UNCHANGED config)
    \/ /\ UNCHANGED <<definitions, redis, file>>
       /\ m.next \notin {"create", "countFile", "announce"} /\ (m.op # "updateQueue" \/ m.next = "end")
       /\ call'[c] = Idle /\ Others(c)
    \/ /\ UNCHANGED <<definitions, redis, file>> /\ m.next \notin {"create", "countFile", "announce"}
       /\ \/ m.op = "updateQueue" /\ After(c, m, "queueClosing", "recreate")
          \/ m.op = "deleteQueue" /\ After(c, m, "queueClosing", "dropQueue")
          \/ m.op = "updateQueue" /\ After(c, m, "redis", "lastSave")
    \/ /\ UNCHANGED <<redis, file>>
       /\ m.op = "updateQueue" /\ After(c, m, "ready", "create")
    \/ /\ redis' = redis /\ file' = Torn /\ call'[c].content = config'
       /\ \/ After(c, m, "file", "announce")
          \/ m.op = "updateQueue" /\ After(c, m, "file", "reconcile")
          \/ UNCHANGED config /\ m.next = "countFile" /\ After(c, m, "file", "published")

LEMMA Ways ==
    ASSUME TypeOK, Shape, DefinitionsTyped', NEW c \in Calls, NEW m \in Progress,
           Active(c, m), Kind(c, m), ~upset'
    PROVE  ~upset /\ Way(c, m)
<1>1. CASE Closes(c, m)
  <2>1. PICK next \in {"count", "removeSome", "removeAll"}, n \in Nat :
          /\ closeLast(c, m, next, n) /\ m.next \notin {"create", "countFile", "announce"}
    BY <1>1 DEF Closes, Adjusts
  <2>2. workers # << >>
    BY <1>1 DEF Closes
  <2>3. After(c, m, "closing", next) /\ UNCHANGED <<definitions, saves, upset>>
    BY <2>1, <2>2, ClosesAfter
  <2>. QED
    BY <2>1, <2>3 DEF Way, saves
<1>2. CASE Adds(c, m)
  <2>1. PICK n \in Nat :
          /\ addWorkerForQueue(c, m, n) /\ m.next \notin {"create", "countFile", "announce"}
    BY <1>2 DEF Adds, Adjusts
  <2>2. After(c, m, "ready", "track") /\ UNCHANGED <<definitions, saves, upset>>
    BY <2>1, AddsAfter
  <2>. QED
    BY <2>1, <2>2 DEF Way, saves
<1>3. CASE Tracks(c, m)
  <2>1. PICK next \in {"count", "more"} : After(c, m, "ready", next)
    BY <1>3, TracksAfter DEF Tracks
  <2>2. m.next = "track" /\ UNCHANGED <<definitions, saves, upset>>
    BY <1>3, TracksAfter DEF Tracks
  <2>. QED
    BY <2>1, <2>2 DEF Way, saves
<1>4. CASE Counts(c, m)
  <2>1. saveConfig(c, m, "countFile") /\ m.next \notin {"create", "countFile"}
    BY <1>4 DEF Counts, setQueueWorkers, Adjusts
  <2>2. file' = file /\ redis' = config' /\ UNCHANGED upset /\ After(c, m, "redis", "countFile")
    BY <2>1, SaveConfigAfter
  <2>. QED
    BY <2>1, <2>2 DEF Way
<1>5. CASE SavesLast(c, m)
  <2>1. saveConfig(c, m, "end") /\ m.next \notin {"create", "countFile"} /\ UNCHANGED config
    BY <1>5 DEF SavesLast, lastSave, Adjusts, definitions
  <2>2. file' = file /\ redis' = config' /\ UNCHANGED upset /\ After(c, m, "redis", "end")
    BY <2>1, SaveConfigAfter
  <2>. QED
    BY <2>1, <2>2 DEF Way
<1>6. CASE Ends(c, m)
  <2>1. /\ m.next \notin {"create", "countFile", "announce"} /\ (m.op # "updateQueue" \/ m.next = "end")
        /\ call' = [call EXCEPT ![c] = Idle] /\ UNCHANGED <<definitions, saves, upset>>
    BY <1>6 DEF Ends, Adjusts, End
  <2>2. call'[c] = Idle /\ Others(c)
    BY <2>1, IdleAfter
  <2>. QED
    BY <2>1, <2>2 DEF Way, saves
<1>7. CASE Throws(c, m)
  BY <1>7 DEF Throws, Throw
<1>8. CASE ClosesQueue(c, m)
  <2>1. m.next \notin {"create", "countFile", "announce"} /\ UNCHANGED <<definitions, saves, upset>>
    BY <1>8 DEF ClosesQueue
  <2>2. \/ m.op = "updateQueue" /\ After(c, m, "queueClosing", "recreate")
        \/ m.op = "deleteQueue" /\ After(c, m, "queueClosing", "dropQueue")
    BY <1>8, AwaitAfter DEF ClosesQueue
  <2>. QED
    BY <2>1, <2>2 DEF Way, saves
<1>9. CASE Drops(c, m)
  <2>1. CASE /\ m.op = "updateQueue" /\ Await(c, m, "ready", "create")
             /\ UNCHANGED <<saves, upset>>
    BY <2>1, AwaitAfter DEF Way, saves
  <2>2. CASE saveConfigToFile(c, m, "announce")
    BY <2>2, SaveFileAfter DEF Way
  <2>. QED
    BY <1>9, <2>1, <2>2 DEF Drops, dropQueue
<1>10. CASE Creates(c, m)
  <2>1. CASE m.op = "updateQueue" /\ saveConfigToFile(c, m, "reconcile")
    BY <2>1, SaveFileAfter DEF Way
  <2>2. CASE saveConfigToFile(c, m, "announce")
    BY <2>2, SaveFileAfter DEF Way
  <2>. QED
    BY <1>10, <2>1, <2>2 DEF Creates
<1>11. CASE Writes(c, m)
  <2>1. saveConfigToFile(c, m, "published") /\ UNCHANGED config /\ m.next = "countFile"
    BY <1>11 DEF Writes, definitions
  <2>. QED
    BY <2>1, SaveFileAfter DEF Way
<1>12. CASE Publishes(c, m)
  <2>1. /\ m.op = "updateQueue" /\ m.next = "published" /\ Await(c, m, "redis", "lastSave")
        /\ UNCHANGED <<definitions, saves, upset>>
    BY <1>12 DEF Publishes
  <2>2. After(c, m, "redis", "lastSave")
    BY <2>1, AwaitAfter
  <2>. QED
    BY <2>1, <2>2 DEF Way, saves
<1>13. CASE Announces(c, m)
  <2>1. PICK next \in {"ensure", "end"} :
          saveConfig(c, m, next) /\ UNCHANGED config /\ m.next = "announce"
    BY <1>13 DEF Announces, definitions
  <2>2. file' = file /\ redis' = config' /\ UNCHANGED upset /\ After(c, m, "redis", next)
    BY <2>1, SaveConfigAfter
  <2>. QED
    BY <2>1, <2>2 DEF Way
<1>. QED
  BY <1>1, <1>2, <1>3, <1>4, <1>5, <1>6, <1>7, <1>8, <1>9, <1>10, <1>11, <1>12, <1>13 DEF Kind

-----------------------------------------------------------------------------
(***************************************************************************)
(* Redis and the file follow the configuration.                            *)
(***************************************************************************)

\* Neither changes, and who was to save still is.
LEMMA RedisQuiet ==
    ASSUME RedisFollows, UNCHANGED <<redis, config>>, upset => upset',
           \A c \in Calls : WillSave(call[c]) => WillSave(call'[c])
    PROVE  RedisFollows'
<1>1. ASSUME NEW c \in Calls PROVE WillSave(call[c])' <=> WillSave(call'[c])
  BY DEF WillSave
<1>. QED
  BY <1>1 DEF RedisFollows

LEMMA RedisKept ==
    ASSUME TypeOK, Shape, RedisFollows, DefinitionsTyped',
           NEW c \in Calls, NEW m \in Progress, Active(c, m), Kind(c, m)
    PROVE  RedisFollows'
<1>. SUFFICES ASSUME ~upset', redis' # None, redis' # config'
              PROVE  \E d \in Calls : WillSave(call'[d])
  BY DEF RedisFollows, WillSave
<1>1. ~upset /\ Way(c, m)
  BY Ways
<1>2. (m.next = "none" /\ call[c] = Idle) \/ m = call[c]
  BY ActiveProperties
<1>3. ~WillSave(Idle)
  BY DEF WillSave, Idle
<1>4. CASE WillSave(call'[c])
  BY <1>4
<1>5. CASE ~WillSave(call'[c])
  <2>1. UNCHANGED <<redis, config>> /\ ~WillSave(call[c]) /\ Others(c)
    BY <1>1, <1>2, <1>3, <1>5 DEF Way, After, WillSave, definitions
  <2>2. PICK d \in Calls : WillSave(call[d])
    BY <1>1, <2>1 DEF RedisFollows
  <2>. QED
    BY <2>1, <2>2 DEF Others
<1>. QED
  BY <1>4, <1>5

LEMMA RedisOutside ==
    ASSUME TypeOK, Shape, RedisFollows, NEW c \in Calls, Outside(c)
    PROVE  RedisFollows'
<1>1. CASE upset'
  BY <1>1 DEF RedisFollows
<1>2. CASE ~upset'
  <2>1. /\ UNCHANGED <<definitions, redis, upset>>
        /\ call' = [call EXCEPT ![c] = [call[c] EXCEPT !.at = "ready", !.content = None]]
    BY <1>2, OutsideProperties
  <2>2. \A d \in Calls : call'[d].op = call[d].op /\ call'[d].next = call[d].next
    BY <2>1 DEF TypeOK, Progress
  <2>. QED
    BY <2>1, <2>2, RedisQuiet DEF WillSave, definitions
<1>. QED
  BY <1>1, <1>2

LEMMA RedisClosed ==
    ASSUME TypeOK, Shape, RedisFollows, NEW w \in DOMAIN instance, workerClosed(w)
    PROVE  RedisFollows'
<1>1. UNCHANGED <<redis, config, upset>>
  BY DEF workerClosed, definitions, saves
<1>2. \A d \in Calls : call'[d].op = call[d].op /\ call'[d].next = call[d].next
  BY WokenCalls DEF workerClosed, Woken
<1>. QED
  BY <1>1, <1>2, RedisQuiet DEF WillSave

LEMMA RedisRestart ==
    ASSUME TypeOK, Shape, RedisFollows, restart
    PROVE  RedisFollows'
<1>. SUFFICES ASSUME ~upset', redis' # None PROVE redis' = config'
  BY DEF RedisFollows
<1>1. ~upset /\ Quiescent /\ config' = config /\ redis' = redis
  BY DEF restart
<1>2. \A c \in Calls : call[c] = Idle
  BY <1>1 DEF Quiescent, UnderWay, Shape, ShapeOf
<1>. QED
  BY <1>1, <1>2 DEF RedisFollows, WillSave, Idle

\* Who takes a step while calls have not overlapped is alone.
LEMMA Solo ==
    ASSUME TypeOK, Shape, Alone, NEW c \in Calls, NEW m \in Progress, Active(c, m), ~overlapped'
    PROVE  /\ ~overlapped /\ (doubled' <=> doubled)
           /\ \A d \in Calls \ {c} : call[d] = Idle
<1>1. CASE call[c].at = "ready" /\ UNCHANGED history
  <2>1. ~overlapped /\ doubled' = doubled /\ c \in UnderWay
    BY <1>1 DEF history, UnderWay
  <2>2. \A d \in Calls \ {c} : d \notin UnderWay
    BY <2>1 DEF Alone
  <2>. QED
    BY <2>1, <2>2 DEF UnderWay, Shape, ShapeOf
<1>2. CASE Start(c)
  <2>1. ~overlapped /\ UnderWay = {} /\ doubled' = doubled
    BY <1>2 DEF Start
  <2>. QED
    BY <2>1 DEF UnderWay, Shape, ShapeOf
<1>. QED
  BY <1>1, <1>2 DEF Active

\* What is known when a call is alone.
LEMMA AloneKept ==
    ASSUME TypeOK, Shape, Alone, DefinitionsTyped',
           NEW c \in Calls, NEW m \in Progress, Active(c, m), Kind(c, m)
    PROVE  Alone'
<1>. SUFFICES ASSUME ~overlapped' PROVE \A d \in Calls \ {c} : call'[d].at = "idle"
  BY DEF Alone, UnderWay
<1>1. \A d \in Calls \ {c} : call[d] = Idle
  BY Solo
<1>2. PICK r \in Progress : call' = [call EXCEPT ![c] = r]
  BY NextRecord
<1>. QED
  BY <1>1, <1>2 DEF TypeOK, Idle

LEMMA FileKept ==
    ASSUME TypeOK, Shape, Alone, FileFollows, DefinitionsTyped',
           NEW c \in Calls, NEW m \in Progress, Active(c, m), Kind(c, m)
    PROVE  FileFollows'
<1>. SUFFICES ASSUME ~upset', ~overlapped'
              PROVE  (Quiescent => file = config)' /\ \A d \in UnderWay' : FileKnown(call[d])'
  BY DEF FileFollows
<1>1. ~overlapped /\ \A d \in Calls \ {c} : call[d] = Idle
  BY Solo
<1>2. ~upset /\ Way(c, m)
  BY Ways
<1>3. m.next \notin {"create", "countFile"} => file = config
  <2>1. CASE m.next = "none" /\ call[c] = Idle
    <3>1. Quiescent
      BY <1>1, <2>1 DEF Quiescent, UnderWay, Idle
    <3>. QED
      BY <1>1, <1>2, <3>1 DEF FileFollows
  <2>2. CASE m = call[c] /\ m.at = "ready"
    <3>1. c \in UnderWay
      BY <2>2 DEF UnderWay
    <3>. QED
      BY <1>1, <1>2, <2>2, <3>1 DEF FileFollows, FileKnown
  <2>. QED
    BY <2>1, <2>2, ActiveProperties
<1>4. Others(c)
  BY <1>2 DEF Way, After
<1>5. \A d \in Calls \ {c} : call'[d].at = "idle"
  BY <1>1, <1>4 DEF Others, Idle
<1>6. CASE call'[c] = Idle
  <2>1. UNCHANGED <<file, config>> /\ m.next \notin {"create", "countFile"}
    BY <1>2, <1>6 DEF Way, After, Idle, definitions
  <2>2. UnderWay' = {}
    BY <1>5, <1>6 DEF UnderWay, Idle
  <2>. QED
    BY <1>3, <2>1, <2>2
<1>7. CASE call'[c] # Idle
  <2>1. /\ call'[c].at # "idle"
        /\ call'[c].at = "file" => file' = Torn /\ call'[c].content = config'
        /\ call'[c].at # "file" /\ call'[c].next \notin {"create", "countFile"} =>
             UNCHANGED <<file, config>> /\ m.next \notin {"create", "countFile"}
    BY <1>2, <1>7 DEF Way, After, definitions
  <2>2. UnderWay' = {c}
    BY <1>5, <2>1 DEF UnderWay
  <2>3. FileKnown(call[c])'
    BY <1>3, <2>1 DEF FileKnown
  <2>4. ~Quiescent'
    BY <2>2 DEF Quiescent
  <2>. QED
    BY <2>2, <2>3, <2>4
<1>. QED
  BY <1>6, <1>7

LEMMA FileOutside ==
    ASSUME TypeOK, Shape, Alone, FileFollows, NEW c \in Calls, Outside(c)
    PROVE  Alone' /\ FileFollows'
<1>1. /\ UNCHANGED <<definitions, history>> /\ call[c].at # "idle" /\ c \in UnderWay
  BY OutsideProperties DEF UnderWay
<1>2. PICK r \in Progress : call' = [call EXCEPT ![c] = r]
  <2>1. Idle \in Progress
    BY DEF Progress, Idle, Waits, Steps
  <2>2. call[c] \in Progress
    BY DEF TypeOK
  <2>3. [call[c] EXCEPT !.at = "ready", !.content = None] \in Progress
    BY <2>2 DEF Progress, Waits
  <2>. QED
    BY <2>1, <2>3, OutsideProperties
<1>3. UnderWay' \subseteq UnderWay
  BY <1>1, <1>2 DEF UnderWay, TypeOK
<1>4. Alone'
  BY <1>1, <1>3 DEF Alone, history
<1>5. FileFollows'
  <2>. SUFFICES ASSUME ~upset', ~overlapped'
                PROVE  (Quiescent => file = config)' /\ \A d \in UnderWay' : FileKnown(call[d])'
    BY DEF FileFollows
  <2>1. /\ call' = [call EXCEPT ![c] = [call[c] EXCEPT !.at = "ready", !.content = None]]
        /\ UNCHANGED upset
        /\ \/ file' = file /\ call[c].at # "file"
           \/ call[c].at = "file" /\ file' = call[c].content
           \/ call[c].at = "file" /\ file \notin {Torn, call[c].content} /\ file' = Torn
    BY OutsideProperties
  <2>2. ~overlapped /\ UnderWay = {c} /\ config' = config
    BY <1>1 DEF Alone, history, definitions
  <2>3. FileKnown(call[c])
    BY <2>1, <2>2 DEF FileFollows
  <2>4. call'[c].at = "ready" /\ call'[c].next = call[c].next
    BY <2>1 DEF TypeOK, Progress
  <2>5. FileKnown(call[c])'
    BY <2>1, <2>2, <2>3, <2>4 DEF FileKnown
  <2>6. UnderWay' = {c}
    BY <1>3, <2>2, <2>4 DEF UnderWay
  <2>. QED
    BY <2>5, <2>6 DEF Quiescent
<1>. QED
  BY <1>4, <1>5

LEMMA FileClosed ==
    ASSUME TypeOK, Shape, Alone, FileFollows, NEW w \in DOMAIN instance, workerClosed(w)
    PROVE  Alone' /\ FileFollows'
<1>1. UNCHANGED <<file, config, upset, overlapped>>
  BY DEF workerClosed, definitions, saves, history
<1>2. \A d \in Calls :
        /\ call'[d].next = call[d].next /\ call'[d].content = call[d].content
        /\ call'[d].at = "idle" <=> call[d].at = "idle"
        /\ call'[d].at = "file" <=> call[d].at = "file"
  <2>. SUFFICES ASSUME NEW d \in Calls
                PROVE  /\ call'[d].next = call[d].next /\ call'[d].content = call[d].content
                       /\ call'[d].at = "idle" <=> call[d].at = "idle"
                       /\ call'[d].at = "file" <=> call[d].at = "file"
    OBVIOUS
  <2>1. Woken(w)
    BY WokenCalls DEF workerClosed
  <2>2. CASE d \in WaitingFor(w)
    <3>1. /\ call[d].at = "closing" /\ call'[d].at = "ready"
          /\ \A f \in {"op", "next", "def", "changed", "content"} : call'[d][f] = call[d][f]
      BY <2>1, <2>2, Zenon DEF Woken
    <3>. QED
      BY <3>1
  <2>3. CASE d \notin WaitingFor(w)
    BY <2>1, <2>3 DEF Woken
  <2>. QED
    BY <2>2, <2>3
<1>3. UnderWay' = UnderWay
  BY <1>2 DEF UnderWay
<1>4. \A d \in Calls : FileKnown(call[d])' <=> FileKnown(call[d])
  BY <1>1, <1>2 DEF FileKnown
<1>. QED
  BY <1>1, <1>3, <1>4 DEF Alone, FileFollows, Quiescent, UnderWay

LEMMA FileRestart ==
    ASSUME TypeOK, Shape, Alone, FileFollows, restart
    PROVE  Alone' /\ FileFollows'
<1>1. UnderWay' = {}
  BY DEF restart, UnderWay, Idle
<1>2. ASSUME ~upset', ~overlapped' PROVE file' = config'
  <2>1. ~upset /\ ~overlapped /\ Quiescent /\ config' = config /\ file' = file
    BY <1>2 DEF restart
  <2>. QED
    BY <2>1 DEF FileFollows
<1>. QED
  BY <1>1, <1>2 DEF Alone, FileFollows

-----------------------------------------------------------------------------
(***************************************************************************)
(* While calls do not overlap, the entries are numbered by their places    *)
(* and every worker that runs is known.                                    *)
(***************************************************************************)

\* A call that is at a worker's tracking tracks it.
LEMMA TracksOnly ==
    ASSUME NEW c, NEW m, Kind(c, m), m.next = "track"
    PROVE  Tracks(c, m)
  BY DEF Kind, Closes, Adds, Counts, SavesLast, Ends, Throws, ClosesQueue, Drops, Creates, Writes,
     Publishes, Announces, Adjusts

LEMMA PlacesQuiet ==
    ASSUME Numbered, RunningKnown, UNCHANGED <<pool, overlapped, doubled>>,
           \A d \in Calls :
             /\ call'[d].at = "closing" =>
                  call[d].at = "closing" /\ call'[d].target = call[d].target
             /\ call'[d].next = "track" <=> call[d].next = "track"
             /\ call'[d].next = "track" => call'[d].target = call[d].target
    PROVE  Numbered' /\ RunningKnown'
<1>1. workers' = workers /\ instance' = instance
  BY DEF pool
<1>2. Numbered'
  BY <1>1 DEF Numbered
<1>3. Running' = Running /\ Tracked' = Tracked
  BY <1>1 DEF Running, Tracked
<1>4. OnTheWay \subseteq OnTheWay'
  BY DEF OnTheWay
<1>. QED
  BY <1>2, <1>3, <1>4 DEF RunningKnown

LEMMA PlacesKept ==
    ASSUME TypeOK, Shape, Pool, Alone, Numbered, RunningKnown, DefinitionsTyped',
           NEW c \in Calls, NEW m \in Progress, Active(c, m), Kind(c, m)
    PROVE  Numbered' /\ RunningKnown'
<1>. SUFFICES ASSUME ~overlapped' PROVE Numbered' /\ RunningKnown'
  BY DEF Numbered, RunningKnown
<1>1. /\ ~overlapped /\ (doubled' <=> doubled)
      /\ \A d \in Calls \ {c} : call[d].at = "idle" /\ call[d].next = "none"
  BY Solo DEF Idle
<1>2. /\ \A i \in DOMAIN workers : workers[i].number = i
      /\ \A d \in Calls : call[d].next = "track" => call[d].target.number = Len(workers) + 1
      /\ ~doubled => Running \subseteq Tracked \cup OnTheWay
  BY <1>1 DEF Numbered, RunningKnown
<1>3. call[c].next = "track" => m = call[c]
  BY ActiveProperties DEF Idle
<1>4. ASSUME call[c].next # "track" PROVE OnTheWay = {}
  BY <1>1, <1>4 DEF OnTheWay
<1>5. CASE ~(Closes(c, m) \/ Adds(c, m) \/ Tracks(c, m))
  <2>1. call'[c].at # "closing" /\ call'[c].next # "track" /\ Others(c) /\ UNCHANGED pool
    BY <1>5, QuietAfter
  <2>2. call[c].next # "track"
    BY <1>3, <1>5, TracksOnly
  <2>3. workers' = workers /\ instance' = instance
    BY <2>1 DEF pool
  <2>4. Numbered'
    BY <1>1, <1>2, <2>1, <2>3 DEF Numbered, Others
  <2>5. Running' = Running /\ Tracked' = Tracked
    BY <2>3 DEF Running, Tracked
  <2>. QED
    BY <1>1, <1>2, <1>4, <2>2, <2>4, <2>5 DEF RunningKnown
<1>6. CASE Closes(c, m)
  <2>1. PICK next \in {"count", "removeSome", "removeAll"}, n \in Nat :
          closeLast(c, m, next, n) /\ m.next # "track"
    BY <1>6 DEF Closes, Adjusts
  <2>2. workers # << >>
    BY <1>6 DEF Closes
  <2>3. /\ After(c, m, "closing", next) /\ call'[c].target = workers[Len(workers)]
        /\ workers' = workers
        /\ instance' = [instance EXCEPT ![workers[Len(workers)].worker].state = "closing"]
    BY <2>1, <2>2, ClosesAfter
  <2>4. Numbered'
    BY <1>1, <1>2, <2>2, <2>3 DEF Numbered, After, Others
  <2>5. Running' \subseteq Running /\ Tracked' = Tracked
    BY <2>3 DEF Running, Tracked, TypeOK
  <2>6. OnTheWay = {}
    BY <1>3, <1>4, <2>1
  <2>. QED
    BY <1>1, <1>2, <2>4, <2>5, <2>6 DEF RunningKnown
<1>7. CASE Adds(c, m)
  <2>1. PICK n \in Nat : addWorkerForQueue(c, m, n) /\ m.next # "track"
    BY <1>7 DEF Adds, Adjusts
  <2>2. /\ After(c, m, "ready", "track")
        /\ call'[c].target = [number |-> Len(workers) + 1, worker |-> NewInstance]
        /\ workers' = workers
        /\ DOMAIN instance' = DOMAIN instance \cup {NewInstance}
        /\ \A w \in DOMAIN instance : instance'[w] = instance[w]
    BY <2>1, AddsAfter
  <2>3. Numbered'
    BY <1>1, <1>2, <2>2 DEF Numbered, After, Others
  <2>4. Running' \subseteq Running \cup {NewInstance} /\ Tracked' = Tracked
    BY <2>2 DEF Running, Tracked
  <2>5. NewInstance \in OnTheWay'
    BY <2>2 DEF OnTheWay, After
  <2>6. OnTheWay = {}
    BY <1>3, <1>4, <2>1
  <2>. QED
    BY <1>1, <1>2, <2>3, <2>4, <2>5, <2>6 DEF RunningKnown
<1>8. CASE Tracks(c, m)
  <2>. DEFINE entry == [number |-> Len(workers) + 1, worker |-> m.target.worker]
  <2>1. m = call[c] /\ m.next = "track" /\ m.target \in Worker
    BY <1>8, ActiveProperties DEF Tracks
  <2>2. m.target.number = Len(workers) + 1
    BY <1>2, <2>1
  <2>3. /\ workers \in Seq(Worker) /\ Len(workers) \in Nat /\ DOMAIN workers = 1..Len(workers)
    BY LenProperties DEF TypeOK
  <2>4. ~ \E i \in DOMAIN workers : workers[i].number = Len(workers) + 1
    BY <1>2, <2>3
  <2>5. workers' = Append(workers, entry) /\ instance' = instance
    BY <1>8, <2>2, <2>4, TracksAfter DEF Tracks, MapSet
  <2>6. entry \in Worker
    BY <2>1, <2>3 DEF Worker
  <2>7. /\ Len(workers') = Len(workers) + 1 /\ workers' \in Seq(Worker)
        /\ \A i \in 1..Len(workers) : workers'[i] = workers[i]
        /\ workers'[Len(workers) + 1] = entry
    BY <2>3, <2>5, <2>6, AppendProperties
  <2>8. DOMAIN workers' = 1..(Len(workers) + 1)
    BY <2>7, LenProperties
  <2>9. \A i \in DOMAIN workers' : workers'[i].number = i
    <3>1. entry.number = Len(workers) + 1
      OBVIOUS
    <3>. HIDE DEF entry
    <3>. QED
      BY <1>2, <2>3, <2>7, <2>8, <3>1
  <2>10. PICK next \in {"count", "more"} : After(c, m, "ready", next)
    BY <1>8, TracksAfter DEF Tracks
  <2>11. Numbered'
    BY <1>1, <2>9, <2>10 DEF Numbered, After, Others
  <2>12. Running' = Running
    BY <2>5 DEF Running
  <2>13. Tracked \cup {m.target.worker} \subseteq Tracked'
    <3>1. entry.worker = m.target.worker /\ Len(workers) + 1 \in DOMAIN workers'
      BY <2>3, <2>8
    <3>. HIDE DEF entry
    <3>2. \A i \in DOMAIN workers : i \in DOMAIN workers' /\ workers'[i] = workers[i]
      BY <2>3, <2>7, <2>8
    <3>. QED
      BY <2>7, <3>1, <3>2 DEF Tracked
  <2>14. OnTheWay \subseteq {m.target.worker}
    BY <1>1, <2>1 DEF OnTheWay
  <2>. QED
    BY <1>1, <1>2, <2>11, <2>12, <2>13, <2>14 DEF RunningKnown
<1>. QED
  BY <1>5, <1>6, <1>7, <1>8

LEMMA PlacesOutside ==
    ASSUME TypeOK, Shape, Numbered, RunningKnown, NEW c \in Calls, Outside(c)
    PROVE  Numbered' /\ RunningKnown'
<1>1. UNCHANGED <<pool, history>> /\ call[c].at \notin {"idle", "closing", "ready"}
  BY OutsideProperties
<1>2. call[c] \in Progress /\ call[c].next # "track"
  BY <1>1 DEF TypeOK, Shape, ShapeOf
<1>3. /\ call'[c].at # "closing" /\ call'[c].next # "track"
      /\ \A d \in Calls \ {c} : call'[d] = call[d]
  <2>1. CASE call' = [call EXCEPT ![c] = Idle]
    <3>1. call'[c] = Idle /\ Others(c)
      BY <2>1, IdleAfter
    <3>2. Idle.at # "closing" /\ Idle.next # "track"
      BY DEF Idle
    <3>. QED
      BY <3>1, <3>2 DEF Others
  <2>2. CASE call' = [call EXCEPT ![c] = [call[c] EXCEPT !.at = "ready", !.content = None]]
    BY <1>2, <2>2 DEF TypeOK, Progress
  <2>. QED
    BY <2>1, <2>2, OutsideProperties
<1>. QED
  BY <1>1, <1>2, <1>3, PlacesQuiet DEF history

LEMMA PlacesClosed ==
    ASSUME TypeOK, Shape, Pool, Alone, Numbered, RunningKnown,
           NEW w \in DOMAIN instance, workerClosed(w)
    PROVE  Numbered' /\ RunningKnown'
<1>1. UNCHANGED <<overlapped, doubled>>
  BY DEF workerClosed, history
<1>. SUFFICES ASSUME ~overlapped PROVE Numbered' /\ RunningKnown'
  BY <1>1 DEF Numbered, RunningKnown
<1>2. PICK c \in WaitingFor(w) : workers' = MapDelete(workers, call[c].target.number)
  BY DEF workerClosed
<1>3. c \in Calls /\ call[c].at = "closing" /\ call[c].target.worker = w
  BY DEF WaitingFor
<1>4. \A d \in Calls \ {c} : call[d].at = "idle" /\ call[d].next = "none" /\ d \notin WaitingFor(w)
  BY <1>3 DEF Alone, UnderWay, Shape, ShapeOf, Idle, WaitingFor
<1>5. /\ \A i \in DOMAIN workers : workers[i].number = i
      /\ workers # << >> /\ call[c].target = workers[Len(workers)]
  BY <1>3 DEF Numbered
<1>6. /\ workers \in Seq(Worker) /\ DOMAIN workers = 1..Len(workers) /\ Len(workers) \in Nat \ {0}
  BY <1>5, LenProperties, EmptySeq DEF TypeOK
<1>7. workers' = MapDelete(workers, Len(workers)) /\ workers[Len(workers)].worker = w
  BY <1>2, <1>3, <1>5, <1>6
<1>8. /\ Len(workers') = Len(workers) - 1
      /\ \A i \in 1..(Len(workers) - 1) : workers'[i] = workers[i]
  BY <1>5, <1>6, <1>7, MapDeleteLast
<1>9. DOMAIN workers' = 1..(Len(workers) - 1)
  <2>1. Distinct(workers)
    BY DEF TypeOK, Distinct
  <2>2. workers' \in Seq(Worker)
    BY <1>6, <1>7, <2>1, MapDeleteProperties
  <2>. QED
    BY <1>8, <2>2, LenProperties
<1>10. /\ call'[c].at = "ready" /\ call'[c].next # "track"
       /\ \A d \in Calls \ {c} : call'[d] = call[d]
  BY <1>4, WokenCalls DEF workerClosed, Woken
<1>11. Numbered'
  <2>1. \A i \in DOMAIN workers' : workers'[i].number = i
    BY <1>5, <1>6, <1>8, <1>9
  <2>. QED
    BY <1>4, <1>10, <2>1 DEF Numbered
<1>12. RunningKnown'
  <2>. SUFFICES ASSUME ~doubled, NEW v \in Running' PROVE v \in Tracked'
    BY <1>1 DEF RunningKnown
  <2>1. v \in Running /\ v # w
    BY DEF workerClosed, Running
  <2>2. call[c].next # "track"
    BY <1>3 DEF Shape, ShapeOf
  <2>3. v \in Tracked
    BY <1>4, <2>1, <2>2 DEF RunningKnown, OnTheWay
  <2>4. PICK i \in DOMAIN workers : workers[i].worker = v
    BY <2>3 DEF Tracked
  <2>5. i # Len(workers) /\ i \in 1..(Len(workers) - 1)
    BY <1>6, <1>7, <2>1, <2>4
  <2>. QED
    BY <1>8, <1>9, <2>4, <2>5 DEF Tracked
<1>. QED
  BY <1>11, <1>12

LEMMA PlacesStarted == JustStarted => Numbered
<1>. SUFFICES ASSUME NEW defs \in Seq(Definition), StartedFrom(defs)
              PROVE  Numbered
  BY DEF JustStarted
<1>1. \A c \in Calls : call[c].at = "idle" /\ call[c].next = "none"
  BY DEF Idle, StartedFrom
<1>. QED
  BY <1>1, InitialWorkersProperties DEF Numbered, StartedFrom

\* A start that finds one enabled definition at most.
StartedOnce == \E defs \in Seq(Definition) : StartedFrom(defs) /\ ~Twice(defs)

LEMMA OnceStarted == StartedOnce => Running \subseteq Tracked /\ Applied
<1>. SUFFICES ASSUME NEW defs \in Seq(Definition), StartedFrom(defs), ~Twice(defs)
              PROVE  Running \subseteq Tracked /\ Applied
  BY DEF StartedOnce
<1>1. Running \subseteq Tracked
  BY InitialWorkersProperties DEF Running, Tracked, StartedFrom
<1>2. Applied
  BY InitialInstancesProperties DEF Applied, AllHave, Running, StartedFrom
<1>. QED
  BY <1>1, <1>2

-----------------------------------------------------------------------------
(***************************************************************************)
(* While calls do not overlap, what runs has the concurrency of the        *)
(* definition.                                                             *)
(***************************************************************************)

\* Workers that run after a step and had run before with the same concurrency.
Survive == \A w \in Running' : w \in Running /\ instance'[w].concurrency = instance[w].concurrency

LEMMA Surviving ==
    ASSUME Survive, NEW k
    PROVE  /\ AllHave(k) => \A w \in Running' : instance'[w].concurrency = k
           /\ Running = {} => Running' = {}
           /\ Applied /\ definition' # None /\ definition'.concurrency = definition.concurrency => Applied'
           /\ Applied /\ UNCHANGED definition => Applied'
           /\ Running = {} => Applied'
  BY DEF Survive, AllHave, Applied

\* While one call is under way and no worker is in the map, none runs, unless
\* the call has just created it.
LEMMA NoneRuns ==
    ASSUME TypeOK, Shape, RunningKnown, ~overlapped, ~doubled, workers = << >>,
           \A d \in Calls : call[d].next # "track"
    PROVE  Running = {}
  BY DEF RunningKnown, Tracked, OnTheWay

LEMMA ConcurrencyKept ==
    ASSUME TypeOK, Shape, Pool, Alone, RunningKnown, ConcurrencyKnown, DefinitionsTyped',
           NEW c \in Calls, NEW m \in Progress, Active(c, m), Kind(c, m)
    PROVE  ConcurrencyKnown'
<1>. SUFFICES ASSUME ~upset', ~overlapped', ~doubled'
              PROVE  (Quiescent => Applied)' /\ \A d \in UnderWay' : AppliedFor(call[d])'
  BY DEF ConcurrencyKnown
<1>1. ~overlapped /\ ~doubled /\ \A d \in Calls \ {c} : call[d] = Idle
  BY Solo
<1>2. ~upset /\ Way(c, m)
  BY Ways
<1>3. /\ m.next = "none" => Applied
      /\ m.next # "none" => AppliedFor(m)
  <2>1. CASE m.next = "none" /\ call[c] = Idle
    <3>1. Quiescent
      BY <1>1, <2>1 DEF Quiescent, UnderWay, Idle
    <3>. QED
      BY <1>1, <1>2, <2>1, <3>1 DEF ConcurrencyKnown
  <2>2. CASE m = call[c] /\ m.at = "ready" /\ m.next # "none"
    <3>1. c \in UnderWay
      BY <2>2 DEF UnderWay
    <3>. QED
      BY <1>1, <1>2, <2>2, <3>1 DEF ConcurrencyKnown
  <2>3. m.next = "none" \/ (m = call[c] /\ m.at = "ready" /\ m.next # "none")
    BY ActiveProperties
  <2>. QED
    BY <2>1, <2>2, <2>3, ActiveProperties
<1>4. workers = << >> /\ m.next # "track" => Running = {}
  <2>1. call[c].next = "track" => m.next = "track"
    BY ActiveProperties DEF Idle
  <2>2. \A d \in Calls \ {c} : call[d].next # "track"
    BY <1>1 DEF Idle
  <2>. QED
    BY <1>1, <2>1, <2>2, NoneRuns
<1>5. Adjusts(m) => Applied
  BY <1>3, <1>4 DEF Adjusts, AppliedFor, Applied
<1>6. Others(c) /\ \A d \in Calls \ {c} : call'[d].at = "idle"
  BY <1>1, <1>2 DEF Way, After, Others, Idle
<1>7. ASSUME call'[c] = Idle, Applied' PROVE (Quiescent => Applied)' /\ \A d \in UnderWay' : AppliedFor(call[d])'
  BY <1>6, <1>7 DEF UnderWay, Idle
<1>8. ASSUME NEW io \in Waits \ {"idle"}, NEW next, After(c, m, io, next),
             /\ next = "recreate" =>
                  /\ definition' # None
                  /\ ~m.changed => m.def.concurrency = definition'.concurrency
             /\ next = "create" =>
                  (~m.changed => \A w \in Running' : instance'[w].concurrency = m.def.concurrency)
             /\ next = "reconcile" =>
                  /\ definition' # None
                  /\ ~m.changed => \A w \in Running' : instance'[w].concurrency = definition'.concurrency
             /\ next = "dropQueue" => Running' = {}
             /\ next \notin {"create", "reconcile"} /\ ~(m.op = "updateQueue" /\ next = "removeAll") => Applied'
      PROVE  (Quiescent => Applied)' /\ \A d \in UnderWay' : AppliedFor(call[d])'
  <2>1. UnderWay' = {c}
    BY <1>6, <1>8 DEF UnderWay, After
  <2>2. AppliedFor(call[c])'
    BY <1>8 DEF AppliedFor, After, AllHave
  <2>. QED
    BY <2>1, <2>2 DEF Quiescent
<1>9. UNCHANGED pool => Survive
  BY DEF Survive, Running, pool
<1>10. CASE Closes(c, m)
  <2>1. PICK next \in {"count", "removeSome", "removeAll"}, n \in Nat :
          /\ closeLast(c, m, next, n)
          /\ next = "count" => m.next = "none"
          /\ next = "removeSome" => Adjusts(m)
          /\ next = "removeAll" => m.op = "updateQueue" \/ (m.op = "deleteQueue" /\ m.next \in {"none", "removeAll"})
    BY <1>10 DEF Closes
  <2>2. workers # << >>
    BY <1>10 DEF Closes
  <2>3. /\ After(c, m, "closing", next) /\ UNCHANGED <<definitions, upset>>
        /\ instance' = [instance EXCEPT ![workers[Len(workers)].worker].state = "closing"]
    BY <2>1, <2>2, ClosesAfter
  <2>4. Survive
    BY <2>3 DEF Survive, Running, TypeOK
  <2>5. ~(m.op = "updateQueue" /\ next = "removeAll") => Applied
    BY <1>3, <1>5, <2>1 DEF AppliedFor
  <2>6. ~(m.op = "updateQueue" /\ next = "removeAll") => Applied'
    BY <2>3, <2>4, <2>5, Surviving DEF definitions
  <2>7. "closing" \in Waits \ {"idle"}
    BY DEF Waits
  <2>. QED
    BY <1>8, <2>1, <2>3, <2>6, <2>7
<1>11. CASE Adds(c, m)
  <2>1. PICK n \in Nat : addWorkerForQueue(c, m, n) /\ m.next # "track" /\ definition # None
    BY <1>11 DEF Adds, Adjusts
  <2>2. /\ After(c, m, "ready", "track") /\ UNCHANGED definitions
        /\ DOMAIN instance' = DOMAIN instance \cup {NewInstance}
        /\ instance'[NewInstance] = [state |-> "running", concurrency |-> definition.concurrency]
        /\ \A w \in DOMAIN instance : instance'[w] = instance[w]
    BY <2>1, AddsAfter
  <2>3. instance'[NewInstance].concurrency = definition.concurrency
    BY <2>2
  <2>4. Applied
    BY <1>3, <1>5, <1>11 DEF Adds
  <2>5. Applied'
    BY <2>1, <2>2, <2>3, <2>4 DEF Applied, AllHave, Running, definitions
  <2>6. "ready" \in Waits \ {"idle"}
    BY DEF Waits
  <2>. QED
    BY <1>8, <2>2, <2>5, <2>6
<1>12. CASE Tracks(c, m)
  <2>1. PICK next \in {"count", "more"} : After(c, m, "ready", next)
    BY <1>12, TracksAfter DEF Tracks
  <2>2. UNCHANGED <<instance, definitions>> /\ m.next = "track"
    BY <1>12, TracksAfter DEF Tracks
  <2>3. Applied
    BY <1>3, <2>2 DEF AppliedFor
  <2>4. Applied'
    BY <2>2, <2>3 DEF Applied, AllHave, Running, definitions
  <2>5. "ready" \in Waits \ {"idle"}
    BY DEF Waits
  <2>. QED
    BY <1>8, <2>1, <2>4, <2>5
<1>13. {"redis", "file", "queueClosing", "ready"} \subseteq Waits \ {"idle"}
  BY DEF Waits
<1>14. CASE Counts(c, m)
  <2>1. /\ saveConfig(c, m, "countFile") /\ UNCHANGED pool /\ definition # None
        /\ definition' = [definition EXCEPT !.workers = Len(workers)]
        /\ Adjusts(m) \/ m.next = "count"
    BY <1>14 DEF Counts, setQueueWorkers
  <2>2. After(c, m, "redis", "countFile")
    BY <2>1, SaveConfigAfter
  <2>3. definition \in Definition /\ Len(workers) \in Nat
    BY <2>1, LenProperties DEF TypeOK
  <2>4. definition' \in Definition /\ definition'.concurrency = definition.concurrency
    BY <2>1, <2>3 DEF Definition
  <2>5. definition' # None
    BY <2>4, AdminAssumption
  <2>6. Applied
    BY <1>3, <1>5, <2>1 DEF AppliedFor
  <2>7. Applied'
    BY <1>9, <2>1, <2>4, <2>5, <2>6, Surviving
  <2>. QED
    BY <1>8, <1>13, <2>2, <2>7
<1>15. CASE SavesLast(c, m)
  <2>1. /\ saveConfig(c, m, "end") /\ UNCHANGED definitions /\ UNCHANGED pool
        /\ Adjusts(m) \/ m.next = "lastSave"
    BY <1>15 DEF SavesLast, lastSave
  <2>2. After(c, m, "redis", "end")
    BY <2>1, SaveConfigAfter
  <2>3. Applied
    BY <1>3, <1>5, <2>1 DEF AppliedFor
  <2>4. Applied'
    BY <1>9, <2>1, <2>3, Surviving DEF definitions
  <2>. QED
    BY <1>8, <1>13, <2>2, <2>4
<1>16. CASE Ends(c, m)
  <2>1. /\ call' = [call EXCEPT ![c] = Idle] /\ UNCHANGED definitions /\ UNCHANGED pool
        /\ Adjusts(m) \/ m.next \in {"end", "count", "published"}
    BY <1>16 DEF Ends, End
  <2>2. call'[c] = Idle
    BY <2>1, IdleAfter
  <2>3. Applied
    BY <1>3, <1>5, <2>1 DEF AppliedFor
  <2>4. Applied'
    BY <1>9, <2>1, <2>3, Surviving DEF definitions
  <2>. QED
    BY <1>7, <2>2, <2>4
<1>17. CASE Throws(c, m)
  BY <1>17 DEF Throws, Throw
<1>18. CASE ClosesQueue(c, m)
  <2>1. definition # None /\ UNCHANGED definitions /\ UNCHANGED pool
    BY <1>18 DEF ClosesQueue
  <2>2. CASE m.op = "updateQueue" /\ m.next = "none" /\ Await(c, m, "queueClosing", "recreate")
    <3>1. After(c, m, "queueClosing", "recreate")
      BY <2>2, AwaitAfter
    <3>2. ~m.changed => m.def.concurrency = definition.concurrency
      <4>1. ~(m = call[c] /\ call[c].at = "ready")
        BY <2>2, ActiveProperties DEF Idle
      <4>. QED
        BY <2>2, <4>1 DEF Active
    <3>3. Applied'
      BY <1>3, <1>9, <2>1, <2>2, Surviving DEF definitions
    <3>. QED
      BY <1>8, <1>13, <2>1, <3>1, <3>2, <3>3 DEF definitions
  <2>3. CASE /\ m.op = "deleteQueue" /\ m.next \in {"none", "removeAll"} /\ workers = << >>
             /\ Await(c, m, "queueClosing", "dropQueue")
    <3>1. After(c, m, "queueClosing", "dropQueue")
      BY <2>3, AwaitAfter
    <3>2. Running' = {} /\ Applied'
      BY <1>4, <1>9, <2>1, <2>3, Surviving
    <3>. QED
      BY <1>8, <1>13, <3>1, <3>2
  <2>. QED
    BY <1>18, <2>2, <2>3 DEF ClosesQueue
<1>19. CASE Drops(c, m)
  <2>1. UNCHANGED pool /\ definition' = None
    BY <1>19 DEF Drops, dropQueue
  <2>2. CASE m.op = "updateQueue" /\ m.next = "recreate" /\ Await(c, m, "ready", "create")
    <3>1. After(c, m, "ready", "create")
      BY <2>2, AwaitAfter
    <3>2. definition # None /\ Applied /\ (~m.changed => m.def.concurrency = definition.concurrency)
      BY <1>3, <2>2 DEF AppliedFor
    <3>3. ~m.changed => AllHave(m.def.concurrency)
      BY <3>2 DEF Applied, AllHave
    <3>4. ~m.changed => \A w \in Running' : instance'[w].concurrency = m.def.concurrency
      BY <1>9, <2>1, <3>3, Surviving
    <3>. QED
      BY <1>8, <1>13, <3>1, <3>4
  <2>3. CASE m.next = "dropQueue" /\ saveConfigToFile(c, m, "announce")
    <3>1. After(c, m, "file", "announce")
      BY <2>3, SaveFileAfter
    <3>2. Running = {}
      BY <1>3, <2>3 DEF AppliedFor
    <3>3. Applied'
      BY <1>9, <2>1, <3>2, Surviving
    <3>. QED
      BY <1>8, <1>13, <3>1, <3>3
  <2>. QED
    BY <1>19, <2>2, <2>3 DEF Drops, dropQueue
<1>20. CASE Creates(c, m)
  <2>1. UNCHANGED pool /\ definition = None
    BY <1>20 DEF Creates
  <2>2. CASE /\ m.op = "updateQueue" /\ m.next = "create" /\ definition' = m.def /\ m.def \in Definition
             /\ saveConfigToFile(c, m, "reconcile")
    <3>1. After(c, m, "file", "reconcile")
      BY <2>2, SaveFileAfter
    <3>2. definition' # None
      BY <2>2, AdminAssumption
    <3>3. ~m.changed => AllHave(m.def.concurrency)
      BY <1>3, <2>2 DEF AppliedFor
    <3>4. ~m.changed => \A w \in Running' : instance'[w].concurrency = m.def.concurrency
      BY <1>9, <2>1, <3>3, Surviving
    <3>. QED
      BY <1>8, <1>13, <2>2, <3>1, <3>2, <3>4
  <2>3. CASE m.next = "none" /\ saveConfigToFile(c, m, "announce")
    <3>1. After(c, m, "file", "announce")
      BY <2>3, SaveFileAfter
    <3>2. Running = {}
      BY <1>3, <2>1, <2>3 DEF Applied
    <3>3. Applied'
      BY <1>9, <2>1, <3>2, Surviving
    <3>. QED
      BY <1>8, <1>13, <3>1, <3>3
  <2>. QED
    BY <1>20, <2>2, <2>3 DEF Creates
<1>21. CASE Writes(c, m)
  <2>1. /\ saveConfigToFile(c, m, "published") /\ UNCHANGED definitions /\ UNCHANGED pool
        /\ m.next = "countFile"
    BY <1>21 DEF Writes
  <2>2. After(c, m, "file", "published")
    BY <2>1, SaveFileAfter
  <2>3. Applied'
    BY <1>3, <1>9, <2>1, Surviving DEF AppliedFor, definitions
  <2>. QED
    BY <1>8, <1>13, <2>2, <2>3
<1>22. CASE Publishes(c, m)
  <2>1. /\ Await(c, m, "redis", "lastSave") /\ UNCHANGED definitions /\ UNCHANGED pool
        /\ m.next = "published"
    BY <1>22 DEF Publishes
  <2>2. After(c, m, "redis", "lastSave")
    BY <2>1, AwaitAfter
  <2>3. Applied'
    BY <1>3, <1>9, <2>1, Surviving DEF AppliedFor, definitions
  <2>. QED
    BY <1>8, <1>13, <2>2, <2>3
<1>23. CASE Announces(c, m)
  <2>1. PICK next \in {"ensure", "end"} :
          /\ saveConfig(c, m, next) /\ UNCHANGED definitions /\ UNCHANGED pool
          /\ m.next = "announce"
    BY <1>23 DEF Announces
  <2>2. After(c, m, "redis", next)
    BY <2>1, SaveConfigAfter
  <2>3. Applied'
    BY <1>3, <1>9, <2>1, Surviving DEF AppliedFor, definitions
  <2>. QED
    BY <1>8, <1>13, <2>2, <2>3
<1>. QED
  BY <1>10, <1>11, <1>12, <1>14, <1>15, <1>16, <1>17, <1>18, <1>19, <1>20, <1>21, <1>22, <1>23 DEF Kind

\* The same workers, with the same calls at the same places.
LEMMA ConcurrencyQuiet ==
    ASSUME ConcurrencyKnown, Survive, UNCHANGED <<definition, overlapped, doubled, upset>>,
           \A d \in Calls :
             /\ call'[d].at = "idle" <=> call[d].at = "idle"
             /\ \A f \in {"op", "next", "def", "changed"} : call'[d][f] = call[d][f]
    PROVE  ConcurrencyKnown'
<1>. SUFFICES ASSUME ~upset, ~overlapped, ~doubled
              PROVE  (Quiescent => Applied)' /\ \A d \in UnderWay' : AppliedFor(call[d])'
  BY DEF ConcurrencyKnown
<1>1. UnderWay' = UnderWay
  BY DEF UnderWay
<1>2. Applied => Applied'
  BY Surviving
<1>3. ASSUME NEW d \in UnderWay PROVE AppliedFor(call[d])'
  <2>1. AppliedFor(call[d]) /\ d \in Calls
    BY DEF ConcurrencyKnown, UnderWay
  <2>2. /\ call'[d].op = call[d].op /\ call'[d].next = call[d].next
        /\ call'[d].def = call[d].def /\ call'[d].changed = call[d].changed
    BY <2>1
  <2>3. \A k : AllHave(k) => \A w \in Running' : instance'[w].concurrency = k
    BY Surviving
  <2>4. Running = {} => Running' = {}
    BY Surviving
  <2>5. call[d].next = "create" /\ ~call[d].changed =>
          \A w \in Running' : instance'[w].concurrency = call[d].def.concurrency
    BY <2>1, <2>3 DEF AppliedFor
  <2>6. call[d].next = "reconcile" /\ ~call[d].changed =>
          \A w \in Running' : instance'[w].concurrency = definition.concurrency
    BY <2>1, <2>3 DEF AppliedFor
  <2>. QED
    BY <1>2, <2>1, <2>2, <2>4, <2>5, <2>6 DEF AppliedFor, AllHave
<1>. QED
  BY <1>1, <1>2, <1>3 DEF ConcurrencyKnown, Quiescent

LEMMA ConcurrencyOutside ==
    ASSUME TypeOK, Shape, ConcurrencyKnown, NEW c \in Calls, Outside(c)
    PROVE  ConcurrencyKnown'
<1>1. CASE upset'
  BY <1>1 DEF ConcurrencyKnown
<1>2. CASE ~upset'
  <2>1. /\ UNCHANGED <<definitions, pool, history, upset>> /\ call[c].at # "idle"
        /\ call' = [call EXCEPT ![c] = [call[c] EXCEPT !.at = "ready", !.content = None]]
    BY <1>2, OutsideProperties
  <2>2. \A d \in Calls :
          /\ call'[d].at = "idle" <=> call[d].at = "idle"
          /\ \A f \in {"op", "next", "def", "changed"} : call'[d][f] = call[d][f]
    <3>1. /\ call'[c].at = "ready"
          /\ call'[c].op = call[c].op /\ call'[c].next = call[c].next
          /\ call'[c].def = call[c].def /\ call'[c].changed = call[c].changed
      BY <2>1 DEF TypeOK, Progress
    <3>2. \A d \in Calls \ {c} : call'[d] = call[d]
      BY <2>1 DEF TypeOK
    <3>3. \A f \in {"op", "next", "def", "changed"} : call'[c][f] = call[c][f]
      BY <3>1
    <3>4. call'[c].at # "idle" /\ call[c].at # "idle"
      BY <2>1, <3>1
    <3>. QED
      BY <3>2, <3>3, <3>4
  <2>3. Survive
    BY <2>1 DEF Survive, Running, pool
  <2>. QED
    BY <2>1, <2>2, <2>3, ConcurrencyQuiet DEF definitions, history
<1>. QED
  BY <1>1, <1>2

LEMMA ConcurrencyClosed ==
    ASSUME TypeOK, Shape, ConcurrencyKnown, NEW w \in DOMAIN instance, workerClosed(w)
    PROVE  ConcurrencyKnown'
<1>1. UNCHANGED <<definition, overlapped, doubled, upset>>
  BY DEF workerClosed, definitions, history
<1>2. \A d \in Calls :
        /\ call'[d].at = "idle" <=> call[d].at = "idle"
        /\ \A f \in {"op", "next", "def", "changed"} : call'[d][f] = call[d][f]
  <2>. SUFFICES ASSUME NEW d \in Calls
                PROVE  /\ call'[d].at = "idle" <=> call[d].at = "idle"
                       /\ \A f \in {"op", "next", "def", "changed"} : call'[d][f] = call[d][f]
    OBVIOUS
  <2>1. Woken(w)
    BY WokenCalls DEF workerClosed
  <2>2. CASE d \in WaitingFor(w)
    <3>1. /\ call[d].at = "closing" /\ call'[d].at = "ready"
          /\ \A f \in {"op", "next", "def", "changed", "content"} : call'[d][f] = call[d][f]
      BY <2>1, <2>2, Zenon DEF Woken
    <3>. QED
      BY <3>1
  <2>3. CASE d \notin WaitingFor(w)
    BY <2>1, <2>3 DEF Woken
  <2>. QED
    BY <2>2, <2>3
<1>3. Survive
  BY DEF Survive, Running, workerClosed
<1>. QED
  BY <1>1, <1>2, <1>3, ConcurrencyQuiet

-----------------------------------------------------------------------------
(***************************************************************************)
(* The invariant.                                                          *)
(***************************************************************************)

LEMMA InitInvariant == Init => IInv
<1>. SUFFICES ASSUME Init PROVE IInv
  OBVIOUS
<1>1. StartDefs \in Seq(Definition) /\ StartedFrom(StartDefs)
  BY AdminAssumption DEF Init, StartedFrom
<1>2. JustStarted /\ (~doubled => StartedOnce)
  BY <1>1 DEF JustStarted, StartedOnce, Init
<1>3. UnderWay = {}
  BY DEF UnderWay, Init, Idle
<1>4. TypeOK /\ Shape /\ DefinitionsAgree
  BY InitTyped
<1>5. Pool /\ Numbered
  BY <1>2, PoolStarted, PlacesStarted
<1>6. RedisFollows /\ Alone /\ FileFollows
  BY <1>3 DEF RedisFollows, Alone, FileFollows, Init
<1>7. RunningKnown /\ ConcurrencyKnown
  BY <1>2, <1>3, OnceStarted DEF RunningKnown, ConcurrencyKnown
<1>. QED
  BY <1>4, <1>5, <1>6, <1>7 DEF IInv

LEMMA RestartInvariant ==
    ASSUME IInv, restart
    PROVE  IInv'
<1>. DEFINE defs == loadQueueConfig(file)
<1>1. TypeOK /\ Shape /\ DefinitionsAgree /\ RedisFollows /\ Alone /\ FileFollows
  BY DEF IInv
<1>2. defs \in Seq(Definition)
  BY <1>1, LoadedDefinitions
<1>3. /\ config' = defs /\ definition' = LastEnabled(defs)
      /\ workers' = InitialWorkers(defs) /\ instance' = InitialInstances(defs)
      /\ call' = [c \in Calls |-> Idle]
      /\ ~doubled' => ~Twice(defs)
  BY DEF restart
<1>. HIDE DEF defs
<1>4. JustStarted' /\ (~doubled' => StartedOnce')
  BY <1>2, <1>3 DEF JustStarted, StartedOnce, StartedFrom, Twice, Enabled
<1>5. UnderWay' = {}
  BY <1>3 DEF UnderWay, Idle
<1>6. TypeOK' /\ Shape' /\ DefinitionsAgree'
  BY <1>1, RestartTyped
<1>7. Pool' /\ Numbered'
  BY <1>4, PoolStarted, PlacesStarted, PTL
<1>8. RedisFollows' /\ Alone' /\ FileFollows'
  BY <1>1, RedisRestart, FileRestart
<1>9. ~doubled' => (Running \subseteq Tracked)' /\ Applied'
  <2>1. (Running \subseteq Tracked /\ Applied)' \/ ~StartedOnce'
    BY OnceStarted, PTL
  <2>. QED
    BY <1>4, <2>1
<1>10. RunningKnown' /\ ConcurrencyKnown'
  BY <1>5, <1>9 DEF RunningKnown, ConcurrencyKnown
<1>. QED
  BY <1>6, <1>7, <1>8, <1>10 DEF IInv

\* What a step that changes nothing keeps.
LEMMA StutterInvariant ==
    ASSUME IInv, UNCHANGED vars
    PROVE  IInv'
<1>1. /\ UNCHANGED <<definition, config, workers, instance, call, redis, file, started, faults>>
      /\ UNCHANGED <<overlapped, doubled, upset>>
  BY DEF vars
<1>2. /\ TypeOK' /\ Shape' /\ DefinitionsAgree'
  BY <1>1 DEF IInv, TypeOK, Shape, DefinitionsAgree
<1>3. Pool' /\ RedisFollows' /\ Alone' /\ FileFollows'
  BY <1>1 DEF IInv, Pool, EntriesDiffer, CreatedIsFresh, ClosingIsTracked, TrackedExist,
     ClosingIsAwaited, WaitingFor, Tracked, Running, RedisFollows, WillSave, Alone, FileFollows,
     FileKnown, Quiescent, UnderWay
<1>4. Numbered' /\ RunningKnown' /\ ConcurrencyKnown'
  BY <1>1 DEF IInv, Numbered, RunningKnown, OnTheWay, Tracked, Running, ConcurrencyKnown,
     Quiescent, UnderWay, Applied, AppliedFor, AllHave
<1>. QED
  BY <1>2, <1>3, <1>4 DEF IInv

LEMMA CallInvariant ==
    ASSUME IInv, NEW c \in Calls, NEW m \in Progress, Active(c, m), Kind(c, m)
    PROVE  IInv'
<1>1. /\ TypeOK /\ Shape /\ DefinitionsAgree /\ Pool /\ RedisFollows /\ Alone
      /\ FileFollows /\ Numbered /\ RunningKnown /\ ConcurrencyKnown
  BY DEF IInv
<1>2. TypeOK' /\ Shape' /\ DefinitionsAgree' /\ DefinitionsTyped'
  BY <1>1, CallKinds, DefinitionsKinds
<1>3. Pool' /\ RedisFollows' /\ Alone' /\ FileFollows'
  BY <1>1, <1>2, PoolKept, RedisKept, AloneKept, FileKept
<1>4. Numbered' /\ RunningKnown' /\ ConcurrencyKnown'
  BY <1>1, <1>2, PlacesKept, ConcurrencyKept
<1>. QED
  BY <1>2, <1>3, <1>4 DEF IInv

\* The closing of the queue moves the calls that wait for it, and nothing else.
LEMMA QueueClosedInvariant ==
    ASSUME IInv, queueClosed
    PROVE  IInv'
<1>1. /\ TypeOK /\ Shape /\ DefinitionsAgree /\ Pool /\ RedisFollows /\ Alone
      /\ FileFollows /\ Numbered /\ RunningKnown /\ ConcurrencyKnown
  BY DEF IInv
<1>2. /\ UNCHANGED <<definition, config, workers, instance, redis, file, faults>>
      /\ UNCHANGED <<started, overlapped, doubled, upset>>
  BY DEF queueClosed, definitions, pool, saves, history
<1>3. ASSUME NEW d \in Calls
      PROVE  /\ call'[d] \in Progress /\ ShapeOf(call'[d])
             /\ \A f \in {"op", "next", "def", "changed", "target", "content"} :
                  call'[d][f] = call[d][f]
             /\ \A io \in {"idle", "closing", "file"} : call'[d].at = io <=> call[d].at = io
  <2>1. call[d] \in Progress /\ ShapeOf(call[d])
    BY <1>1 DEF TypeOK, Shape
  <2>2. CASE d \in WaitingForQueue
    <3>. DEFINE r == [call[d] EXCEPT !.at = "ready"]
    <3>1. call[d].at = "queueClosing" /\ call'[d] = r
      BY <2>2 DEF queueClosed, WaitingForQueue
    <3>2. /\ r \in Progress /\ r.at = "ready" /\ r.op = call[d].op /\ r.next = call[d].next
          /\ r.def = call[d].def /\ r.target = call[d].target
          /\ \A f \in {"op", "next", "def", "changed", "target", "content"} : r[f] = call[d][f]
      BY <2>1 DEF Progress, Waits
    <3>3. r.op # "none"
      BY <2>1, <3>1, <3>2 DEF ShapeOf, Idle
    <3>4. ShapeOf(r)
      BY <2>1, <3>1, <3>2, <3>3 DEF ShapeOf, Idle
    <3>. HIDE DEF r
    <3>. QED
      BY <3>1, <3>2, <3>4
  <2>3. CASE d \notin WaitingForQueue
    <3>1. call'[d] = call[d]
      BY <2>3 DEF queueClosed
    <3>. QED
      BY <2>1, <3>1
  <2>. QED
    BY <2>2, <2>3
<1>4. CallsTyped' /\ Shape'
  <2>1. call' \in [Calls -> Progress]
    <3>. DEFINE r(d) == IF d \in WaitingForQueue THEN [call[d] EXCEPT !.at = "ready"] ELSE call[d]
    <3>1. call' = [d \in Calls |-> r(d)]
      BY DEF queueClosed
    <3>. HIDE DEF r
    <3>. QED
      BY <1>3, <3>1
  <2>. QED
    BY <1>3, <2>1 DEF CallsTyped, Shape
<1>5. DefinitionsTyped' /\ PoolTyped' /\ SavesTyped' /\ HistoryTyped'
  BY <1>1, <1>2, TypesByGroup
     DEF DefinitionsTyped, PoolTyped, SavesTyped, HistoryTyped, Distinct
<1>6. TypeOK' /\ Shape' /\ DefinitionsAgree'
  <2>1. TypeOK'
    BY <1>4, <1>5, TypesByGroup, PTL
  <2>2. DefinitionsAgree'
    BY <1>1, <1>2 DEF DefinitionsAgree
  <2>. QED
    BY <1>4, <2>1, <2>2
<1>7. Pool'
  BY <1>1, <1>2, <1>3, PoolQuiet DEF pool
<1>8. RedisFollows'
  BY <1>1, <1>2, <1>3, RedisQuiet DEF WillSave
<1>9. Alone' /\ FileFollows'
  <2>1. UnderWay' = UnderWay
    BY <1>3 DEF UnderWay
  <2>2. \A d \in Calls : FileKnown(call[d])' <=> FileKnown(call[d])
    BY <1>2, <1>3 DEF FileKnown
  <2>. QED
    BY <1>1, <1>2, <2>1, <2>2 DEF Alone, FileFollows, Quiescent, UnderWay
<1>10. Numbered' /\ RunningKnown'
  BY <1>1, <1>2, <1>3, PlacesQuiet DEF pool
<1>11. ConcurrencyKnown'
  <2>1. Survive
    BY <1>2 DEF Survive, Running
  <2>. QED
    BY <1>1, <1>2, <1>3, <2>1, ConcurrencyQuiet
<1>. QED
  BY <1>6, <1>7, <1>8, <1>9, <1>10, <1>11 DEF IInv

LEMMA NextInvariant == IInv /\ [Next]_vars => IInv'
<1>. SUFFICES ASSUME IInv, [Next]_vars PROVE IInv'
  OBVIOUS
<1>1. /\ TypeOK /\ Shape /\ DefinitionsAgree /\ Pool /\ RedisFollows /\ Alone
      /\ FileFollows /\ Numbered /\ RunningKnown /\ ConcurrencyKnown
  BY DEF IInv
<1>2. ASSUME NEW c \in Calls,
             addWorker(c) \/ removeWorker(c) \/ createQueue(c) \/ updateQueue(c) \/ deleteQueue(c)
      PROVE  IInv'
  BY <1>1, <1>2, StartKinds, CallInvariant
<1>3. ASSUME NEW c \in Calls, resume(c) PROVE IInv'
  <2>1. call[c] \in Progress
    BY <1>1 DEF TypeOK
  <2>. QED
    BY <1>1, <1>3, <2>1, ResumeKinds, CallInvariant
<1>4. ASSUME NEW c \in Calls, Outside(c) PROVE IInv'
  BY <1>1, <1>4, OutsideTyped, PoolOutside, RedisOutside, FileOutside, PlacesOutside,
     ConcurrencyOutside DEF IInv
<1>5. ASSUME NEW w \in DOMAIN instance, workerClosed(w) PROVE IInv'
  BY <1>1, <1>5, ClosedTyped, PoolClosed, RedisClosed, FileClosed, PlacesClosed,
     ConcurrencyClosed DEF IInv
<1>6. CASE restart
  BY <1>6, RestartInvariant
<1>7. CASE UNCHANGED vars
  BY <1>7, StutterInvariant
<1>8. CASE queueClosed
  BY <1>8, QueueClosedInvariant
<1>. QED
  BY <1>2, <1>3, <1>4, <1>5, <1>6, <1>7, <1>8 DEF Next

\* The invariant holds of the administration of a queue, whatever calls, faults
\* and restarts it meets.
THEOREM Invariant == Spec => []IInv
  BY InitInvariant, NextInvariant, PTL DEF Spec

-----------------------------------------------------------------------------
(***************************************************************************)
(* What follows from it.                                                   *)
(***************************************************************************)

\* Whatever calls interleave with, the state of QueueAdminController and its two
\* services keeps its types, and the numbers of the map are different.
THEOREM TypeCorrect == Spec => []TypeOK
<1>1. IInv => TypeOK
  BY DEF IInv
<1>. QED
  BY <1>1, Invariant, PTL

\* The map queueDefinitions and the array of the configuration agree at every
\* await of every method that changes them.
THEOREM DefinitionsAlwaysAgree == Spec => []DefinitionsAgree
<1>1. IInv => DefinitionsAgree
  BY DEF IInv
<1>. QED
  BY <1>1, Invariant, PTL

\* removeWorkerForQueue() takes out of the map what it has closed, also when
\* several calls close the same worker and numbers are given away meanwhile.
THEOREM ClosedWorkersLeave == Spec => []MapHasNoDead
<1>1. IInv => MapHasNoDead
  BY NoDead DEF IInv
<1>. QED
  BY <1>1, Invariant, PTL

\* When all calls have ended well, Redis has the configuration of the memory,
\* and so has the file unless calls overlapped.
THEOREM SavesAlwaysFollow == Spec => []SavesFollow
<1>1. IInv => SavesFollow
  <2>. SUFFICES ASSUME IInv, Quiescent, ~upset
                PROVE  (redis # None => redis = config) /\ (~overlapped => file = config)
    BY DEF SavesFollow
  <2>1. Shape /\ RedisFollows /\ FileFollows
    BY DEF IInv
  <2>2. \A c \in Calls : call[c] = Idle
    BY <2>1 DEF Quiescent, UnderWay, Shape, ShapeOf
  <2>3. \A c \in Calls : ~WillSave(call[c])
    BY <2>2 DEF WillSave, Idle
  <2>. QED
    BY <2>1, <2>3 DEF RedisFollows, FileFollows
<1>. QED
  BY <1>1, Invariant, PTL

\* Calls that do not overlap lose no worker: addWorkerForQueue(), which numbers
\* by the size of the map, never takes the number of another one.
THEOREM WorkersStayKnown == Spec => []SequentialTracksWorkers
<1>1. IInv => SequentialTracksWorkers
  <2>. SUFFICES ASSUME IInv, ~overlapped, ~doubled, Quiet
                PROVE  Running \subseteq Tracked /\ \A i \in DOMAIN workers : workers[i].number = i
    BY DEF SequentialTracksWorkers
  <2>1. Shape /\ Numbered /\ RunningKnown
    BY DEF IInv
  <2>2. \A c \in Calls : call[c].next # "track"
    BY <2>1 DEF Quiet, Shape, ShapeOf
  <2>3. OnTheWay = {}
    BY <2>2 DEF OnTheWay
  <2>. QED
    BY <2>1, <2>3 DEF Numbered, RunningKnown
<1>. QED
  BY <1>1, Invariant, PTL

\* After a PUT that changes the concurrency every worker runs with the new one,
\* and an addition, a removal or another PUT keeps it so.
THEOREM ConcurrencyReachesWorkers == Spec => []ConcurrencyApplied
<1>1. IInv => ConcurrencyApplied
  <2>. SUFFICES ASSUME IInv, Quiescent, ~upset, ~overlapped, ~doubled, NEW w \in Running
                PROVE  definition # None /\ instance[w].concurrency = definition.concurrency
    BY DEF ConcurrencyApplied
  <2>1. Applied
    BY DEF IInv, ConcurrencyKnown
  <2>. QED
    BY <2>1 DEF Applied, AllHave
<1>. QED
  BY <1>1, Invariant, PTL
=============================================================================
