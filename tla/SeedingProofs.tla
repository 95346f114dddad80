---------------------------- MODULE SeedingProofs ----------------------------
(***************************************************************************)
(* Proofs about Seeding for any fixtures, any number of requests to seed   *)
(* and to clear, and any number of faults.                                 *)
(***************************************************************************)
EXTENDS Seeding, FiniteSetTheorems, SequenceTheorems, WellFoundedInduction, TLAPS

-----------------------------------------------------------------------------
(***************************************************************************)
(* Numbers and sequences.                                                  *)
(***************************************************************************)

\* A set of numbers that is not empty has a smallest one.
LEMMA Smallest ==
    ASSUME NEW S, S \subseteq Nat, S # {}
    PROVE  \E x \in S : \A y \in S : x <= y
<1>1. PICK x \in S : \A y \in S : ~(<<y, x>> \in OpToRel(<, Nat))
  BY NatLessThanWellFounded, WFMin
<1>2. ASSUME NEW y \in S PROVE x <= y
  <2>1. x \in Nat /\ y \in Nat
    OBVIOUS
  <2>2. ~(y < x)
    BY <1>1, <2>1 DEF OpToRel
  <2>. QED
    BY <2>1, <2>2
<1>. QED
  BY <1>2

\* A function that FlattenSeq builds: it joins the first i sequences.
Joins(f, ss, n) ==
    f = [i \in 1..n |-> IF i = 1 THEN ss[1] ELSE f[i - 1] \o ss[i]]

\* There is one, although its definition is recursive.
LEMMA JoinsExists ==
    ASSUME NEW T, NEW ss \in Seq(Seq(T))
    PROVE  \E f : Joins(f, ss, Len(ss))
<1>. DEFINE Bad == {n \in 0..Len(ss) : ~ \E f : Joins(f, ss, n)}
<1>1. Len(ss) \in Nat /\ Bad \subseteq Nat
  BY LenProperties
<1>2. SUFFICES ASSUME Bad # {} PROVE FALSE
  BY <1>1
<1>3. PICK n \in Bad : \A k \in Bad : n <= k
  BY <1>1, <1>2, Smallest
<1>4. CASE n = 0
  <2>1. Joins([i \in 1..0 |-> << >>], ss, 0)
    BY DEF Joins
  <2>. QED
    BY <1>3, <1>4, <2>1
<1>5. CASE n # 0
  <2>1. n \in 1..Len(ss) /\ n - 1 \in 0..Len(ss) /\ ~(n <= n - 1)
    BY <1>1, <1>3, <1>5
  <2>2. n - 1 \notin Bad
    BY <1>3, <2>1
  <2>3. PICK f : Joins(f, ss, n - 1)
    BY <2>1, <2>2
  <2>. DEFINE g == [i \in 1..n |-> IF i = n THEN (IF i = 1 THEN ss[1] ELSE f[i - 1] \o ss[i])
                                             ELSE f[i]]
  <2>4. \A i \in 1..(n - 1) : g[i] = f[i]
    BY <2>1
  <2>5. \A i \in 1..(n - 1) : f[i] = IF i = 1 THEN ss[1] ELSE f[i - 1] \o ss[i]
    BY <2>1, <2>3 DEF Joins
  <2>6. ASSUME NEW i \in 1..n PROVE g[i] = IF i = 1 THEN ss[1] ELSE g[i - 1] \o ss[i]
    <3>1. i # 1 => i - 1 \in 1..(n - 1)
      BY <2>1
    <3>2. i # 1 => g[i - 1] = f[i - 1]
      BY <2>4, <3>1
    <3>3. CASE i = n
      BY <3>2, <3>3
    <3>4. CASE i # n
      <4>1. i \in 1..(n - 1)
        BY <2>1, <3>4
      <4>. QED
        BY <2>4, <2>5, <3>2, <4>1
    <3>. QED
      BY <3>3, <3>4
  <2>7. Joins(g, ss, n)
    <3>. HIDE DEF g
    <3>1. g = [i \in 1..n |-> g[i]]
      BY DEF g
    <3>. QED
      BY <2>6, <3>1 DEF Joins
  <2>. QED
    BY <1>3, <2>7
<1>. QED
  BY <1>4, <1>5

\* What two sequences hold together, in the form the proofs below use.
LEMMA JoinedRange ==
    ASSUME NEW T
    PROVE  \A a, b \in Seq(T) : \A x : x \in Range(a \o b) <=> x \in Range(a) \/ x \in Range(b)
  BY RangeConcatenation, SMT

\* FlattenSeq joins sequences: its elements are the elements of them.
LEMMA FlattenProperties ==
    ASSUME NEW T, NEW ss \in Seq(Seq(T))
    PROVE  /\ FlattenSeq(ss) \in Seq(T)
           /\ \A x : x \in ToSet(FlattenSeq(ss)) <=> \E i \in DOMAIN ss : x \in ToSet(ss[i])
<1>1. Len(ss) \in Nat /\ DOMAIN ss = 1..Len(ss) /\ \A i \in 1..Len(ss) : ss[i] \in Seq(T)
  BY LenProperties
<1>2. CASE Len(ss) = 0
  <2>1. FlattenSeq(ss) = ss
    BY <1>2 DEF FlattenSeq
  <2>2. ss = << >>
    BY <1>2, EmptySeq
  <2>. QED
    BY <2>1, <2>2 DEF ToSet
<1>3. CASE Len(ss) # 0
  <2>. DEFINE f == CHOOSE g : Joins(g, ss, Len(ss))
  <2>1. FlattenSeq(ss) = f[Len(ss)]
    BY <1>3 DEF FlattenSeq, Joins
  <2>2. Joins(f, ss, Len(ss))
    BY JoinsExists
  <2>. HIDE DEF f
  <2>3. \A i \in 1..Len(ss) : f[i] = IF i = 1 THEN ss[1] ELSE f[i - 1] \o ss[i]
    BY <1>1, <2>2 DEF Joins
  <2>. DEFINE Good(n) == /\ f[n] \in Seq(T)
                         /\ \A x : x \in ToSet(f[n]) <=> \E i \in 1..n : x \in ToSet(ss[i])
              Bad == {n \in 1..Len(ss) : ~Good(n)}
  <2>4. ASSUME Bad = {} PROVE Good(Len(ss))
    <3>1. Len(ss) \in 1..Len(ss)
      BY <1>1, <1>3
    <3>. QED
      BY <2>4, <3>1
  <2>. HIDE DEF Good
  <2>5. SUFFICES ASSUME Bad # {} PROVE FALSE
    BY <1>1, <2>1, <2>4 DEF Good
  <2>6. Bad \subseteq Nat
    BY <1>1
  <2>7. PICK n \in Bad : \A k \in Bad : n <= k
    <3>. HIDE DEF Bad
    <3>. QED
      BY <2>5, <2>6, Smallest
  <2>8. CASE n = 1
    <3>1. f[1] = ss[1] /\ 1 \in 1..Len(ss)
      BY <1>1, <2>3, <2>7, <2>8
    <3>2. Good(1)
      BY <1>1, <3>1 DEF Good
    <3>. QED
      BY <2>7, <2>8, <3>2
  <2>9. CASE n # 1
    <3>1. n \in 1..Len(ss) /\ n - 1 \in 1..Len(ss) /\ ~(n <= n - 1)
      BY <1>1, <2>7, <2>9
    <3>2. Good(n - 1)
      BY <2>7, <3>1
    <3>3. f[n] = f[n - 1] \o ss[n] /\ ss[n] \in Seq(T)
      BY <1>1, <2>3, <2>9, <3>1
    <3>4. f[n] \in Seq(T)
      BY <3>2, <3>3 DEF Good
    <3>5. ToSet(f[n]) = ToSet(f[n - 1]) \cup ToSet(ss[n])
      <4>. DEFINE a == f[n - 1]
                  b == ss[n]
                  both == a \o b
                  upTo == f[n]
      <4>1. a \in Seq(T) /\ b \in Seq(T)
        BY <3>2, <3>3 DEF Good
      <4>2. upTo = both
        BY <3>3
      <4>. HIDE DEF a, b
      <4>3. \A x : x \in Range(both) <=> x \in Range(a) \/ x \in Range(b)
        BY <4>1, JoinedRange
      <4>4. upTo \in Seq(T)
        BY <3>4
      <4>. HIDE DEF both, upTo
      <4>5. \A g \in Seq(T) : ToSet(g) = Range(g)
        BY DEF ToSet, Range
      <4>6. ToSet(upTo) = ToSet(a) \cup ToSet(b)
        BY <4>1, <4>2, <4>3, <4>4, <4>5
      <4>. QED
        BY <4>6, Zenon DEF a, b, upTo
    <3>6. \A i \in 1..n : i = n \/ i \in 1..(n - 1)
      BY <3>1
    <3>7. \A i \in 1..(n - 1) : i \in 1..n
      BY <3>1
    <3>8. n \in 1..n
      BY <3>1
    <3>9. \A x : x \in ToSet(f[n]) <=> \E i \in 1..n : x \in ToSet(ss[i])
      BY <3>2, <3>5, <3>6, <3>7, <3>8 DEF Good
    <3>. QED
      BY <2>7, <3>4, <3>9 DEF Good
  <2>. QED
    BY <2>8, <2>9
<1>. QED
  BY <1>2, <1>3

\* One element for each of a sequence.
LEMMA Mapped ==
    ASSUME NEW S, NEW s \in Seq(S), NEW T, NEW m \in [DOMAIN s -> T]
    PROVE  m \in Seq(T) /\ DOMAIN m = DOMAIN s
<1>1. Len(s) \in Nat /\ DOMAIN s = 1..Len(s)
  BY LenProperties
<1>2. m \in [1..Len(s) -> T]
  BY <1>1
<1>. QED
  BY <1>1, <1>2, IsASeq

\* One sequence for each element of a sequence, joined.
LEMMA Flattened ==
    ASSUME NEW S, NEW s \in Seq(S), NEW T, NEW ss \in [DOMAIN s -> Seq(T)]
    PROVE  /\ FlattenSeq(ss) \in Seq(T)
           /\ \A x : x \in ToSet(FlattenSeq(ss)) <=> \E i \in DOMAIN s : x \in ToSet(ss[i])
<1>1. ss \in Seq(Seq(T)) /\ DOMAIN ss = DOMAIN s
  BY Mapped
<1>. QED
  BY <1>1, FlattenProperties

\* A sequence of one element.
LEMMA One ==
    ASSUME NEW T, NEW y \in T
    PROVE  <<y>> \in Seq(T) /\ ToSet(<<y>>) = {y}
  BY DEF ToSet

\* Of places of a sequence there is a first one.
LEMMA FirstPlace ==
    ASSUME NEW T, NEW s \in Seq(T), NEW P \in SUBSET DOMAIN s, P # {}
    PROVE  Min(P) \in P
<1>1. Len(s) \in Nat /\ DOMAIN s = 1..Len(s)
  BY LenProperties
<1>2. P \subseteq Nat
  BY <1>1
<1>. QED
  BY <1>2, Smallest DEF Min

\* The elements of a sequence are those of the set it is made of.
LEMMA Elements ==
    ASSUME NEW T, NEW s \in Seq(T)
    PROVE  /\ ToSet(s) \subseteq T
           /\ \A x \in T : Append(s, x) \in Seq(T) /\ ToSet(Append(s, x)) = ToSet(s) \cup {x}
           /\ s # << >> => /\ Head(s) \in T /\ Tail(s) \in Seq(T)
                          /\ ToSet(s) = ToSet(Tail(s)) \cup {Head(s)}
<1>1. Len(s) \in Nat /\ DOMAIN s = 1..Len(s) /\ \A i \in DOMAIN s : s[i] \in T
  BY LenProperties
<1>2. ToSet(s) \subseteq T
  BY <1>1 DEF ToSet
<1>3. ASSUME NEW x \in T
      PROVE  Append(s, x) \in Seq(T) /\ ToSet(Append(s, x)) = ToSet(s) \cup {x}
  <2>. DEFINE t == Append(s, x)
  <2>1. t \in Seq(T) /\ Len(t) = Len(s) + 1
        /\ (\A i \in 1..Len(s) : t[i] = s[i]) /\ t[Len(s) + 1] = x
    BY AppendProperties
  <2>2. DOMAIN t = 1..(Len(s) + 1)
    BY <2>1, LenProperties
  <2>. HIDE DEF t
  <2>3. \A i \in DOMAIN t : i \in DOMAIN s \/ i = Len(s) + 1
    BY <1>1, <2>2
  <2>4. Len(s) + 1 \in DOMAIN t /\ DOMAIN s \subseteq DOMAIN t
    BY <1>1, <2>2
  <2>5. ASSUME NEW y \in ToSet(t) PROVE y \in ToSet(s) \cup {x}
    BY <1>1, <2>1, <2>3 DEF ToSet
  <2>6. ASSUME NEW y \in ToSet(s) \cup {x} PROVE y \in ToSet(t)
    BY <1>1, <2>1, <2>4 DEF ToSet
  <2>. QED
    BY <2>1, <2>5, <2>6 DEF t
<1>4. ASSUME s # << >>
      PROVE  /\ Head(s) \in T /\ Tail(s) \in Seq(T)
             /\ ToSet(s) = ToSet(Tail(s)) \cup {Head(s)}
  <2>. DEFINE t == Tail(s)
  <2>1. /\ Head(s) \in T /\ Head(s) = s[1] /\ t \in Seq(T) /\ Len(t) = Len(s) - 1
        /\ \A i \in 1..Len(t) : t[i] = s[i + 1]
    BY <1>4, HeadTailProperties
  <2>2. DOMAIN t = 1..(Len(s) - 1) /\ Len(s) >= 1
    BY <1>1, <1>4, <2>1, LenProperties, EmptySeq
  <2>. HIDE DEF t
  <2>3. \A i \in DOMAIN s : i = 1 \/ (i - 1 \in DOMAIN t /\ s[i] = t[i - 1])
    BY <1>1, <2>1, <2>2
  <2>4. \A i \in DOMAIN t : i + 1 \in DOMAIN s /\ t[i] = s[i + 1]
    BY <1>1, <2>1, <2>2
  <2>5. 1 \in DOMAIN s
    BY <1>1, <2>2
  <2>6. ASSUME NEW y \in ToSet(s) PROVE y \in ToSet(t) \cup {Head(s)}
    BY <2>1, <2>3 DEF ToSet
  <2>7. ASSUME NEW y \in ToSet(t) \cup {Head(s)} PROVE y \in ToSet(s)
    BY <2>1, <2>4, <2>5 DEF ToSet
  <2>. QED
    BY <2>1, <2>6, <2>7 DEF t
<1>. QED
  BY <1>2, <1>3, <1>4

\* A list of a finite set has its elements.
LEMMA Listed ==
    ASSUME NEW S, IsFiniteSet(S)
    PROVE  SetToSeq(S) \in Seq(S) /\ ToSet(SetToSeq(S)) \subseteq S
<1>1. Cardinality(S) \in Nat /\ ExistsBijection(1..Cardinality(S), S)
  BY FS_CardinalityType
<1>2. \E f \in [1..Cardinality(S) -> S] : IsInjective(f)
  BY <1>1 DEF ExistsBijection, Bijection, Injection, IsInjective
<1>3. SetToSeq(S) \in [1..Cardinality(S) -> S]
  BY <1>2 DEF SetToSeq
<1>4. SetToSeq(S) \in Seq(S)
  BY <1>1, <1>3, IsASeq
<1>. QED
  BY <1>4, Elements

-----------------------------------------------------------------------------
(***************************************************************************)
(* The inductive invariant.                                                *)
(***************************************************************************)
Services == {"grades", "enrollments", "teaching", "calendar", "facilities", "programs", "auth"}
SendSteps == Tables \cup {"staff", "students"}

AnyRecord == UNION {Record(t) : t \in Tables}
Operation == [at: Steps, seed: BOOLEAN, toClear: Seq(Services), todo: Seq(AnyRecord),
              ids: [Kept -> Seq(AnyRecord)], errors: BOOLEAN, counted: Nat, success: BOOLEAN]
Late == [clear: Services] \cup [table: Tables, message: AnyRecord]

\* Everything has a shape; an id that is known is one of its table.
OpTyped ==
    /\ op \in [Ops -> Operation]
    /\ \A r \in Ops : \A t \in Kept : ToSet(op[r].ids[t]) \subseteq Record(t)
StoreTyped ==
    /\ store \in [Tables -> SUBSET AnyRecord]
    /\ \A t \in Tables : store[t] \subseteq Record(t) /\ IsFiniteSet(store[t])
    /\ \A t \in Unique : \A x, y \in store[t] : x.key = y.key => x = y
CountsTyped == late \subseteq Late /\ faults \in 0 .. MaxFaults /\ disturbed \in BOOLEAN

\* The part of RecordsBelongTogether that one record decides alone.
Together(t, x) ==
    /\ t = "sections" =>
         \E p \in ToSet(Plan) : x.term.key = p.term /\ x.course.level.key = p.level
    /\ t = "details" => x.enrollment.term = x.section.term
    /\ t = "enrollments" => x.student.student
StoredTogether == \A t \in Tables : \A x \in store[t] : Together(t, x)

\* What a record refers to exists, the study plan of a student excepted.
Sound(t, x) == t # "users" => \A ref \in References(t, x) : ref[2] \in store[ref[1]]
StoredSound == ~disturbed => \A t \in Tables : \A x \in store[t] : Sound(t, x)

\* What a request may send to a table.
Sendable(r, t) ==
    {m \in Record(t) : m.by = r /\ Together(t, m) /\ (~disturbed => Sound(t, m))}

\* A request knows and sends nothing before it seeds, and sends only what
\* belongs together and refers to what exists.
Sends ==
    \A r \in Ops :
        /\ op[r].at \notin SendSteps => op[r].todo = << >> /\ op[r].ids = NoIds
        /\ op[r].at \in SendSteps => ToSet(op[r].todo) \subseteq Sendable(r, Table(r))

\* A message that is late was sent by a request that had cleared before.  As
\* long as that one is under way, what it refers to exists.
LateIsSound ==
    \A m \in late : "table" \in DOMAIN m =>
        LET x == m.message IN
        /\ x \in Record(m.table)
        /\ Together(m.table, x)
        /\ op[x.by].at \notin {"idle", "clearing", "start"}
        /\ ~disturbed /\ UnderWay(x.by) => Sound(m.table, x)

\* Undisturbed requests come one after the other, and the ids one knows are
\* those of records that exist.
Alone == ~disturbed => \A q, r \in Ops : UnderWay(q) /\ UnderWay(r) => q = r
IdsExist ==
    ~disturbed => \A r \in Ops : UnderWay(r) =>
        \A t \in Kept : ToSet(op[r].ids[t]) \subseteq store[t]

\* What is left to clear is an end of ClearSteps, and what comes before it is
\* clear.
Rest(steps, done) ==
    /\ done \in 0 .. 6 /\ Len(steps) = 7 - done
    /\ \A i \in 1 .. (7 - done) : steps[i] = ClearSteps[done + i]
EmptyUpTo(done) == \A j \in 1 .. done : \A t \in Removes(ClearSteps[j]) : store[t] = {}
ClearsInOrder ==
    \A r \in Ops : op[r].at = "clearing" =>
        \E done \in 0 .. 6 : Rest(op[r].toClear, done) /\ (~disturbed => EmptyUpTo(done))

IInv ==
    /\ OpTyped /\ StoreTyped /\ CountsTyped
    /\ StoredTogether /\ StoredSound /\ Sends /\ LateIsSound
    /\ Alone /\ IdsExist /\ ClearsInOrder

\* The sections a request plans, and the enrollments of its student.
PlannedSections(r) ==
    UNION {{[course |-> c, term |-> Term(r, p.term), by |-> r] :
               c \in {d \in ToSet(op[r].ids.courses) : d.level.key = p.level}} : p \in ToSet(Plan)}
PlannedEnrollments(r) ==
    {[student |-> FirstStudent(r), term |-> Term(r, p.term), by |-> r] : p \in ToSet(Plan)}
TermsKnown(r) == \A p \in ToSet(Plan) : Term(r, p.term) # None

\* Unless an error is noted, what the seeders of sections and enrollments plan
\* is stored or about to be sent; afterwards a success says that it is stored.
Followed(r) ==
    /\ op[r].at = "sections" /\ ~op[r].errors =>
         TermsKnown(r) /\ PlannedSections(r) \subseteq ToSet(op[r].todo) \cup store["sections"]
    /\ op[r].at \in {"schedules", "enrollments", "details", "grades"} /\ op[r].success =>
         TermsKnown(r) /\ PlannedSections(r) \subseteq store["sections"]
    /\ op[r].at = "enrollments" /\ ~op[r].errors =>
         PlannedEnrollments(r) \subseteq ToSet(op[r].todo) \cup store["enrollments"]
    /\ op[r].at \in {"details", "grades"} /\ op[r].success =>
         PlannedEnrollments(r) \subseteq store["enrollments"]
PlansAreFollowed == ~disturbed => \A r \in Ops : Followed(r)

-----------------------------------------------------------------------------
(***************************************************************************)
(* Tables, records and what they refer to.                                 *)
(***************************************************************************)

\* A record is one of some table, and a request has sent it.
LEMMA RecordTyped ==
    ASSUME NEW t \in Tables, NEW x \in Record(t)
    PROVE  x \in AnyRecord /\ x.by \in Ops
<1>1. x \in AnyRecord
  BY DEF AnyRecord
<1>2. x.by \in Ops
  BY DEF Tables, Record, ProgramRecord, PlanRecord, UserRecord, LevelRecord, CourseRecord,
         PrerequisiteRecord, YearRecord, TermRecord, ClassroomRecord, SectionRecord,
         ScheduleRecord, EnrollmentRecord, DetailRecord, GradeRecord
<1>. QED
  BY <1>1, <1>2

\* The table of a step.
LEMMA TableTyped == \A step \in SendSteps : TableOf(step) \in Tables
  BY DEF SendSteps, TableOf, Tables

\* Steps that send, steps that do not, and the tables they are about.
LEMMA StepsDiffer ==
    /\ SendSteps \subseteq Steps /\ Kept \subseteq Tables /\ Unique \subseteq Tables
    /\ {"idle", "clearing", "start", "done", "failed"} \subseteq Steps \ SendSteps
    /\ Steps = SendSteps \cup {"idle", "clearing", "start", "done", "failed"}
  BY DEF SendSteps, Steps, Tables, Kept, Unique

\* The place of a table in ClearSteps.
Rank == [t \in Tables |->
    CASE t = "grades" -> 1
      [] t \in {"enrollments", "details"} -> 2
      [] t \in {"sections", "schedules"} -> 3
      [] t \in {"years", "terms"} -> 4
      [] t = "classrooms" -> 5
      [] t \in {"programs", "plans", "levels", "courses", "prerequisites"} -> 6
      [] t = "users" -> 7]

\* A table is cleared with the ones it refers to or before them, the users
\* excepted.
LEMMA ReferencesRank ==
    ASSUME NEW t \in Tables, NEW x, NEW ref \in References(t, x)
    PROVE  /\ ref[1] \in Tables
           /\ t # "users" => Rank[t] <= Rank[ref[1]]
  BY DEF References, Tables, Rank

\* The place of a table is the step that clears it.
LEMMA RankOfSteps ==
    /\ Len(ClearSteps) = 7 /\ ClearSteps \in Seq(Services)
    /\ \A j \in 1..7 : Removes(ClearSteps[j]) \subseteq Tables
    /\ \A j \in 1..7 : \A t \in Tables : t \in Removes(ClearSteps[j]) <=> Rank[t] = j
    /\ \A t \in Tables : Rank[t] \in 1..7
<1>1. Len(ClearSteps) = 7 /\ ClearSteps \in Seq(Services)
  BY DEF ClearSteps, Services
<1>2. \A t \in Tables : Rank[t] \in 1..7
  BY DEF Tables, Rank
<1>3. ASSUME NEW j \in 1..7, NEW t \in Tables
      PROVE  t \in Removes(ClearSteps[j]) <=> Rank[t] = j
  <2>1. \/ j = 1 /\ ClearSteps[j] = "grades"
        \/ j = 2 /\ ClearSteps[j] = "enrollments"
        \/ j = 3 /\ ClearSteps[j] = "teaching"
        \/ j = 4 /\ ClearSteps[j] = "calendar"
        \/ j = 5 /\ ClearSteps[j] = "facilities"
        \/ j = 6 /\ ClearSteps[j] = "programs"
        \/ j = 7 /\ ClearSteps[j] = "auth"
    BY DEF ClearSteps
  <2>. QED
    BY <2>1 DEF Removes, Rank, Tables
<1>4. ASSUME NEW j \in 1..7 PROVE Removes(ClearSteps[j]) \subseteq Tables
  <2>1. ClearSteps[j] \in Services
    BY DEF ClearSteps, Services
  <2>. QED
    BY <2>1 DEF Removes, Tables, Services
<1>. QED
  BY <1>1, <1>2, <1>3, <1>4

\* What exists goes on to exist while nothing is removed.
LEMMA SoundStays ==
    ASSUME NEW t \in Tables, NEW x, Sound(t, x), \A u \in Tables : store[u] \subseteq store'[u]
    PROVE  Sound(t, x)'
  BY ReferencesRank DEF Sound

\* What may be sent may still be sent while nothing is removed.
LEMMA SendableStays ==
    ASSUME NEW r, NEW t \in Tables, ~disturbed' => ~disturbed,
           ~disturbed' => \A u \in Tables : store[u] \subseteq store'[u]
    PROVE  Sendable(r, t) \subseteq Sendable(r, t)'
  BY SoundStays DEF Sendable

-----------------------------------------------------------------------------
(***************************************************************************)
(* The steps of a request that is seeding.                                 *)
(***************************************************************************)

\* A request that seeds goes on: it knows and sends what it may, and nothing is
\* removed.
LEMMA StepInvariant ==
    ASSUME IInv, NEW r \in Ops, op[r].at \in SendSteps \cup {"start"},
           NEW o \in Operation, op' = [op EXCEPT ![r] = o],
           o.at \in SendSteps \cup {"done"},
           o.at = "done" => o.todo = << >> /\ o.ids = NoIds,
           o.at \in SendSteps => ToSet(o.todo) \subseteq Sendable(r, TableOf(o.at))',
           \A t \in Kept : /\ ToSet(o.ids[t]) \subseteq Record(t)
                           /\ ~disturbed => ToSet(o.ids[t]) \subseteq store'[t],
           StoreTyped', StoredTogether', StoredSound',
           \A u \in Tables : store[u] \subseteq store'[u],
           \A m \in late' : m \in late \/ \E t \in Tables : \E x \in Sendable(r, t) :
                                             m = [table |-> t, message |-> x],
           disturbed' = disturbed \/ disturbed' = TRUE, faults' \in 0..MaxFaults
    PROVE  IInv'
<1>. SUFFICES ASSUME ~disturbed' => ~disturbed, disturbed' \in BOOLEAN PROVE IInv'
  BY DEF IInv, CountsTyped
<1>1. op \in [Ops -> Operation] /\ op' \in [Ops -> Operation]
  BY DEF IInv, OpTyped
<1>2. op'[r] = o /\ \A q \in Ops \ {r} : op'[q] = op[q]
  BY <1>1
<1>3. UnderWay(r) /\ op[r].at # "clearing" /\ o.at \notin {"idle", "clearing", "start"}
  BY StepsDiffer DEF UnderWay
<1>4. OpTyped'
  BY <1>1, <1>2 DEF IInv, OpTyped
<1>5. CountsTyped'
  <2>1. ASSUME NEW t \in Tables, NEW x \in Sendable(r, t)
        PROVE  [table |-> t, message |-> x] \in Late
    BY RecordTyped DEF Sendable, Late
  <2>2. late' \subseteq Late
    BY <2>1 DEF IInv, CountsTyped
  <2>. QED
    BY <2>2 DEF IInv, CountsTyped
<1>6. Sends'
  <2>1. ASSUME NEW q \in Ops \ {r}
        PROVE  /\ op'[q].at \notin SendSteps => op'[q].todo = << >> /\ op'[q].ids = NoIds
               /\ op'[q].at \in SendSteps => ToSet(op'[q].todo) \subseteq Sendable(q, Table(q))'
    <3>1. op'[q].at \in SendSteps => Sendable(q, Table(q)) \subseteq Sendable(q, Table(q))'
      <4>1. op'[q].at \in SendSteps => TableOf(op[q].at) \in Tables /\ op'[q].at = op[q].at
        BY <1>2, TableTyped
      <4>2. ASSUME NEW t \in Tables PROVE Sendable(q, t) \subseteq Sendable(q, t)'
        BY SendableStays
      <4>. QED
        BY <4>1, <4>2 DEF Table
    <3>. QED
      BY <1>2, <3>1 DEF IInv, Sends
  <2>2. /\ o.at \notin SendSteps => o.todo = << >> /\ o.ids = NoIds
        /\ o.at \in SendSteps => ToSet(o.todo) \subseteq Sendable(r, Table(r))'
    BY <1>2 DEF Table
  <2>. QED
    BY <1>2, <2>1, <2>2 DEF Sends
<1>7. LateIsSound'
  <2>. SUFFICES ASSUME NEW m \in late', "table" \in DOMAIN m
                PROVE  /\ m.message \in Record(m.table)
                       /\ Together(m.table, m.message)
                       /\ op'[m.message.by].at \notin {"idle", "clearing", "start"}
                       /\ ~disturbed' /\ UnderWay(m.message.by)' => Sound(m.table, m.message)'
    BY DEF LateIsSound
  <2>1. CASE m \in late
    <3>1. /\ m.message \in Record(m.table) /\ Together(m.table, m.message)
          /\ op[m.message.by].at \notin {"idle", "clearing", "start"}
          /\ ~disturbed /\ UnderWay(m.message.by) => Sound(m.table, m.message)
      BY <2>1 DEF IInv, LateIsSound
    <3>2. m \in Late /\ m.table \in Tables
      BY <2>1 DEF IInv, CountsTyped, Late
    <3>3. m.message.by \in Ops
      BY <3>1, <3>2, RecordTyped
    <3>4. op'[m.message.by].at \notin {"idle", "clearing", "start"}
      BY <1>2, <1>3, <3>1, <3>3
    <3>5. UnderWay(m.message.by)' => UnderWay(m.message.by)
      BY <1>2, <1>3, <3>3 DEF UnderWay
    <3>6. Sound(m.table, m.message) => Sound(m.table, m.message)'
      BY <3>2, SoundStays
    <3>. QED
      BY <3>1, <3>4, <3>5, <3>6
  <2>2. CASE m \notin late
    <3>1. PICK t \in Tables : \E x \in Sendable(r, t) : m = [table |-> t, message |-> x]
      BY <2>2
    <3>. PICK x \in Sendable(r, t) : m = [table |-> t, message |-> x]
      BY <3>1
    <3>2. x \in Record(t) /\ x.by = r /\ Together(t, x) /\ (~disturbed => Sound(t, x))
      BY DEF Sendable
    <3>3. Sound(t, x) => Sound(t, x)'
      BY SoundStays
    <3>4. m.table = t /\ m.message = x
      OBVIOUS
    <3>. QED
      BY <1>2, <1>3, <3>2, <3>3, <3>4
  <2>. QED
    BY <2>1, <2>2
<1>8. Alone'
  BY <1>2, <1>3 DEF IInv, Alone, UnderWay
<1>9. IdsExist'
  <2>. SUFFICES ASSUME ~disturbed', NEW q \in Ops, UnderWay(q)', NEW t \in Kept
                PROVE  ToSet(op'[q].ids[t]) \subseteq store'[t]
    BY DEF IdsExist
  <2>1. CASE q = r
    BY <1>2, <2>1
  <2>2. CASE q # r
    <3>1. UnderWay(q) /\ ToSet(op[q].ids[t]) \subseteq store[t]
      BY <1>2, <2>2 DEF IInv, IdsExist, UnderWay
    <3>. QED
      BY <1>2, <2>2, <3>1, StepsDiffer
  <2>. QED
    BY <2>1, <2>2
<1>10. ClearsInOrder'
  <2>. SUFFICES ASSUME NEW q \in Ops, op'[q].at = "clearing"
                PROVE  \E done \in 0..6 : Rest(op'[q].toClear, done) /\ disturbed'
    BY DEF ClearsInOrder
  <2>1. q # r /\ op[q].at = "clearing" /\ op'[q] = op[q]
    BY <1>2, <1>3
  <2>2. disturbed
    BY <1>3, <2>1 DEF IInv, Alone, UnderWay
  <2>. QED
    BY <2>1, <2>2 DEF IInv, ClearsInOrder
<1>. QED
  BY <1>4, <1>5, <1>6, <1>7, <1>8, <1>9, <1>10 DEF IInv

\* The next state of a request that is answered,
LEMMA AnsweredOp ==
    ASSUME OpTyped, NEW r \in Ops, op[r].todo # << >>, Table(r) \in Tables,
           NEW id \in Record(Table(r)), answered(r, id)
    PROVE  \E o \in Operation :
             /\ op' = [op EXCEPT ![r] = o]
             /\ o.at = op[r].at /\ o.todo = Tail(op[r].todo)
             /\ o.errors = op[r].errors /\ o.success = op[r].success
             /\ \A t \in Kept :
                  /\ t # Table(r) => o.ids[t] = op[r].ids[t]
                  /\ t = Table(r) => o.ids[t] = Append(op[r].ids[t], id)
<1>. DEFINE ids == IF Table(r) \notin Kept THEN op[r].ids
                   ELSE [op[r].ids EXCEPT ![Table(r)] = Append(@, id)]
            o == [op[r] EXCEPT !.todo = Tail(@), !.counted = @ + 1, !.ids = ids]
<1>1. op \in [Ops -> Operation] /\ op[r] \in Operation
  BY DEF OpTyped
<1>2. op[r].ids \in [Kept -> Seq(AnyRecord)] /\ op[r].todo \in Seq(AnyRecord)
      /\ op[r].counted \in Nat
  BY <1>1 DEF Operation
<1>3. id \in AnyRecord
  BY RecordTyped
<1>4. ids \in [Kept -> Seq(AnyRecord)]
  BY <1>2, <1>3
<1>5. Tail(op[r].todo) \in Seq(AnyRecord)
  BY <1>2, HeadTailProperties
<1>6. op' = [op EXCEPT ![r] = o]
  BY <1>1 DEF answered, Operation
<1>. HIDE DEF ids
<1>7. o \in Operation
  <2>. DEFINE n == op[r].counted + 1
              todo == Tail(op[r].todo)
  <2>1. n \in Nat /\ todo \in Seq(AnyRecord)
    BY <1>2, <1>5
  <2>2. o = [op[r] EXCEPT !.todo = todo, !.counted = n, !.ids = ids]
    OBVIOUS
  <2>. HIDE DEF n, todo, o
  <2>. QED
    BY <1>1, <1>4, <2>1, <2>2 DEF Operation
<1>8. o.ids = ids /\ o.at = op[r].at /\ o.todo = Tail(op[r].todo)
      /\ o.errors = op[r].errors /\ o.success = op[r].success
  BY <1>1 DEF Operation
<1>9. \A t \in Kept : /\ t # Table(r) => ids[t] = op[r].ids[t]
                      /\ t = Table(r) => ids[t] = Append(op[r].ids[t], id)
  BY <1>2 DEF ids
<1>. HIDE DEF o
<1>. QED
  BY <1>6, <1>7, <1>8, <1>9

\* and of one that is not.
LEMMA UnansweredOp ==
    ASSUME OpTyped, NEW r \in Ops, op[r].todo # << >>, unanswered(r)
    PROVE  \E o \in Operation :
             /\ op' = [op EXCEPT ![r] = o]
             /\ o.at = op[r].at /\ o.todo = Tail(op[r].todo)
             /\ o.errors = (op[r].errors \/ Table(r) \in Reported)
             /\ o.success = op[r].success /\ o.ids = op[r].ids
<1>. DEFINE n == IF Table(r) \in Unchecked THEN op[r].counted + 1 ELSE op[r].counted
            e == op[r].errors \/ Table(r) \in Reported
            o == [op[r] EXCEPT !.todo = Tail(@), !.counted = n, !.errors = e]
<1>1. op \in [Ops -> Operation] /\ op[r] \in Operation
  BY DEF OpTyped
<1>2. Tail(op[r].todo) \in Seq(AnyRecord)
  BY <1>1, HeadTailProperties DEF Operation
<1>3. n \in Nat /\ e \in BOOLEAN
  BY <1>1 DEF Operation
<1>4. op' = [op EXCEPT ![r] = o]
  BY <1>1 DEF unanswered, Operation
<1>. HIDE DEF n, e
<1>5. o \in Operation
  BY <1>1, <1>2, <1>3 DEF Operation
<1>6. /\ o.at = op[r].at /\ o.todo = Tail(op[r].todo) /\ o.errors = e
      /\ o.success = op[r].success /\ o.ids = op[r].ids
  BY <1>1 DEF Operation
<1>. HIDE DEF o
<1>. QED
  BY <1>4, <1>5, <1>6 DEF e

\* A section counts although it has no id.
LEMMA IgnoredOp ==
    ASSUME OpTyped, NEW r \in Ops, op[r].todo # << >>, createIgnored(r)
    PROVE  \E o \in Operation :
             /\ op' = [op EXCEPT ![r] = o]
             /\ o.at = op[r].at /\ o.todo = Tail(op[r].todo) /\ o.ids = op[r].ids
<1>. DEFINE n == op[r].counted + 1
            o == [op[r] EXCEPT !.todo = Tail(@), !.counted = n]
<1>1. op \in [Ops -> Operation] /\ op[r] \in Operation
  BY DEF OpTyped
<1>2. Tail(op[r].todo) \in Seq(AnyRecord) /\ n \in Nat
  BY <1>1, HeadTailProperties DEF Operation
<1>3. op' = [op EXCEPT ![r] = o]
  <2>1. Table(r) \notin Kept
    BY DEF createIgnored, Kept
  <2>. QED
    BY <1>1, <2>1 DEF createIgnored, answered, Operation
<1>. HIDE DEF n
<1>4. o \in Operation /\ o.at = op[r].at /\ o.todo = Tail(op[r].todo) /\ o.ids = op[r].ids
  BY <1>1, <1>2 DEF Operation
<1>. HIDE DEF o
<1>. QED
  BY <1>3, <1>4

\* What a request sends, and what is left when it is answered.
LEMMA SendingFacts ==
    ASSUME IInv, NEW r \in Ops, Sending(r)
    PROVE  /\ op[r].at \in SendSteps /\ Table(r) \in Tables
           /\ Message(r) \in Sendable(r, Table(r))
           /\ op[r].todo \in Seq(AnyRecord) /\ op[r].todo # << >>
           /\ ToSet(op[r].todo) = ToSet(Tail(op[r].todo)) \cup {Message(r)}
           /\ ToSet(Tail(op[r].todo)) \subseteq Sendable(r, Table(r))
<1>1. op[r].todo # << >> /\ op[r].at \in SendSteps
  BY DEF Sending, IInv, Sends
<1>2. Table(r) \in Tables
  BY <1>1, TableTyped DEF Table
<1>3. op[r].todo \in Seq(AnyRecord)
  BY DEF IInv, OpTyped, Operation
<1>4. ToSet(op[r].todo) = ToSet(Tail(op[r].todo)) \cup {Message(r)}
  BY <1>1, <1>3, Elements DEF Message
<1>5. ToSet(op[r].todo) \subseteq Sendable(r, Table(r))
  BY <1>1 DEF IInv, Sends
<1>. QED
  BY <1>1, <1>2, <1>3, <1>4, <1>5

\* A record is stored.
LEMMA ExecutesFacts ==
    ASSUME StoreTyped, StoredTogether, NEW t \in Tables, NEW m \in Record(t),
           Together(t, m), ~Refused(t, m), Executes(t, m)
    PROVE  /\ StoreTyped' /\ StoredTogether'
           /\ \A u \in Tables : store[u] \subseteq store'[u]
           /\ m \in store'[t]
           /\ StoredSound /\ (~disturbed' => ~disturbed /\ Sound(t, m)) => StoredSound'
<1>1. store \in [Tables -> SUBSET AnyRecord] /\ m \in AnyRecord
  BY RecordTyped DEF StoreTyped
<1>2. /\ \A u \in Tables \ {t} : store'[u] = store[u]
      /\ store'[t] = store[t] \cup {m}
      /\ store' \in [Tables -> SUBSET AnyRecord]
  BY <1>1 DEF Executes
<1>3. \A u \in Tables : store'[u] \subseteq Record(u)
  BY <1>2 DEF StoreTyped
<1>4. \A u \in Tables : IsFiniteSet(store'[u])
  BY <1>2, FS_AddElement DEF StoreTyped
<1>5. ASSUME NEW u \in Unique, NEW x \in store'[u], NEW y \in store'[u], x.key = y.key
      PROVE  x = y
  <2>1. CASE u = t
    <3>1. \A z \in store[t] : z.key # m.key
      BY <2>1 DEF Refused, Existing
    <3>. QED
      BY <1>2, <1>5, <2>1, <3>1 DEF StoreTyped
  <2>2. CASE u # t
    BY <1>2, <1>5, <2>2, StepsDiffer DEF StoreTyped
  <2>. QED
    BY <2>1, <2>2
<1>6. StoreTyped'
  BY <1>2, <1>3, <1>4, <1>5 DEF StoreTyped
<1>7. StoredTogether'
  BY <1>2 DEF StoredTogether, Together
<1>8. \A u \in Tables : store[u] \subseteq store'[u]
  BY <1>2
<1>9. ASSUME StoredSound, ~disturbed' => ~disturbed /\ Sound(t, m), ~disturbed',
             NEW u \in Tables, NEW x \in store'[u]
      PROVE  Sound(u, x)'
  <2>1. Sound(u, x)
    BY <1>2, <1>9 DEF StoredSound
  <2>. QED
    BY <1>8, <2>1, SoundStays
<1>. QED
  BY <1>2, <1>6, <1>7, <1>8, <1>9 DEF StoredSound

\* A record is created: it may be stored, and its id is one of its table.
LEMMA SucceedsInvariant ==
    ASSUME IInv, NEW r \in Ops, createSucceeds(r)
    PROVE  IInv'
<1>. DEFINE t == Table(r)
            m == Message(r)
<1>1. /\ Sending(r) /\ ~Refused(t, m) /\ Executes(t, m) /\ answered(r, m)
      /\ UNCHANGED <<late, faults, disturbed>>
  BY DEF createSucceeds
<1>2. /\ op[r].at \in SendSteps /\ t \in Tables /\ m \in Sendable(r, t)
      /\ op[r].todo # << >> /\ ToSet(Tail(op[r].todo)) \subseteq Sendable(r, t)
  BY <1>1, SendingFacts
<1>3. m \in Record(t) /\ Together(t, m) /\ (~disturbed => Sound(t, m))
  BY <1>2 DEF Sendable
<1>. HIDE DEF t, m
<1>4. /\ StoreTyped' /\ StoredTogether' /\ StoredSound' /\ m \in store'[t]
      /\ \A u \in Tables : store[u] \subseteq store'[u]
  BY <1>1, <1>2, <1>3, ExecutesFacts DEF IInv
<1>5. PICK o \in Operation :
        /\ op' = [op EXCEPT ![r] = o]
        /\ o.at = op[r].at /\ o.todo = Tail(op[r].todo)
        /\ o.errors = op[r].errors /\ o.success = op[r].success
        /\ \A u \in Kept : /\ u # t => o.ids[u] = op[r].ids[u]
                           /\ u = t => o.ids[u] = Append(op[r].ids[u], m)
  BY <1>1, <1>2, <1>3, AnsweredOp DEF IInv, t
<1>6. ToSet(o.todo) \subseteq Sendable(r, TableOf(o.at))'
  BY <1>1, <1>2, <1>4, <1>5, SendableStays DEF t, Table
<1>7. ASSUME NEW u \in Kept
      PROVE  /\ ToSet(o.ids[u]) \subseteq Record(u)
             /\ ~disturbed => ToSet(o.ids[u]) \subseteq store'[u]
  <2>1. /\ ToSet(op[r].ids[u]) \subseteq Record(u)
        /\ ~disturbed => ToSet(op[r].ids[u]) \subseteq store'[u]
    BY <1>1, <1>4, StepsDiffer DEF IInv, OpTyped, IdsExist, Sending
  <2>2. op[r].ids[u] \in Seq(AnyRecord) /\ m \in AnyRecord
    BY <1>2, <1>3, RecordTyped DEF IInv, OpTyped, Operation
  <2>3. ToSet(Append(op[r].ids[u], m)) = ToSet(op[r].ids[u]) \cup {m}
    BY <2>2, Elements
  <2>. QED
    BY <1>3, <1>4, <1>5, <2>1, <2>3
<1>8. faults' \in 0..MaxFaults
  BY <1>1 DEF IInv, CountsTyped
<1>. QED
  BY <1>1, <1>2, <1>4, <1>5, <1>6, <1>7, <1>8, StepsDiffer, StepInvariant

\* A record is refused, looked up, or fails: nothing is stored.
LEMMA RefusedInvariant ==
    ASSUME IInv, NEW r \in Ops, createRefused(r) \/ createFails(r) \/ createIgnored(r)
    PROVE  IInv'
<1>. DEFINE t == Table(r)
            m == Message(r)
<1>1. Sending(r) /\ UNCHANGED store /\ (disturbed' = disturbed \/ disturbed' = TRUE)
  BY DEF createRefused, createFails, createIgnored
<1>2. /\ op[r].at \in SendSteps /\ t \in Tables /\ m \in Sendable(r, t)
      /\ op[r].todo # << >> /\ ToSet(Tail(op[r].todo)) \subseteq Sendable(r, t)
  BY <1>1, SendingFacts
<1>3. late' \subseteq late \cup {[table |-> t, message |-> m]}
  BY DEF createRefused, createFails, createIgnored
<1>4. unanswered(r) \/ createIgnored(r) \/ \E x \in store[t] : answered(r, x)
  BY DEF createRefused, createFails, Existing
<1>5. faults' \in 0..MaxFaults
  BY SeedingAssumption DEF createRefused, createFails, createIgnored, Fault, IInv, CountsTyped
<1>. HIDE DEF t, m
<1>6. ASSUME NEW x \in store[t], answered(r, x)
      PROVE  \E o \in Operation :
               /\ op' = [op EXCEPT ![r] = o]
               /\ o.at = op[r].at /\ o.todo = Tail(op[r].todo)
               /\ \A u \in Kept : ToSet(o.ids[u]) \subseteq ToSet(op[r].ids[u]) \cup
                                    IF u = t THEN store[t] ELSE {}
  <2>1. x \in Record(t)
    BY <1>2, <1>6 DEF IInv, StoreTyped
  <2>2. PICK o \in Operation :
          /\ op' = [op EXCEPT ![r] = o]
          /\ o.at = op[r].at /\ o.todo = Tail(op[r].todo)
          /\ \A u \in Kept : /\ u # t => o.ids[u] = op[r].ids[u]
                             /\ u = t => o.ids[u] = Append(op[r].ids[u], x)
    BY <1>2, <1>6, <2>1, AnsweredOp DEF IInv, t
  <2>3. ASSUME NEW u \in Kept
        PROVE  ToSet(o.ids[u]) \subseteq ToSet(op[r].ids[u]) \cup IF u = t THEN store[t] ELSE {}
    <3>1. op[r].ids[u] \in Seq(AnyRecord) /\ x \in AnyRecord
      BY <1>2, <2>1, RecordTyped DEF IInv, OpTyped, Operation
    <3>2. ToSet(Append(op[r].ids[u], x)) = ToSet(op[r].ids[u]) \cup {x}
      BY <3>1, Elements
    <3>. QED
      BY <1>6, <2>2, <3>2
  <2>. QED
    BY <2>2, <2>3
<1>7. PICK o \in Operation :
        /\ op' = [op EXCEPT ![r] = o]
        /\ o.at = op[r].at /\ o.todo = Tail(op[r].todo)
        /\ \A u \in Kept : ToSet(o.ids[u]) \subseteq ToSet(op[r].ids[u]) \cup
                             IF u = t THEN store[t] ELSE {}
  <2>1. CASE unanswered(r)
    <3>1. PICK o \in Operation : /\ op' = [op EXCEPT ![r] = o]
                                 /\ o.at = op[r].at /\ o.todo = Tail(op[r].todo)
                                 /\ o.ids = op[r].ids
      BY <1>2, <2>1, UnansweredOp DEF IInv
    <3>. QED
      BY <3>1
  <2>2. CASE createIgnored(r)
    <3>1. PICK o \in Operation : /\ op' = [op EXCEPT ![r] = o]
                                 /\ o.at = op[r].at /\ o.todo = Tail(op[r].todo)
                                 /\ o.ids = op[r].ids
      BY <1>2, <2>2, IgnoredOp DEF IInv
    <3>. QED
      BY <3>1
  <2>. QED
    BY <1>4, <1>6, <2>1, <2>2
<1>8. \A u \in Tables : store[u] \subseteq store'[u]
  BY <1>1
<1>9. ToSet(o.todo) \subseteq Sendable(r, TableOf(o.at))'
  BY <1>1, <1>2, <1>7, <1>8, SendableStays DEF t, Table
<1>10. ASSUME NEW u \in Kept
       PROVE  /\ ToSet(o.ids[u]) \subseteq Record(u)
              /\ ~disturbed => ToSet(o.ids[u]) \subseteq store'[u]
  <2>1. /\ ToSet(op[r].ids[u]) \subseteq Record(u)
        /\ ~disturbed => ToSet(op[r].ids[u]) \subseteq store'[u]
    BY <1>1, StepsDiffer DEF IInv, OpTyped, IdsExist, Sending
  <2>2. store[u] \subseteq Record(u) /\ store'[u] = store[u]
    BY <1>1, StepsDiffer DEF IInv, StoreTyped
  <2>. QED
    BY <1>7, <2>1, <2>2
<1>11. StoreTyped' /\ StoredTogether' /\ StoredSound'
  <2>1. StoreTyped'
    BY <1>1 DEF IInv, StoreTyped
  <2>2. StoredTogether'
    BY <1>1 DEF IInv, StoredTogether, Together
  <2>3. StoredSound'
    BY <1>1 DEF IInv, StoredSound, Sound
  <2>. QED
    BY <2>1, <2>2, <2>3
<1>12. \A d \in late' : d \in late \/ \E u \in Tables : \E x \in Sendable(r, u) :
                                        d = [table |-> u, message |-> x]
  BY <1>2, <1>3
<1>. QED
  BY <1>1, <1>2, <1>5, <1>7, <1>8, <1>9, <1>10, <1>11, <1>12, StepsDiffer, StepInvariant

-----------------------------------------------------------------------------
(***************************************************************************)
(* The other steps: a request begins, clears, and what is late is executed.*)
(***************************************************************************)

\* The fields of a request that has not begun.
LEMMA IdleTyped ==
    /\ Idle \in Operation /\ NoIds \in [Kept -> Seq(AnyRecord)]
    /\ \A t \in Kept : NoIds[t] = << >> /\ ToSet(NoIds[t]) = {}
    /\ Idle.at = "idle" /\ Idle.todo = << >> /\ Idle.ids = NoIds /\ Idle.success = TRUE
    /\ ToSet(<< >>) = {}
<1>1. NoIds \in [Kept -> Seq(AnyRecord)] /\ \A t \in Kept : NoIds[t] = << >>
  BY DEF NoIds
<1>2. ToSet(<< >>) = {}
  BY DEF ToSet
<1>. QED
  BY <1>1, <1>2, StepsDiffer DEF Idle, Operation

\* The invariant holds initially.
LEMMA InitInvariant == Init => IInv
<1>. SUFFICES ASSUME Init PROVE IInv
  OBVIOUS
<1>1. \A r \in Ops : op[r] = Idle
  BY DEF Init
<1>2. OpTyped
  BY <1>1, IdleTyped DEF Init, OpTyped
<1>3. \A t \in Tables : store[t] = {}
  BY DEF Init
<1>4. StoreTyped
  BY <1>3, FS_EmptySet, StepsDiffer DEF Init, StoreTyped
<1>5. CountsTyped
  <2>1. MaxFaults \in Nat
    BY SeedingAssumption
  <2>2. late = {} /\ faults = 0 /\ disturbed = FALSE
    BY Zenon DEF Init
  <2>3. QED
    <3>1. faults \in 0..MaxFaults
      BY <2>1, <2>2
    <3>2. late \subseteq Late /\ disturbed \in BOOLEAN
      BY <2>2, Zenon
    <3>. QED
      BY <3>1, <3>2 DEF CountsTyped
<1>6. StoredTogether /\ StoredSound
  BY <1>3 DEF StoredTogether, StoredSound
<1>7. Sends /\ Alone /\ IdsExist /\ ClearsInOrder
  BY <1>1, IdleTyped, StepsDiffer DEF Sends, Alone, IdsExist, ClearsInOrder, UnderWay
<1>8. LateIsSound
  BY DEF Init, LateIsSound
<1>. QED
  BY <1>2, <1>4, <1>5, <1>6, <1>7, <1>8 DEF IInv

\* A request that is not seeding goes on to another such step, and no message is
\* sent or executed.
LEMMA QuietInvariant ==
    ASSUME IInv, NEW r \in Ops, op[r].at \in {"idle", "clearing"},
           NEW o \in Operation, op' = [op EXCEPT ![r] = o],
           o.at \notin SendSteps, o.todo = << >>, o.ids = NoIds,
           StoreTyped', StoredTogether', StoredSound',
           \A m \in late' : m \in late \/ m \in [clear: Services],
           faults' \in 0..MaxFaults, disturbed' \in BOOLEAN, disturbed => disturbed',
           ~disturbed' => \A q \in Ops \ {r} : ~UnderWay(q),
           ClearsInOrder'
    PROVE  IInv'
<1>1. op \in [Ops -> Operation] /\ op' \in [Ops -> Operation]
  BY DEF IInv, OpTyped
<1>2. op'[r] = o /\ \A q \in Ops \ {r} : op'[q] = op[q]
  BY <1>1
<1>3. OpTyped'
  BY <1>1, <1>2, IdleTyped DEF IInv, OpTyped
<1>4. CountsTyped'
  BY DEF IInv, CountsTyped, Late
<1>5. Sends'
  <2>1. ASSUME NEW q \in Ops \ {r}
        PROVE  /\ op'[q].at \notin SendSteps => op'[q].todo = << >> /\ op'[q].ids = NoIds
               /\ op'[q].at \in SendSteps => ToSet(op'[q].todo) \subseteq Sendable(q, Table(q))'
    <3>1. op'[q].at \in SendSteps => disturbed'
      BY <1>2, StepsDiffer DEF UnderWay
    <3>2. op'[q].at \in SendSteps => Sendable(q, Table(q)) \subseteq Sendable(q, Table(q))'
      BY <1>2, <3>1 DEF Sendable, Together, Table, TableOf
    <3>. QED
      BY <1>2, <3>2 DEF IInv, Sends
  <2>. QED
    BY <1>2, <2>1 DEF Sends
<1>6. LateIsSound'
  <2>. SUFFICES ASSUME NEW m \in late', "table" \in DOMAIN m
                PROVE  /\ m.message \in Record(m.table)
                       /\ Together(m.table, m.message)
                       /\ op'[m.message.by].at \notin {"idle", "clearing", "start"}
                       /\ ~disturbed' /\ UnderWay(m.message.by)' => Sound(m.table, m.message)'
    BY DEF LateIsSound
  <2>1. m \in late
    OBVIOUS
  <2>2. /\ m.message \in Record(m.table) /\ Together(m.table, m.message)
        /\ op[m.message.by].at \notin {"idle", "clearing", "start"}
    BY <2>1 DEF IInv, LateIsSound
  <2>3. m \in Late /\ m.table \in Tables
    BY <2>1 DEF IInv, CountsTyped, Late
  <2>4. m.message.by \in Ops
    BY <2>2, <2>3, RecordTyped
  <2>. QED
    BY <1>2, <2>2, <2>4 DEF UnderWay
<1>7. Alone'
  BY <1>2 DEF Alone, UnderWay
<1>8. IdsExist'
  <2>. SUFFICES ASSUME ~disturbed', NEW q \in Ops, UnderWay(q)', NEW t \in Kept
                PROVE  ToSet(op'[q].ids[t]) \subseteq store'[t]
    BY DEF IdsExist
  <2>1. q = r
    BY <1>2 DEF UnderWay
  <2>. QED
    BY <1>2, <2>1, IdleTyped
<1>. QED
  BY <1>3, <1>4, <1>5, <1>6, <1>7, <1>8 DEF IInv

\* A request begins: it is alone, or the rest is disturbed.
LEMMA StartInvariant ==
    ASSUME IInv, NEW r \in Ops, seedAll(r) \/ clearAllData(r)
    PROVE  IInv'
<1>1. PICK seed \in BOOLEAN : \E steps \in {<< >>, ClearSteps} : start(r, seed, steps)
  BY DEF seedAll, clearAllData
<1>2. PICK steps \in {<< >>, ClearSteps} : start(r, seed, steps)
  BY <1>1
<1>. DEFINE at == IF steps = << >> THEN "start" ELSE "clearing"
            o == [Idle EXCEPT !.at = at, !.seed = seed, !.toClear = steps]
<1>3. /\ op[r] = Idle /\ op' = [op EXCEPT ![r] = o]
      /\ disturbed' = (disturbed \/ \E q \in Ops : UnderWay(q))
      /\ Fault \/ UNCHANGED faults
      /\ UNCHANGED <<store, late>>
  BY <1>2 DEF start
<1>4. steps \in Seq(Services) /\ at \in Steps /\ at \in {"start", "clearing"}
  <2>1. << >> \in Seq(Services)
    OBVIOUS
  <2>2. steps \in Seq(Services)
    BY <2>1, RankOfSteps
  <2>. QED
    BY <2>2, StepsDiffer
<1>. HIDE DEF at
<1>5. o \in Operation /\ o.at = at /\ o.todo = << >> /\ o.ids = NoIds /\ o.toClear = steps
  BY <1>4, IdleTyped DEF Operation
<1>. HIDE DEF o
<1>6. op \in [Ops -> Operation] /\ op'[r] = o /\ \A q \in Ops \ {r} : op'[q] = op[q]
  BY <1>3, <1>5 DEF IInv, OpTyped
<1>7. disturbed' \in BOOLEAN /\ (disturbed => disturbed')
      /\ (~disturbed' => \A q \in Ops : ~UnderWay(q))
  BY <1>3
<1>8. faults' \in 0..MaxFaults
  BY <1>3, SeedingAssumption DEF Fault, IInv, CountsTyped
<1>9. StoreTyped' /\ StoredTogether' /\ StoredSound'
  BY <1>3, <1>7 DEF IInv, StoreTyped, StoredTogether, Together, StoredSound, Sound
<1>10. ClearsInOrder'
  <2>. SUFFICES ASSUME NEW q \in Ops, op'[q].at = "clearing"
                PROVE  \E done \in 0..6 :
                         Rest(op'[q].toClear, done) /\ (~disturbed' => EmptyUpTo(done)')
    BY DEF ClearsInOrder
  <2>1. CASE q = r
    <3>1. op'[q].toClear = ClearSteps
      BY <1>5, <1>6, <2>1 DEF at
    <3>2. Rest(ClearSteps, 0) /\ EmptyUpTo(0)'
      BY RankOfSteps DEF Rest, EmptyUpTo
    <3>. QED
      BY <3>1, <3>2
  <2>2. CASE q # r
    <3>1. op'[q] = op[q] /\ disturbed'
      BY <1>6, <1>7, <2>2 DEF UnderWay
    <3>. QED
      BY <3>1 DEF IInv, ClearsInOrder
  <2>. QED
    BY <2>1, <2>2
<1>. QED
  BY <1>3, <1>4, <1>5, <1>7, <1>8, <1>9, <1>10, IdleTyped, StepsDiffer, QuietInvariant

\* What is left to clear after one more service.
LEMMA ClearingFacts ==
    ASSUME IInv, NEW r \in Ops, op[r].at = "clearing"
    PROVE  /\ Tail(op[r].toClear) \in Seq(Services) /\ Head(op[r].toClear) \in Services
           /\ \E j \in 1..7 :
                /\ Head(op[r].toClear) = ClearSteps[j]
                /\ Tail(op[r].toClear) # << >> => Rest(Tail(op[r].toClear), j)
                /\ ~disturbed => EmptyUpTo(j - 1)
<1>. DEFINE steps == op[r].toClear
            rest == Tail(steps)
<1>1. steps \in Seq(Services)
  BY DEF IInv, OpTyped, Operation
<1>2. PICK done \in 0..6 : Rest(steps, done) /\ (~disturbed => EmptyUpTo(done))
  BY DEF IInv, ClearsInOrder
<1>. HIDE DEF steps
<1>3. steps # << >> /\ Len(steps) = 7 - done
  BY <1>2, EmptySeq DEF Rest
<1>4. /\ Head(steps) \in Services /\ Head(steps) = steps[1] /\ rest \in Seq(Services)
      /\ Len(rest) = Len(steps) - 1 /\ \A i \in 1..Len(rest) : rest[i] = steps[i + 1]
  BY <1>1, <1>3, HeadTailProperties
<1>. HIDE DEF rest
<1>5. Head(steps) = ClearSteps[done + 1]
  BY <1>2, <1>4 DEF Rest
<1>6. rest # << >> => Rest(rest, done + 1)
  <2>. SUFFICES ASSUME rest # << >> PROVE Rest(rest, done + 1)
    OBVIOUS
  <2>1. Len(rest) # 0
    BY <1>4, EmptySeq
  <2>2. done + 1 \in 0..6 /\ Len(rest) = 7 - (done + 1)
    BY <1>3, <1>4, <2>1
  <2>3. ASSUME NEW i \in 1..(7 - (done + 1)) PROVE rest[i] = ClearSteps[(done + 1) + i]
    <3>1. i + 1 \in 1..(7 - done) /\ rest[i] = steps[i + 1] /\ done + (i + 1) = (done + 1) + i
      BY <1>4, <2>2
    <3>. QED
      BY <1>2, <3>1 DEF Rest
  <2>. QED
    BY <2>2, <2>3 DEF Rest
<1>7. done + 1 \in 1..7 /\ (done + 1) - 1 = done
  OBVIOUS
<1>. QED
  BY <1>2, <1>4, <1>5, <1>6, <1>7 DEF steps, rest

\* The tables that are left when a service has cleared its own.
LEMMA WipedFacts ==
    ASSUME StoreTyped, StoredTogether, NEW s, store' = Wiped(s)
    PROVE  /\ StoreTyped' /\ StoredTogether'
           /\ \A t \in Tables : store'[t] = IF t \in Removes(s) THEN {} ELSE store[t]
<1>1. store \in [Tables -> SUBSET AnyRecord]
  BY DEF StoreTyped
<1>2. \A t \in Tables : store'[t] = IF t \in Removes(s) THEN {} ELSE store[t]
  BY DEF Wiped
<1>3. store' = [t \in Tables |-> store'[t]]
  BY DEF Wiped
<1>4. \A t \in Tables : store'[t] \subseteq AnyRecord
  BY <1>1, <1>2
<1>5. store' \in [Tables -> SUBSET AnyRecord]
  BY <1>3, <1>4
<1>6. StoreTyped'
  BY <1>2, <1>5, FS_EmptySet, StepsDiffer DEF StoreTyped
<1>7. StoredTogether'
  BY <1>2 DEF StoredTogether, Together
<1>. QED
  BY <1>2, <1>6, <1>7

\* A request that is clearing goes on.
LEMMA ClearedOp ==
    ASSUME IInv, NEW r \in Ops, op[r].at = "clearing", cleared(r)
    PROVE  \E o \in Operation :
             /\ op' = [op EXCEPT ![r] = o] /\ op'[r] = o
             /\ o.at \notin SendSteps /\ o.todo = << >> /\ o.ids = NoIds
             /\ o.toClear = Tail(op[r].toClear)
             /\ o.at = "clearing" => Tail(op[r].toClear) # << >>
<1>. DEFINE rest == Tail(op[r].toClear)
            at == IF rest # << >> THEN "clearing" ELSE IF op[r].seed THEN "start" ELSE "done"
            o == [op[r] EXCEPT !.toClear = rest, !.at = at]
<1>1. op \in [Ops -> Operation] /\ op[r] \in Operation
  BY DEF IInv, OpTyped
<1>2. rest \in Seq(Services)
  BY ClearingFacts
<1>3. op' = [op EXCEPT ![r] = o]
  BY <1>1 DEF cleared, Operation
<1>4. op[r].todo = << >> /\ op[r].ids = NoIds
  BY StepsDiffer DEF IInv, Sends
<1>5. at \in Steps \ SendSteps /\ (at = "clearing" => rest # << >>)
  BY StepsDiffer
<1>. HIDE DEF at, rest
<1>6. o \in Operation /\ o.at = at /\ o.todo = op[r].todo /\ o.ids = op[r].ids /\ o.toClear = rest
  BY <1>1, <1>2, <1>5 DEF Operation
<1>. HIDE DEF o
<1>7. op'[r] = o
  BY <1>1, <1>3
<1>. QED
  BY <1>3, <1>4, <1>5, <1>6, <1>7 DEF rest

\* A service is cleared: what refers to it was cleared before.
LEMMA ClearInvariant ==
    ASSUME IInv, NEW r \in Ops, clear(r)
    PROVE  IInv'
<1>. DEFINE steps == op[r].toClear
<1>1. op[r].at = "clearing" /\ store' = Wiped(Head(steps)) /\ cleared(r)
      /\ UNCHANGED <<late, faults, disturbed>>
  BY DEF clear
<1>2. PICK o \in Operation :
        /\ op' = [op EXCEPT ![r] = o] /\ op'[r] = o
        /\ o.at \notin SendSteps /\ o.todo = << >> /\ o.ids = NoIds
        /\ o.toClear = Tail(steps)
        /\ o.at = "clearing" => Tail(steps) # << >>
  BY <1>1, ClearedOp
<1>3. PICK j \in 1..7 :
        /\ Head(steps) = ClearSteps[j]
        /\ Tail(steps) # << >> => Rest(Tail(steps), j)
        /\ ~disturbed => EmptyUpTo(j - 1)
  BY <1>1, ClearingFacts
<1>4. ~disturbed => \A k \in 1..(j - 1) : \A t \in Removes(ClearSteps[k]) : store[t] = {}
  BY <1>3 DEF EmptyUpTo
<1>. HIDE DEF steps
<1>5. /\ StoreTyped' /\ StoredTogether'
      /\ \A t \in Tables : store'[t] = IF Rank[t] = j THEN {} ELSE store[t]
  BY <1>1, <1>3, WipedFacts, RankOfSteps DEF IInv
<1>6. ~disturbed => \A t \in Tables : Rank[t] < j => store[t] = {}
  <2>. SUFFICES ASSUME ~disturbed, NEW t \in Tables, Rank[t] < j PROVE store[t] = {}
    OBVIOUS
  <2>1. Rank[t] \in 1..(j - 1) /\ Rank[t] \in 1..7 /\ t \in Removes(ClearSteps[Rank[t]])
    BY <1>3, RankOfSteps
  <2>. QED
    BY <1>4, <2>1
<1>7. StoredSound'
  <2>. SUFFICES ASSUME ~disturbed', NEW t \in Tables, NEW x \in store'[t], t # "users",
                       NEW ref \in References(t, x)
                PROVE  ref[2] \in store'[ref[1]]
    BY DEF StoredSound, Sound
  <2>1. ~disturbed /\ x \in store[t] /\ ~(Rank[t] <= j)
    BY <1>1, <1>3, <1>5, <1>6, RankOfSteps
  <2>2. ref[2] \in store[ref[1]]
    BY <2>1 DEF IInv, StoredSound, Sound
  <2>3. ref[1] \in Tables /\ Rank[ref[1]] # j
    BY <1>3, <2>1, ReferencesRank, RankOfSteps
  <2>. QED
    BY <1>5, <2>2, <2>3
<1>8. ~disturbed' => \A q \in Ops \ {r} : ~UnderWay(q)
  BY <1>1 DEF IInv, Alone, UnderWay
<1>9. ClearsInOrder'
  <2>. SUFFICES ASSUME NEW q \in Ops, op'[q].at = "clearing"
                PROVE  \E done \in 0..6 :
                         Rest(op'[q].toClear, done) /\ (~disturbed' => EmptyUpTo(done)')
    BY DEF ClearsInOrder
  <2>1. CASE q = r
    <3>1. op'[q].toClear = Tail(steps) /\ Rest(Tail(steps), j)
      BY <1>2, <1>3, <2>1
    <3>2. ASSUME ~disturbed', NEW k \in 1..j, NEW t \in Removes(ClearSteps[k])
          PROVE  store'[t] = {}
      <4>1. k \in 1..7
        OBVIOUS
      <4>2. t \in Tables /\ Rank[t] = k
        BY <4>1, RankOfSteps
      <4>3. ~disturbed /\ (Rank[t] = j \/ Rank[t] < j)
        BY <1>1, <3>2, <4>2
      <4>. QED
        BY <1>5, <1>6, <4>2, <4>3
    <3>3. j \in 0..6
      BY <3>1 DEF Rest
    <3>. QED
      BY <3>1, <3>2, <3>3 DEF EmptyUpTo
  <2>2. CASE q # r
    <3>1. op'[q] = op[q]
      BY <1>2, <2>2 DEF IInv, OpTyped
    <3>2. disturbed'
      BY <1>8, <2>2, <3>1 DEF UnderWay
    <3>. QED
      BY <3>1, <3>2 DEF IInv, ClearsInOrder
  <2>. QED
    BY <2>1, <2>2
<1>10. faults' \in 0..MaxFaults /\ disturbed' \in BOOLEAN
  BY <1>1 DEF IInv, CountsTyped
<1>. QED
  BY <1>1, <1>2, <1>5, <1>7, <1>8, <1>9, <1>10, QuietInvariant

\* A clear that fails, or is late, disturbs.
LEMMA ClearFailsInvariant ==
    ASSUME IInv, NEW r \in Ops, clearFails(r)
    PROVE  IInv'
<1>. DEFINE steps == op[r].toClear
<1>1. /\ op[r].at = "clearing" /\ Fault /\ disturbed' = TRUE /\ UNCHANGED store
      /\ late' \in {late, late \cup {[clear |-> Head(steps)]}}
  BY DEF clearFails
<1>2. Head(steps) \in Services /\ (Tail(steps) # << >> => \E j \in 1..7 : Rest(Tail(steps), j))
  BY <1>1, ClearingFacts
<1>3. PICK o \in Operation :
        /\ op' = [op EXCEPT ![r] = o] /\ op'[r] = o
        /\ o.at \notin SendSteps /\ o.todo = << >> /\ o.ids = NoIds
        /\ o.at = "clearing" => Tail(steps) # << >> /\ o.toClear = Tail(steps)
  <2>1. CASE cleared(r)
    BY <1>1, <2>1, ClearedOp
  <2>2. CASE op' = [op EXCEPT ![r].at = "failed", ![r].toClear = << >>]
    <3>. DEFINE o == [op[r] EXCEPT !.at = "failed", !.toClear = << >>]
    <3>1. op \in [Ops -> Operation] /\ op[r] \in Operation
      BY DEF IInv, OpTyped
    <3>2. op' = [op EXCEPT ![r] = o]
      BY <2>2, <3>1 DEF Operation
    <3>3. op[r].todo = << >> /\ op[r].ids = NoIds
      BY <1>1, StepsDiffer DEF IInv, Sends
    <3>4. o \in Operation /\ o.at = "failed" /\ o.todo = op[r].todo /\ o.ids = op[r].ids
      <4>1. << >> \in Seq(Services) /\ "failed" \in Steps
        BY StepsDiffer
      <4>. QED
        BY <3>1, <4>1 DEF Operation
    <3>. HIDE DEF o
    <3>5. op'[r] = o
      BY <3>1, <3>2
    <3>. QED
      BY <3>2, <3>3, <3>4, <3>5, StepsDiffer
  <2>. QED
    BY <2>1, <2>2 DEF clearFails
<1>. HIDE DEF steps
<1>4. StoreTyped' /\ StoredTogether' /\ StoredSound'
  BY <1>1 DEF IInv, StoreTyped, StoredTogether, Together, StoredSound
<1>5. ASSUME NEW q \in Ops, op'[q].at = "clearing"
      PROVE  \E done \in 0..6 : Rest(op'[q].toClear, done)
  <2>1. CASE q = r
    <3>1. op'[q].toClear = Tail(steps) /\ \E j \in 1..7 : Rest(Tail(steps), j)
      BY <1>2, <1>3, <1>5, <2>1
    <3>. QED
      BY <3>1 DEF Rest
  <2>2. CASE q # r
    <3>1. op'[q] = op[q]
      BY <1>3, <2>2 DEF IInv, OpTyped
    <3>. QED
      BY <1>5, <3>1 DEF IInv, ClearsInOrder
  <2>. QED
    BY <2>1, <2>2
<1>6. ClearsInOrder'
  BY <1>1, <1>5 DEF ClearsInOrder
<1>7. faults' \in 0..MaxFaults
  BY <1>1, SeedingAssumption DEF Fault, IInv, CountsTyped
<1>8. \A m \in late' : m \in late \/ m \in [clear: Services]
  BY <1>1, <1>2
<1>. QED
  BY <1>1, <1>3, <1>4, <1>6, <1>7, <1>8, QuietInvariant

\* What is late is executed.
LEMMA LateInvariant ==
    ASSUME IInv, executeLate
    PROVE  IInv'
<1>1. PICK m \in late :
        /\ late' = late \ {m} /\ UNCHANGED <<op, faults>>
        /\ \/ store' = Wiped(m.clear) /\ disturbed' = TRUE
           \/ /\ "table" \in DOMAIN m
              /\ ~Refused(m.table, m.message) /\ Executes(m.table, m.message)
              /\ disturbed' = (disturbed \/ ~UnderWay(m.message.by))
  BY DEF executeLate
<1>. DEFINE t == m.table
            x == m.message
<1>2. ASSUME "table" \in DOMAIN m
      PROVE  /\ t \in Tables /\ x \in Record(t) /\ x.by \in Ops
             /\ Together(t, x) /\ op[x.by].at \notin {"idle", "clearing", "start"}
             /\ ~disturbed /\ UnderWay(x.by) => Sound(t, x)
  <2>1. /\ x \in Record(t) /\ Together(t, x) /\ op[x.by].at \notin {"idle", "clearing", "start"}
        /\ ~disturbed /\ UnderWay(x.by) => Sound(t, x)
    BY <1>2 DEF IInv, LateIsSound
  <2>2. m \in Late
    BY DEF IInv, CountsTyped
  <2>3. t \in Tables
    BY <1>2, <2>2 DEF Late
  <2>. QED
    BY <2>1, <2>3, RecordTyped
<1>3. /\ StoreTyped' /\ StoredTogether' /\ StoredSound'
      /\ ~disturbed' => \A u \in Tables : store[u] \subseteq store'[u]
  <2>1. CASE store' = Wiped(m.clear) /\ disturbed' = TRUE
    BY <2>1, WipedFacts DEF IInv, StoredSound
  <2>2. CASE /\ "table" \in DOMAIN m
             /\ ~Refused(t, x) /\ Executes(t, x)
             /\ disturbed' = (disturbed \/ ~UnderWay(x.by))
    <3>. HIDE DEF t, x
    <3>1. ~disturbed' => ~disturbed /\ Sound(t, x)
      BY <1>2, <2>2
    <3>. QED
      BY <1>2, <2>2, <3>1, ExecutesFacts DEF IInv
  <2>. QED
    BY <1>1, <2>1, <2>2
<1>4. disturbed' \in BOOLEAN /\ (disturbed => disturbed')
  BY <1>1
<1>5. ~disturbed' => \E q \in Ops : UnderWay(q) /\ op[q].at # "clearing"
  BY <1>1, <1>2
<1>. HIDE DEF t, x
<1>6. OpTyped' /\ Alone'
  BY <1>1, <1>4 DEF IInv, OpTyped, Alone, UnderWay
<1>7. CountsTyped'
  BY <1>1, <1>4 DEF IInv, CountsTyped
<1>8. Sends'
  <2>1. ASSUME NEW r \in Ops, op[r].at \in SendSteps
        PROVE  Sendable(r, Table(r)) \subseteq Sendable(r, Table(r))'
    <3>1. Table(r) \in Tables /\ Table(r)' = Table(r)
      BY <1>1, <2>1, TableTyped DEF Table
    <3>2. \A u \in Tables : Sendable(r, u) \subseteq Sendable(r, u)'
      BY <1>3, <1>4, SendableStays
    <3>. QED
      BY <3>1, <3>2
  <2>. QED
    BY <1>1, <2>1 DEF IInv, Sends
<1>9. LateIsSound'
  <2>. SUFFICES ASSUME NEW d \in late', "table" \in DOMAIN d
                PROVE  /\ d.message \in Record(d.table)
                       /\ Together(d.table, d.message)
                       /\ op'[d.message.by].at \notin {"idle", "clearing", "start"}
                       /\ ~disturbed' /\ UnderWay(d.message.by)' => Sound(d.table, d.message)'
    BY DEF LateIsSound
  <2>1. d \in late
    BY <1>1
  <2>2. /\ d.message \in Record(d.table) /\ Together(d.table, d.message)
        /\ op[d.message.by].at \notin {"idle", "clearing", "start"}
        /\ ~disturbed /\ UnderWay(d.message.by) => Sound(d.table, d.message)
    BY <2>1 DEF IInv, LateIsSound
  <2>3. d \in Late /\ d.table \in Tables
    BY <2>1 DEF IInv, CountsTyped, Late
  <2>4. ~disturbed' /\ Sound(d.table, d.message) => Sound(d.table, d.message)'
    BY <1>3, <2>3, SoundStays
  <2>. QED
    BY <1>1, <1>4, <2>2, <2>4 DEF UnderWay
<1>10. IdsExist'
  <2>. SUFFICES ASSUME ~disturbed', NEW q \in Ops, UnderWay(q), NEW u \in Kept
                PROVE  ToSet(op[q].ids[u]) \subseteq store'[u]
    BY <1>1 DEF IdsExist, UnderWay
  <2>1. ToSet(op[q].ids[u]) \subseteq store[u]
    BY <1>4 DEF IInv, IdsExist
  <2>. QED
    BY <1>3, <2>1, StepsDiffer
<1>11. ClearsInOrder'
  <2>. SUFFICES ASSUME NEW q \in Ops, op[q].at = "clearing"
                PROVE  disturbed'
    BY <1>1, <1>4 DEF IInv, ClearsInOrder
  <2>. QED
    BY <1>4, <1>5 DEF IInv, Alone, UnderWay
<1>. QED
  BY <1>3, <1>6, <1>7, <1>8, <1>9, <1>10, <1>11 DEF IInv

-----------------------------------------------------------------------------
(***************************************************************************)
(* The steps of the seeders.                                               *)
(***************************************************************************)

\* A sequence of members of a set that are members of another.
LEMMA SeqOfMembers ==
    ASSUME NEW S, NEW T, NEW s \in Seq(S), ToSet(s) \subseteq T
    PROVE  s \in Seq(T)
<1>1. Len(s) \in Nat /\ DOMAIN s = 1..Len(s)
  BY LenProperties
<1>2. \A i \in 1..Len(s) : s[i] \in T
  BY <1>1 DEF ToSet
<1>. QED
  BY <1>2, IsASeq, LenProperties

\* A record that a request knows.
Known(t) == {x \in Record(t) : ~disturbed => x \in store[t]}

\* The ids of a request are such records.
LEMMA KnownIds ==
    ASSUME IInv, NEW r \in Ops, UnderWay(r), NEW t \in Kept
    PROVE  op[r].ids[t] \in Seq(Known(t))
<1>1. op[r].ids[t] \in Seq(AnyRecord)
  BY DEF IInv, OpTyped, Operation
<1>2. ToSet(op[r].ids[t]) \subseteq Known(t)
  BY DEF IInv, OpTyped, IdsExist, Known
<1>. QED
  BY <1>1, <1>2, SeqOfMembers

\* What is chosen among the records that are known is known.
LEMMA FirstKnown ==
    ASSUME NEW T, NEW s \in Seq(T)
    PROVE  First(s) = None \/ First(s) \in T
  BY HeadTailProperties DEF First

\* a term by its name,
LEMMA TermKnown ==
    ASSUME IInv, NEW r \in Ops, UnderWay(r), NEW key
    PROVE  Term(r, key) = None \/ (Term(r, key) \in Known("terms") /\ Term(r, key).key = key)
<1>. DEFINE terms == op[r].ids.terms
            P == {i \in DOMAIN terms : terms[i].key = key}
<1>1. terms \in Seq(Known("terms"))
  BY KnownIds DEF Kept
<1>2. Term(r, key) = IF P = {} THEN None ELSE terms[Min(P)]
  BY DEF Term, Find
<1>. HIDE DEF terms
<1>3. (P = {} /\ Term(r, key) = None) \/ \E i \in P : Term(r, key) = terms[i]
  <2>. DEFINE Q == P
  <2>1. Q \in SUBSET DOMAIN terms /\ Q = P
    OBVIOUS
  <2>2. Term(r, key) = IF Q = {} THEN None ELSE terms[Min(Q)]
    BY <1>2
  <2>. HIDE DEF Q
  <2>3. Q # {} => Min(Q) \in Q
    BY <1>1, <2>1, FirstPlace
  <2>. QED
    BY <2>1, <2>2, <2>3
<1>4. \A i \in P : terms[i] \in Known("terms") /\ terms[i].key = key
  BY <1>1
<1>. QED
  BY <1>3, <1>4

\* a course by its code,
LEMMA CourseKnown ==
    ASSUME IInv, NEW r \in Ops, UnderWay(r), NEW code
    PROVE  Course(r, code) = None \/ (Course(r, code) \in Known("courses"))
<1>. DEFINE courses == op[r].ids.courses
            P == {i \in DOMAIN courses : courses[i].key = code}
<1>1. courses \in Seq(Known("courses"))
  BY KnownIds DEF Kept
<1>2. Course(r, code) = IF P = {} THEN None ELSE courses[Min(P)]
  BY DEF Course, Find
<1>. HIDE DEF courses
<1>3. (P = {} /\ Course(r, code) = None) \/ \E i \in P : Course(r, code) = courses[i]
  <2>. DEFINE Q == P
  <2>1. Q \in SUBSET DOMAIN courses /\ Q = P
    OBVIOUS
  <2>2. Course(r, code) = IF Q = {} THEN None ELSE courses[Min(Q)]
    BY <1>2
  <2>. HIDE DEF Q
  <2>3. Q # {} => Min(Q) \in Q
    BY <1>1, <2>1, FirstPlace
  <2>. QED
    BY <2>1, <2>2, <2>3
<1>4. \A i \in P : courses[i] \in Known("courses")
  BY <1>1
<1>. QED
  BY <1>3, <1>4

\* and the first student.
LEMMA StudentKnown ==
    ASSUME IInv, NEW r \in Ops, UnderWay(r)
    PROVE  FirstStudent(r) = None \/ (FirstStudent(r) \in Known("users") /\ FirstStudent(r).student)
<1>. DEFINE users == op[r].ids.users
            P == {i \in DOMAIN users : users[i].student}
<1>1. users \in Seq(Known("users"))
  BY KnownIds DEF Kept
<1>2. FirstStudent(r) = IF P = {} THEN None ELSE users[Min(P)]
  BY DEF FirstStudent, Find
<1>. HIDE DEF users
<1>3. (P = {} /\ FirstStudent(r) = None) \/ \E i \in P : FirstStudent(r) = users[i]
  <2>. DEFINE Q == P
  <2>1. Q \in SUBSET DOMAIN users /\ Q = P
    OBVIOUS
  <2>2. FirstStudent(r) = IF Q = {} THEN None ELSE users[Min(Q)]
    BY <1>2
  <2>. HIDE DEF Q
  <2>3. Q # {} => Min(Q) \in Q
    BY <1>1, <2>1, FirstPlace
  <2>. QED
    BY <2>1, <2>2, <2>3
<1>4. \A i \in P : users[i] \in Known("users") /\ users[i].student
  BY <1>1
<1>. QED
  BY <1>3, <1>4

\* What is stored is known to those who list it.
LEMMA ListedKnown ==
    ASSUME IInv, NEW t \in Tables
    PROVE  SetToSeq(store[t]) \in Seq(Known(t)) /\ << >> \in Seq(Known(t))
<1>1. store[t] \subseteq Known(t) /\ IsFiniteSet(store[t])
  BY DEF IInv, StoreTyped, Known
<1>2. SetToSeq(store[t]) \in Seq(store[t]) /\ ToSet(SetToSeq(store[t])) \subseteq store[t]
  BY <1>1, Listed
<1>3. SetToSeq(store[t]) \in Seq(Known(t))
  BY <1>1, <1>2, SeqOfMembers
<1>. QED
  BY <1>3

\* The records that the seeders compute may be sent.
LEMMA StaffSendable ==
    ASSUME NEW r \in Ops, NEW email \in ToSet(Staff)
    PROVE  [key |-> email, student |-> FALSE, plan |-> None, by |-> r] \in Sendable(r, "users")
<1>. DEFINE m == [key |-> email, student |-> FALSE, plan |-> None, by |-> r]
<1>1. m \in Record("users")
  BY DEF Record, UserRecord
<1>2. Sound("users", m)
  BY DEF Sound
<1>3. Together("users", m)
  BY DEF Together
<1>. QED
  BY <1>1, <1>2, <1>3 DEF Sendable

\* A student refers to a study plan, which may be gone.
LEMMA StudentSendable ==
    ASSUME NEW r \in Ops, NEW email \in ToSet(Students), NEW plan \in Known("plans")
    PROVE  [key |-> email, student |-> TRUE, plan |-> plan, by |-> r] \in Sendable(r, "users")
<1>. DEFINE m == [key |-> email, student |-> TRUE, plan |-> plan, by |-> r]
<1>1. m \in Record("users")
  BY DEF Record, UserRecord, Known
<1>2. Sound("users", m)
  BY DEF Sound
<1>3. Together("users", m)
  BY DEF Together
<1>. QED
  BY <1>1, <1>2, <1>3 DEF Sendable

\* The degree program refers to nothing.
LEMMA ProgramSendable ==
    ASSUME NEW r \in Ops
    PROVE  [key |-> Program, by |-> r] \in Sendable(r, "programs")
<1>. DEFINE m == [key |-> Program, by |-> r]
<1>1. m \in Record("programs")
  BY DEF Record, ProgramRecord
<1>2. ~disturbed => Sound("programs", m)
  <2>1. References("programs", m) = {}
    BY DEF References
  <2>. QED
    BY <2>1 DEF Sound
<1>3. Together("programs", m)
  BY DEF Together
<1>. QED
  BY <1>1, <1>2, <1>3 DEF Sendable

\* A study plan refers to a program that is known.
LEMMA PlanSendable ==
    ASSUME NEW r \in Ops, NEW program \in Known("programs")
    PROVE  [key |-> "2024", program |-> program, by |-> r] \in Sendable(r, "plans")
<1>. DEFINE m == [key |-> "2024", program |-> program, by |-> r]
<1>1. m \in Record("plans")
  BY DEF Record, PlanRecord, Known
<1>2. ~disturbed => Sound("plans", m)
  <2>1. References("plans", m) = {<<"programs", program>>}
    BY DEF References
  <2>. QED
    BY <2>1 DEF Sound, Known
<1>3. Together("plans", m)
  BY DEF Together
<1>. QED
  BY <1>1, <1>2, <1>3 DEF Sendable

\* A level refers to nothing.
LEMMA LevelSendable ==
    ASSUME NEW r \in Ops, NEW i \in 1..Levels
    PROVE  [key |-> i, by |-> r] \in Sendable(r, "levels")
<1>. DEFINE m == [key |-> i, by |-> r]
<1>1. m \in Record("levels")
  BY DEF Record, LevelRecord
<1>2. ~disturbed => Sound("levels", m)
  <2>1. References("levels", m) = {}
    BY DEF References
  <2>. QED
    BY <2>1 DEF Sound
<1>3. Together("levels", m)
  BY DEF Together
<1>. QED
  BY <1>1, <1>2, <1>3 DEF Sendable

\* A course refers to a plan and a level that are known.
LEMMA CourseSendable ==
    ASSUME NEW r \in Ops, NEW code \in Codes, NEW plan \in Known("plans"),
           NEW level \in Known("levels")
    PROVE  [key |-> code, plan |-> plan, level |-> level, by |-> r] \in Sendable(r, "courses")
<1>. DEFINE m == [key |-> code, plan |-> plan, level |-> level, by |-> r]
<1>1. m \in Record("courses")
  BY DEF Record, CourseRecord, Known
<1>2. ~disturbed => Sound("courses", m)
  <2>1. References("courses", m) = {<<"plans", plan>>, <<"levels", level>>}
    BY DEF References
  <2>. QED
    BY <2>1 DEF Sound, Known
<1>3. Together("courses", m)
  BY DEF Together
<1>. QED
  BY <1>1, <1>2, <1>3 DEF Sendable

\* A prerequisite refers to two courses that are known.
LEMMA PrerequisiteSendable ==
    ASSUME NEW r \in Ops, NEW pair \in ToSet(Prerequisites),
           NEW course \in Known("courses"), NEW required \in Known("courses")
    PROVE  [key |-> pair, course |-> course, requires |-> required, by |-> r]
             \in Sendable(r, "prerequisites")
<1>. DEFINE m == [key |-> pair, course |-> course, requires |-> required, by |-> r]
<1>1. m \in Record("prerequisites")
  BY DEF Record, PrerequisiteRecord, Known
<1>2. ~disturbed => Sound("prerequisites", m)
  <2>1. References("prerequisites", m) = {<<"courses", course>>, <<"courses", required>>}
    BY DEF References
  <2>. QED
    BY <2>1 DEF Sound, Known
<1>3. Together("prerequisites", m)
  BY DEF Together
<1>. QED
  BY <1>1, <1>2, <1>3 DEF Sendable

\* An academic year refers to nothing.
LEMMA YearSendable ==
    ASSUME NEW r \in Ops, NEW y \in ToSet(Years)
    PROVE  [key |-> y, by |-> r] \in Sendable(r, "years")
<1>. DEFINE m == [key |-> y, by |-> r]
<1>1. m \in Record("years")
  BY DEF Record, YearRecord
<1>2. ~disturbed => Sound("years", m)
  <2>1. References("years", m) = {}
    BY DEF References
  <2>. QED
    BY <2>1 DEF Sound
<1>3. Together("years", m)
  BY DEF Together
<1>. QED
  BY <1>1, <1>2, <1>3 DEF Sendable

\* A term refers to a year that is known.
LEMMA TermSendable ==
    ASSUME NEW r \in Ops, NEW date \in Dates, NEW year \in Known("years")
    PROVE  [key |-> date, year |-> year, by |-> r] \in Sendable(r, "terms")
<1>. DEFINE m == [key |-> date, year |-> year, by |-> r]
<1>1. m \in Record("terms")
  BY DEF Record, TermRecord, Known
<1>2. ~disturbed => Sound("terms", m)
  <2>1. References("terms", m) = {<<"years", year>>}
    BY DEF References
  <2>. QED
    BY <2>1 DEF Sound, Known
<1>3. Together("terms", m)
  BY DEF Together
<1>. QED
  BY <1>1, <1>2, <1>3 DEF Sendable

\* A classroom refers to nothing.
LEMMA ClassroomSendable ==
    ASSUME NEW r \in Ops, NEW code \in ToSet(Classrooms)
    PROVE  [key |-> code, by |-> r] \in Sendable(r, "classrooms")
<1>. DEFINE m == [key |-> code, by |-> r]
<1>1. m \in Record("classrooms")
  BY DEF Record, ClassroomRecord
<1>2. ~disturbed => Sound("classrooms", m)
  <2>1. References("classrooms", m) = {}
    BY DEF References
  <2>. QED
    BY <2>1 DEF Sound
<1>3. Together("classrooms", m)
  BY DEF Together
<1>. QED
  BY <1>1, <1>2, <1>3 DEF Sendable

\* A section refers to a known course, of the level of its term.
LEMMA SectionSendable ==
    ASSUME NEW r \in Ops, NEW course \in Known("courses"), NEW term \in Known("terms"),
           NEW p \in ToSet(Plan), term.key = p.term, course.level.key = p.level
    PROVE  [course |-> course, term |-> term, by |-> r] \in Sendable(r, "sections")
<1>. DEFINE m == [course |-> course, term |-> term, by |-> r]
<1>1. m \in Record("sections")
  BY DEF Record, SectionRecord, Known
<1>2. ~disturbed => Sound("sections", m)
  <2>1. References("sections", m) = {<<"courses", course>>, <<"terms", term>>}
    BY DEF References
  <2>. QED
    BY <2>1 DEF Sound, Known
<1>3. Together("sections", m)
  BY DEF Together
<1>. QED
  BY <1>1, <1>2, <1>3 DEF Sendable

\* A schedule refers to a section that was listed.
LEMMA ScheduleSendable ==
    ASSUME NEW r \in Ops, NEW i \in 1..Slots, NEW section \in Known("sections")
    PROVE  [key |-> i, section |-> section, by |-> r] \in Sendable(r, "schedules")
<1>. DEFINE m == [key |-> i, section |-> section, by |-> r]
<1>1. m \in Record("schedules")
  BY DEF Record, ScheduleRecord, Known
<1>2. ~disturbed => Sound("schedules", m)
  <2>1. References("schedules", m) = {<<"sections", section>>}
    BY DEF References
  <2>. QED
    BY <2>1 DEF Sound, Known
<1>3. Together("schedules", m)
  BY DEF Together
<1>. QED
  BY <1>1, <1>2, <1>3 DEF Sendable

\* An enrollment is one of a known student in a known term.
LEMMA EnrollmentSendable ==
    ASSUME NEW r \in Ops, NEW student \in Known("users"), student.student,
           NEW term \in Known("terms")
    PROVE  [student |-> student, term |-> term, by |-> r] \in Sendable(r, "enrollments")
<1>. DEFINE m == [student |-> student, term |-> term, by |-> r]
<1>1. m \in Record("enrollments")
  BY DEF Record, EnrollmentRecord, Known
<1>2. ~disturbed => Sound("enrollments", m)
  <2>1. References("enrollments", m) = {<<"users", student>>, <<"terms", term>>}
    BY DEF References
  <2>. QED
    BY <2>1 DEF Sound, Known
<1>3. Together("enrollments", m)
  BY DEF Together
<1>. QED
  BY <1>1, <1>2, <1>3 DEF Sendable

\* A detail joins an enrollment with a listed section of its term.
LEMMA DetailSendable ==
    ASSUME NEW r \in Ops, NEW enrollment \in Known("enrollments"), NEW section \in Known("sections"),
           enrollment.term = section.term
    PROVE  [enrollment |-> enrollment, section |-> section, by |-> r] \in Sendable(r, "details")
<1>. DEFINE m == [enrollment |-> enrollment, section |-> section, by |-> r]
<1>1. m \in Record("details")
  BY DEF Record, DetailRecord, Known
<1>2. ~disturbed => Sound("details", m)
  <2>1. References("details", m) = {<<"enrollments", enrollment>>, <<"sections", section>>}
    BY DEF References
  <2>. QED
    BY <2>1 DEF Sound, Known
<1>3. Together("details", m)
  BY DEF Together
<1>. QED
  BY <1>1, <1>2, <1>3 DEF Sendable

\* A grade refers to the section of a detail, which exists with it.
LEMMA GradeSendable ==
    ASSUME IInv, NEW r \in Ops, NEW student \in Known("users"), NEW detail \in Known("details")
    PROVE  [student |-> student, section |-> detail.section, by |-> r] \in Sendable(r, "grades")
<1>. DEFINE section == detail.section
            m == [student |-> student, section |-> section, by |-> r]
<1>1. section \in Known("sections")
  <2>1. detail \in DetailRecord /\ section \in SectionRecord
    BY DEF Known, Record, DetailRecord
  <2>2. ~disturbed => Sound("details", detail)
    BY DEF Known, Tables, IInv, StoredSound
  <2>3. <<"sections", section>> \in References("details", detail)
    BY DEF References
  <2>4. ~disturbed => section \in store["sections"]
    BY <2>2, <2>3 DEF Sound
  <2>5. section \in Record("sections")
    BY <2>1 DEF Record
  <2>. QED
    BY <2>4, <2>5 DEF Known
<1>. HIDE DEF section
<1>2. m \in Record("grades")
  BY <1>1 DEF Record, GradeRecord, Known
<1>3. ~disturbed => Sound("grades", m)
  <2>1. References("grades", m) = {<<"users", student>>, <<"sections", section>>}
    BY DEF References
  <2>. QED
    BY <1>1, <2>1 DEF Sound, Known
<1>4. Together("grades", m)
  BY DEF Together
<1>. QED
  BY <1>2, <1>3, <1>4 DEF Sendable, section

\* The next state of a request whose seeder goes on, or whose next seeder begins.
LEMMA SeederOp ==
    ASSUME OpTyped, NEW r \in Ops, NEW step \in Steps, NEW messages \in Seq(AnyRecord),
           \/ op' = [op EXCEPT ![r].at = step, ![r].todo = messages]
           \/ \E error \in BOOLEAN : begin(r, step, messages, error)
    PROVE  \E o \in Operation : /\ op' = [op EXCEPT ![r] = o]
                                /\ o.at = step /\ o.todo = messages /\ o.ids = op[r].ids
<1>. DEFINE success == Result(op[r])
<1>1. op \in [Ops -> Operation] /\ op[r] \in Operation /\ success \in BOOLEAN
  BY DEF OpTyped, Result
<1>2. CASE op' = [op EXCEPT ![r].at = step, ![r].todo = messages]
  <2>. DEFINE o == [op[r] EXCEPT !.at = step, !.todo = messages]
  <2>1. op' = [op EXCEPT ![r] = o]
    BY <1>1, <1>2 DEF Operation
  <2>2. o \in Operation /\ o.at = step /\ o.todo = messages /\ o.ids = op[r].ids
    BY <1>1 DEF Operation
  <2>. QED
    BY <2>1, <2>2
<1>3. ASSUME NEW error \in BOOLEAN, begin(r, step, messages, error)
      PROVE  \E o \in Operation : /\ op' = [op EXCEPT ![r] = o]
                                  /\ o.at = step /\ o.todo = messages /\ o.ids = op[r].ids
  <2>. DEFINE o == [op[r] EXCEPT !.at = step, !.todo = messages, !.errors = error,
                                 !.counted = 0, !.success = success]
  <2>1. op' = [op EXCEPT ![r] = o]
    BY <1>1, <1>3 DEF begin, Operation
  <2>. HIDE DEF success
  <2>2. o \in Operation /\ o.at = step /\ o.todo = messages /\ o.ids = op[r].ids
    BY <1>1 DEF Operation
  <2>. QED
    BY <2>1, <2>2
<1>. QED
  BY <1>2, <1>3

\* A seeder whose messages may be sent keeps the invariant.
LEMMA SeederInvariant ==
    ASSUME IInv, NEW r \in Ops, op[r].at \in SendSteps \cup {"start"},
           NEW step \in SendSteps, NEW messages \in Seq(Sendable(r, TableOf(step))),
           \/ op' = [op EXCEPT ![r].at = step, ![r].todo = messages]
           \/ \E error \in BOOLEAN : begin(r, step, messages, error),
           UNCHANGED <<store, late, disturbed>>, faults' \in 0..MaxFaults
    PROVE  IInv'
<1>1. TableOf(step) \in Tables
  BY TableTyped
<1>2. messages \in Seq(AnyRecord) /\ ToSet(messages) \subseteq Sendable(r, TableOf(step))
  <2>1. ToSet(messages) \subseteq Sendable(r, TableOf(step))
    BY Elements
  <2>2. Sendable(r, TableOf(step)) \subseteq AnyRecord
    BY <1>1, RecordTyped DEF Sendable
  <2>. QED
    BY <2>1, <2>2, SeqOfMembers
<1>3. PICK o \in Operation :
        /\ op' = [op EXCEPT ![r] = o]
        /\ o.at = step /\ o.todo = messages /\ o.ids = op[r].ids
  BY <1>2, SeederOp, StepsDiffer DEF IInv
<1>5. /\ StoreTyped' /\ StoredTogether' /\ StoredSound'
      /\ \A t \in Tables : store[t] \subseteq store'[t]
  BY DEF IInv, StoreTyped, StoredTogether, Together, StoredSound, Sound
<1>6. ToSet(o.todo) \subseteq Sendable(r, TableOf(o.at))'
  BY <1>1, <1>2, <1>3, <1>5, SendableStays
<1>7. \A t \in Kept : /\ ToSet(o.ids[t]) \subseteq Record(t)
                      /\ ~disturbed => ToSet(o.ids[t]) \subseteq store'[t]
  <2>1. UnderWay(r)
    BY StepsDiffer DEF UnderWay
  <2>. QED
    BY <1>3, <2>1 DEF IInv, OpTyped, IdsExist
<1>. QED
  BY <1>3, <1>5, <1>6, <1>7, StepsDiffer, StepInvariant

\* Quietly keeps the count of faults.
LEMMA QuietFaults ==
    IInv /\ Quietly => faults' \in 0..MaxFaults /\ UNCHANGED <<store, late, disturbed>>
  BY DEF Quietly, IInv, CountsTyped

\* createStaff keeps the invariant.
LEMMA StaffInvariant ==
    ASSUME IInv, NEW r \in Ops, createStaff(r)
    PROVE  IInv'
<1>. DEFINE user(email) == [key |-> email, student |-> FALSE, plan |-> None, by |-> r]
            messages == [i \in DOMAIN Staff |-> user(Staff[i])]
<1>1. /\ op[r].at = "start" /\ op' = [op EXCEPT ![r].at = "staff", ![r].todo = messages] /\ Quietly
  BY DEF createStaff, ForEach, At, goOn, Quietly
<1>2. Staff \in Seq(ToSet(Staff))
  BY SeedingAssumption
<1>3. messages \in [DOMAIN Staff -> Sendable(r, "users")]
  BY StaffSendable DEF ToSet
<1>. HIDE DEF messages
<1>4. messages \in Seq(Sendable(r, "users"))
  BY <1>2, <1>3, Mapped
<1>5. "staff" \in SendSteps /\ TableOf("staff") = "users"
  BY DEF SendSteps, TableOf
<1>. QED
  BY <1>1, <1>4, <1>5, QuietFaults, SeederInvariant

\* createCourses: nothing without levels or a plan.
LEMMA CoursesInvariant ==
    ASSUME IInv, NEW r \in Ops, createCourses(r)
    PROVE  IInv'
<1>. DEFINE plan == First(op[r].ids.plans)
            levels == op[r].ids.levels
            course(level, code) == [key |-> code, plan |-> plan, level |-> level, by |-> r]
            ofLevel(level) == [i \in DOMAIN Courses[level.key] |-> course(level, Courses[level.key][i])]
            lists == [i \in DOMAIN levels |-> ofLevel(levels[i])]
            messages == IF plan = None THEN << >> ELSE FlattenSeq(lists)
<1>1. /\ op[r].at = "levels" /\ Quietly
      /\ \/ op' = [op EXCEPT ![r].at = "students", ![r].todo = << >>]
         \/ op' = [op EXCEPT ![r].at = "courses", ![r].todo = messages]
  BY DEF createCourses, ForEach, At, goOn, Quietly
<1>2. UnderWay(r) /\ "levels" \in SendSteps /\ {"plans", "levels"} \subseteq Kept
  BY <1>1 DEF UnderWay, SendSteps, Tables, Kept
<1>3. op[r].ids.plans \in Seq(Known("plans")) /\ levels \in Seq(Known("levels"))
  BY <1>2, KnownIds
<1>4. plan = None \/ plan \in Known("plans")
  BY <1>3, FirstKnown
<1>. HIDE DEF plan, levels
<1>5. ASSUME plan # None PROVE FlattenSeq(lists) \in Seq(Sendable(r, "courses"))
  <2>1. ASSUME NEW level \in Known("levels") PROVE ofLevel(level) \in Seq(Sendable(r, "courses"))
    <3>1. Courses[level.key] \in Seq(Codes)
      BY SeedingAssumption DEF Known, Record, LevelRecord
    <3>2. \A i \in DOMAIN Courses[level.key] : Courses[level.key][i] \in Codes
      BY <3>1
    <3>3. ofLevel(level) \in [DOMAIN Courses[level.key] -> Sendable(r, "courses")]
      BY <1>4, <1>5, <3>2, CourseSendable
    <3>. QED
      BY <3>1, <3>3, Mapped
  <2>2. \A i \in DOMAIN levels : levels[i] \in Known("levels")
    BY <1>3
  <2>. HIDE DEF ofLevel
  <2>3. lists \in [DOMAIN levels -> Seq(Sendable(r, "courses"))]
    BY <2>1, <2>2
  <2>. QED
    BY <1>3, <2>3, Flattened
<1>6. messages \in Seq(Sendable(r, "courses")) /\ << >> \in Seq(Sendable(r, "users"))
  BY <1>5
<1>7. {"courses", "students"} \subseteq SendSteps
      /\ TableOf("courses") = "courses" /\ TableOf("students") = "users"
  BY DEF SendSteps, Tables, TableOf
<1>. HIDE DEF messages
<1>. QED
  BY <1>1, <1>2, <1>6, <1>7, QuietFaults, SeederInvariant

\* The tables of the steps.
LEMMA StepTables ==
    /\ Tables \subseteq SendSteps /\ {"staff", "students"} \subseteq SendSteps
    /\ \A t \in Tables : TableOf(t) = t
    /\ TableOf("staff") = "users" /\ TableOf("students") = "users"
    /\ {"users", "programs", "plans", "levels", "courses", "prerequisites", "years", "terms",
        "classrooms", "sections", "schedules", "enrollments", "details", "grades"} \subseteq Tables
  BY DEF SendSteps, Tables, TableOf

\* A request that seeds is under way.
LEMMA AtUnderWay ==
    ASSUME NEW r, op[r].at \in SendSteps \cup {"start"}
    PROVE  UnderWay(r)
  BY StepsDiffer DEF UnderWay

\* createDegreePrograms.
LEMMA ProgramsInvariant ==
    ASSUME IInv, NEW r \in Ops, createDegreePrograms(r)
    PROVE  IInv'
<1>. DEFINE messages == <<[key |-> Program, by |-> r]>>
<1>1. op[r].at = "staff" /\ begin(r, "programs", messages, FALSE) /\ Quietly
  BY DEF createDegreePrograms, At
<1>2. messages \in Seq(Sendable(r, "programs"))
  BY ProgramSendable
<1>. HIDE DEF messages
<1>. QED
  BY <1>1, <1>2, StepTables, QuietFaults, SeederInvariant

\* createStudyPlans: one for each program that is known.
LEMMA PlansInvariant ==
    ASSUME IInv, NEW r \in Ops, createStudyPlans(r)
    PROVE  IInv'
<1>. DEFINE programs == op[r].ids.programs
            plan(program) == [key |-> "2024", program |-> program, by |-> r]
            messages == [i \in DOMAIN programs |-> plan(programs[i])]
<1>1. op[r].at = "programs" /\ op' = [op EXCEPT ![r].at = "plans", ![r].todo = messages] /\ Quietly
  BY DEF createStudyPlans, ForEach, At, goOn, Quietly
<1>2. programs \in Seq(Known("programs"))
  BY <1>1, StepTables, AtUnderWay, KnownIds DEF Kept
<1>. HIDE DEF programs
<1>3. messages \in [DOMAIN programs -> Sendable(r, "plans")]
  BY <1>2, PlanSendable
<1>. HIDE DEF messages
<1>4. messages \in Seq(Sendable(r, "plans"))
  BY <1>2, <1>3, Mapped
<1>. QED
  BY <1>1, <1>4, StepTables, QuietFaults, SeederInvariant

\* createLevels.
LEMMA LevelsInvariant ==
    ASSUME IInv, NEW r \in Ops, createLevels(r)
    PROVE  IInv'
<1>. DEFINE messages == [i \in 1..Levels |-> [key |-> i, by |-> r]]
<1>1. op[r].at = "plans" /\ op' = [op EXCEPT ![r].at = "levels", ![r].todo = messages] /\ Quietly
  BY DEF createLevels, At, goOn, Quietly
<1>2. messages \in [1..Levels -> Sendable(r, "levels")]
  BY LevelSendable
<1>. HIDE DEF messages
<1>3. Levels \in Nat
  BY SeedingAssumption
<1>4. messages \in Seq(Sendable(r, "levels"))
  BY <1>2, <1>3, IsASeq
<1>. QED
  BY <1>1, <1>4, StepTables, QuietFaults, SeederInvariant

\* createPrerequisites: only those of two courses that are known.
LEMMA PrerequisitesInvariant ==
    ASSUME IInv, NEW r \in Ops, createPrerequisites(r)
    PROVE  IInv'
<1>. DEFINE one(pair) == Course(r, pair[1])
            two(pair) == Course(r, pair[2])
            message(pair) == [key |-> pair, course |-> one(pair), requires |-> two(pair), by |-> r]
            ss == [i \in DOMAIN Prerequisites |->
                     IF one(Prerequisites[i]) # None /\ two(Prerequisites[i]) # None
                     THEN <<message(Prerequisites[i])>> ELSE << >>]
            messages == FlattenSeq(ss)
<1>1. op[r].at = "courses" /\ op' = [op EXCEPT ![r].at = "prerequisites", ![r].todo = messages]
      /\ Quietly
  BY DEF createPrerequisites, ForEachThat, At, goOn, Quietly
<1>2. \A code : Course(r, code) = None \/ Course(r, code) \in Known("courses")
  BY <1>1, StepTables, AtUnderWay, CourseKnown
<1>3. Prerequisites \in Seq(Codes \X Codes)
  BY SeedingAssumption
<1>4. ASSUME NEW i \in DOMAIN Prerequisites PROVE ss[i] \in Seq(Sendable(r, "prerequisites"))
  <2>1. Prerequisites[i] \in ToSet(Prerequisites)
    BY DEF ToSet
  <2>2. \/ one(Prerequisites[i]) \in Known("courses") /\ two(Prerequisites[i]) \in Known("courses")
        \/ ss[i] = << >>
    BY <1>2
  <2>. HIDE DEF one, two
  <2>3. CASE ss[i] = << >>
    BY <2>3
  <2>4. CASE ss[i] # << >>
    <3>1. message(Prerequisites[i]) \in Sendable(r, "prerequisites")
      BY <2>1, <2>2, <2>4, PrerequisiteSendable
    <3>2. ss[i] = <<message(Prerequisites[i])>>
      BY <2>4
    <3>. QED
      BY <3>1, <3>2, One
  <2>. QED
    BY <2>3, <2>4
<1>5. ss \in [DOMAIN Prerequisites -> Seq(Sendable(r, "prerequisites"))]
  BY <1>4
<1>. HIDE DEF ss
<1>7. messages \in Seq(Sendable(r, "prerequisites"))
  BY <1>3, <1>5, Flattened
<1>. HIDE DEF messages
<1>. QED
  BY <1>1, <1>7, StepTables, QuietFaults, SeederInvariant

\* createStudents: none without a plan.
LEMMA StudentsInvariant ==
    ASSUME IInv, NEW r \in Ops, createStudents(r)
    PROVE  IInv'
<1>. DEFINE plan == First(op[r].ids.plans)
            student(email) == [key |-> email, student |-> TRUE, plan |-> plan, by |-> r]
            list == [i \in DOMAIN Students |-> student(Students[i])]
            messages == IF plan = None THEN << >> ELSE list
<1>1. op[r].at = "prerequisites" /\ op' = [op EXCEPT ![r].at = "students", ![r].todo = messages]
      /\ Quietly
  BY DEF createStudents, ForEach, At, goOn, Quietly
<1>2. op[r].ids.plans \in Seq(Known("plans"))
  BY <1>1, StepTables, AtUnderWay, KnownIds DEF Kept
<1>3. plan = None \/ plan \in Known("plans")
  BY <1>2, FirstKnown
<1>. HIDE DEF plan
<1>4. Students \in Seq(ToSet(Students))
  BY SeedingAssumption
<1>5. ASSUME plan # None PROVE list \in Seq(Sendable(r, "users"))
  <2>1. list \in [DOMAIN Students -> Sendable(r, "users")]
    BY <1>3, <1>5, StudentSendable DEF ToSet
  <2>. HIDE DEF list
  <2>. QED
    BY <1>4, <2>1, Mapped
<1>. HIDE DEF list
<1>6. messages \in Seq(Sendable(r, "users"))
  BY <1>5
<1>. HIDE DEF messages
<1>. QED
  BY <1>1, <1>6, StepTables, QuietFaults, SeederInvariant

\* createAcademicYears.
LEMMA YearsInvariant ==
    ASSUME IInv, NEW r \in Ops, createAcademicYears(r)
    PROVE  IInv'
<1>. DEFINE messages == [i \in DOMAIN Years |-> [key |-> Years[i], by |-> r]]
<1>1. op[r].at = "students" /\ begin(r, "years", messages, FALSE) /\ Quietly
  BY DEF createAcademicYears, ForEach, At
<1>2. Years \in Seq(ToSet(Years))
  BY SeedingAssumption
<1>3. messages \in [DOMAIN Years -> Sendable(r, "years")]
  BY YearSendable DEF ToSet
<1>. HIDE DEF messages
<1>4. messages \in Seq(Sendable(r, "years"))
  BY <1>2, <1>3, Mapped
<1>. QED
  BY <1>1, <1>4, StepTables, QuietFaults, SeederInvariant

\* createTerms: those of the years that are known.
LEMMA TermsInvariant ==
    ASSUME IInv, NEW r \in Ops, createTerms(r)
    PROVE  IInv'
<1>. DEFINE years == op[r].ids.years
            ofYear(year) == [i \in DOMAIN Terms[year.key] |->
                               [key |-> Terms[year.key][i], year |-> year, by |-> r]]
            lists == [i \in DOMAIN years |-> ofYear(years[i])]
            messages == FlattenSeq(lists)
<1>1. op[r].at = "years" /\ op' = [op EXCEPT ![r].at = "terms", ![r].todo = messages] /\ Quietly
  BY DEF createTerms, ForEach, At, goOn, Quietly
<1>2. years \in Seq(Known("years"))
  BY <1>1, StepTables, AtUnderWay, KnownIds DEF Kept
<1>. HIDE DEF years
<1>3. ASSUME NEW year \in Known("years") PROVE ofYear(year) \in Seq(Sendable(r, "terms"))
  <2>1. Terms[year.key] \in Seq(Dates)
    BY SeedingAssumption DEF Known, Record, YearRecord
  <2>2. \A i \in DOMAIN Terms[year.key] : Terms[year.key][i] \in Dates
    BY <2>1
  <2>3. ofYear(year) \in [DOMAIN Terms[year.key] -> Sendable(r, "terms")]
    BY <2>2, TermSendable
  <2>. QED
    BY <2>1, <2>3, Mapped
<1>4. \A i \in DOMAIN years : years[i] \in Known("years")
  BY <1>2
<1>. HIDE DEF ofYear
<1>5. lists \in [DOMAIN years -> Seq(Sendable(r, "terms"))]
  BY <1>3, <1>4
<1>. HIDE DEF lists
<1>6. messages \in Seq(Sendable(r, "terms"))
  BY <1>2, <1>5, Flattened
<1>. HIDE DEF messages
<1>. QED
  BY <1>1, <1>6, StepTables, QuietFaults, SeederInvariant

\* createClassrooms.
LEMMA ClassroomsInvariant ==
    ASSUME IInv, NEW r \in Ops, createClassrooms(r)
    PROVE  IInv'
<1>. DEFINE messages == [i \in DOMAIN Classrooms |-> [key |-> Classrooms[i], by |-> r]]
<1>1. op[r].at = "terms" /\ op' = [op EXCEPT ![r].at = "classrooms", ![r].todo = messages] /\ Quietly
  BY DEF createClassrooms, ForEach, At, goOn, Quietly
<1>2. Classrooms \in Seq(ToSet(Classrooms))
  BY SeedingAssumption
<1>3. messages \in [DOMAIN Classrooms -> Sendable(r, "classrooms")]
  BY ClassroomSendable DEF ToSet
<1>. HIDE DEF messages
<1>4. messages \in Seq(Sendable(r, "classrooms"))
  BY <1>2, <1>3, Mapped
<1>. QED
  BY <1>1, <1>4, StepTables, QuietFaults, SeederInvariant

\* The sections a request plans are those it is about to send.
LEMMA SectionsMessages ==
    ASSUME IInv, NEW r \in Ops, createSections(r)
    PROVE  \E messages \in Seq(Sendable(r, "sections")) : \E error \in BOOLEAN :
             /\ op[r].at = "classrooms" /\ begin(r, "sections", messages, error) /\ Quietly
             /\ ~error => TermsKnown(r) /\ PlannedSections(r) \subseteq ToSet(messages)
<1>. DEFINE courses == op[r].ids.courses
            term(p) == Term(r, p.term)
            section(p, c) == [course |-> c, term |-> term(p), by |-> r]
            ss(p) == [i \in DOMAIN courses |-> IF courses[i].level.key = p.level
                                               THEN <<section(p, courses[i])>> ELSE << >>]
            sections(p) == IF term(p) = None THEN << >> ELSE FlattenSeq(ss(p))
            lists == [i \in DOMAIN Plan |-> sections(Plan[i])]
            messages == FlattenSeq(lists)
            error == op[r].ids.classrooms = << >> \/ \E p \in ToSet(Plan) : Term(r, p.term) = None
<1>1. op[r].at = "classrooms" /\ begin(r, "sections", messages, error) /\ Quietly
  BY DEF createSections, ForEach, ForEachThat, At
<1>2. UnderWay(r)
  BY <1>1, StepTables, AtUnderWay
<1>3. courses \in Seq(Known("courses"))
  BY <1>2, KnownIds DEF Kept
<1>4. \A p : term(p) = None \/ (term(p) \in Known("terms") /\ term(p).key = p.term)
  BY <1>2, TermKnown
<1>. HIDE DEF courses, term
<1>5. ASSUME NEW p \in ToSet(Plan)
      PROVE  /\ sections(p) \in Seq(Sendable(r, "sections"))
             /\ term(p) # None => \A c \in ToSet(courses) :
                  c.level.key = p.level => section(p, c) \in ToSet(sections(p))
  <2>1. CASE term(p) = None
    BY <2>1
  <2>2. CASE term(p) # None
    <3>1. ASSUME NEW i \in DOMAIN courses, courses[i].level.key = p.level
          PROVE  section(p, courses[i]) \in Sendable(r, "sections")
      BY <1>3, <1>4, <2>2, <3>1, SectionSendable
    <3>. HIDE DEF section
    <3>2. ASSUME NEW i \in DOMAIN courses PROVE ss(p)[i] \in Seq(Sendable(r, "sections"))
      BY <3>1, One
    <3>3. ss(p) \in [DOMAIN courses -> Seq(Sendable(r, "sections"))]
      BY <3>2
    <3>4. ASSUME NEW i \in DOMAIN courses, courses[i].level.key = p.level
          PROVE  section(p, courses[i]) \in ToSet(ss(p)[i])
      BY <3>1, <3>4, One
    <3>. HIDE DEF ss
    <3>5. /\ FlattenSeq(ss(p)) \in Seq(Sendable(r, "sections"))
          /\ \A x : x \in ToSet(FlattenSeq(ss(p))) <=> \E i \in DOMAIN courses : x \in ToSet(ss(p)[i])
      BY <1>3, <3>3, Flattened
    <3>6. \A c \in ToSet(courses) : \E i \in DOMAIN courses : c = courses[i]
      BY DEF ToSet
    <3>. QED
      BY <2>2, <3>4, <3>5, <3>6
  <2>. QED
    BY <2>1, <2>2
<1>6. Plan \in Seq(ToSet(Plan)) /\ \A i \in DOMAIN Plan : Plan[i] \in ToSet(Plan)
  BY SeedingAssumption DEF ToSet
<1>. HIDE DEF sections, section
<1>7. lists \in [DOMAIN Plan -> Seq(Sendable(r, "sections"))]
  BY <1>5, <1>6
<1>8. \A i \in DOMAIN Plan : lists[i] = sections(Plan[i])
  OBVIOUS
<1>. HIDE DEF lists
<1>9. /\ messages \in Seq(Sendable(r, "sections"))
      /\ \A x : x \in ToSet(messages) <=> \E i \in DOMAIN Plan : x \in ToSet(lists[i])
  BY <1>6, <1>7, Flattened
<1>. HIDE DEF messages
<1>10. ~error => TermsKnown(r)
  BY DEF TermsKnown
<1>11. ASSUME ~error PROVE PlannedSections(r) \subseteq ToSet(messages)
  <2>. SUFFICES ASSUME NEW p \in ToSet(Plan), NEW c \in ToSet(courses), c.level.key = p.level
                PROVE  section(p, c) \in ToSet(messages)
    BY DEF PlannedSections, section, courses, term
  <2>1. PICK i \in DOMAIN Plan : p = Plan[i]
    BY DEF ToSet
  <2>2. section(p, c) \in ToSet(sections(p))
    BY <1>5, <1>10, <1>11 DEF TermsKnown, term
  <2>. QED
    BY <1>8, <1>9, <2>1, <2>2
<1>12. error \in BOOLEAN
  OBVIOUS
<1>. HIDE DEF error
<1>. QED
  BY <1>1, <1>9, <1>10, <1>11, <1>12

\* createSections.
LEMMA SectionsInvariant ==
    ASSUME IInv, NEW r \in Ops, createSections(r)
    PROVE  IInv'
<1>1. PICK messages \in Seq(Sendable(r, "sections")) : \E error \in BOOLEAN :
        op[r].at = "classrooms" /\ begin(r, "sections", messages, error) /\ Quietly
  BY SectionsMessages
<1>. QED
  BY <1>1, StepTables, QuietFaults, SeederInvariant

\* A list that fails is counted.
LEMMA ListFacts ==
    ASSUME IInv, NEW t \in Tables, NEW listed \in {<< >>, SetToSeq(store[t])}, List(t, listed)
    PROVE  listed \in Seq(Known(t)) /\ faults' \in 0..MaxFaults
<1>1. listed \in Seq(Known(t))
  BY ListedKnown
<1>2. faults' \in 0..MaxFaults
  BY SeedingAssumption DEF List, Fault, IInv, CountsTyped
<1>. QED
  BY <1>1, <1>2

\* createSchedules: those of the sections that were listed.
LEMMA SchedulesInvariant ==
    ASSUME IInv, NEW r \in Ops, createSchedules(r)
    PROVE  IInv'
<1>. DEFINE schedule(s, i) == [key |-> i, section |-> s, by |-> r]
            ofSection(s) == [i \in 1..Slots |-> schedule(s, i)]
            lists(listed) == [i \in DOMAIN listed |-> ofSection(listed[i])]
<1>1. PICK listed \in {<< >>, SetToSeq(store["sections"])} :
        /\ op[r].at = "sections" /\ List("sections", listed)
        /\ begin(r, "schedules", FlattenSeq(lists(listed)), listed = << >>)
        /\ UNCHANGED <<store, late, disturbed>>
  BY DEF createSchedules, ForEach, At
<1>2. listed \in Seq(Known("sections")) /\ faults' \in 0..MaxFaults
  BY <1>1, StepTables, ListFacts
<1>3. ASSUME NEW s \in Known("sections") PROVE ofSection(s) \in Seq(Sendable(r, "schedules"))
  <2>1. ofSection(s) \in [1..Slots -> Sendable(r, "schedules")]
    BY ScheduleSendable
  <2>2. Slots \in Nat
    BY SeedingAssumption
  <2>. HIDE DEF ofSection
  <2>. QED
    BY <2>1, <2>2, IsASeq
<1>4. \A i \in DOMAIN listed : listed[i] \in Known("sections")
  BY <1>2
<1>. HIDE DEF ofSection
<1>5. lists(listed) \in [DOMAIN listed -> Seq(Sendable(r, "schedules"))]
  BY <1>3, <1>4
<1>. HIDE DEF lists
<1>6. FlattenSeq(lists(listed)) \in Seq(Sendable(r, "schedules"))
  BY <1>2, <1>5, Flattened
<1>7. (listed = << >>) \in BOOLEAN
  OBVIOUS
<1>. QED
  BY <1>1, <1>2, <1>6, <1>7, StepTables, SeederInvariant

\* The enrollments a request plans are those it is about to send.
LEMMA EnrollmentsMessages ==
    ASSUME IInv, NEW r \in Ops, createEnrollments(r)
    PROVE  \E messages \in Seq(Sendable(r, "enrollments")) : \E error \in BOOLEAN :
             /\ op[r].at = "schedules" /\ begin(r, "enrollments", messages, error) /\ Quietly
             /\ ~error => PlannedEnrollments(r) \subseteq ToSet(messages)
<1>. DEFINE term(p) == Term(r, p.term)
            student == FirstStudent(r)
            enrollment(p) == [student |-> student, term |-> term(p), by |-> r]
            ss == [i \in DOMAIN Plan |-> IF term(Plan[i]) # None THEN <<enrollment(Plan[i])>>
                                         ELSE << >>]
            messages == FlattenSeq(ss)
            error == \E p \in ToSet(Plan) : term(p) = None
<1>1. /\ op[r].at = "schedules" /\ Quietly
      /\ \/ student = None /\ begin(r, "enrollments", << >>, TRUE)
         \/ student # None /\ begin(r, "enrollments", messages, error)
  BY DEF createEnrollments, ForEachThat, At
<1>2. UnderWay(r)
  BY <1>1, StepTables, AtUnderWay
<1>3. student = None \/ (student \in Known("users") /\ student.student)
  BY <1>2, StudentKnown
<1>4. \A p : term(p) = None \/ term(p) \in Known("terms")
  BY <1>2, TermKnown
<1>5. Plan \in Seq(ToSet(Plan)) /\ \A p \in ToSet(Plan) : \E i \in DOMAIN Plan : p = Plan[i]
  BY SeedingAssumption DEF ToSet
<1>6. CASE student = None /\ begin(r, "enrollments", << >>, TRUE)
  <2>1. << >> \in Seq(Sendable(r, "enrollments")) /\ TRUE \in BOOLEAN
    OBVIOUS
  <2>. QED
    BY <1>1, <1>6, <2>1
<1>7. CASE student # None /\ begin(r, "enrollments", messages, error)
  <2>. HIDE DEF student, term
  <2>1. ASSUME NEW i \in DOMAIN Plan, term(Plan[i]) # None
        PROVE  enrollment(Plan[i]) \in Sendable(r, "enrollments")
    BY <1>3, <1>4, <1>7, <2>1, EnrollmentSendable
  <2>. HIDE DEF enrollment
  <2>2. ASSUME NEW i \in DOMAIN Plan PROVE ss[i] \in Seq(Sendable(r, "enrollments"))
    BY <2>1, One
  <2>3. ss \in [DOMAIN Plan -> Seq(Sendable(r, "enrollments"))]
    BY <2>2
  <2>4. ASSUME NEW i \in DOMAIN Plan, term(Plan[i]) # None
        PROVE  enrollment(Plan[i]) \in ToSet(ss[i])
    BY <2>1, <2>4, One
  <2>. HIDE DEF ss
  <2>5. /\ messages \in Seq(Sendable(r, "enrollments"))
        /\ \A x : x \in ToSet(messages) <=> \E i \in DOMAIN Plan : x \in ToSet(ss[i])
    BY <1>5, <2>3, Flattened
  <2>. HIDE DEF messages
  <2>6. ~error => \A p \in ToSet(Plan) : enrollment(p) \in ToSet(messages)
    BY <1>5, <2>4, <2>5
  <2>7. PlannedEnrollments(r) = {enrollment(p) : p \in ToSet(Plan)}
    BY DEF PlannedEnrollments, enrollment, student, term
  <2>8. ~error => PlannedEnrollments(r) \subseteq ToSet(messages)
    <3>. HIDE DEF error
    <3>. QED
      BY <2>6, <2>7
  <2>9. error \in BOOLEAN
    OBVIOUS
  <2>. HIDE DEF error
  <2>. QED
    BY <1>1, <1>7, <2>5, <2>8, <2>9
<1>. QED
  BY <1>1, <1>6, <1>7

\* createEnrollments.
LEMMA EnrollmentsInvariant ==
    ASSUME IInv, NEW r \in Ops, createEnrollments(r)
    PROVE  IInv'
<1>1. PICK messages \in Seq(Sendable(r, "enrollments")) : \E error \in BOOLEAN :
        op[r].at = "schedules" /\ begin(r, "enrollments", messages, error) /\ Quietly
  BY EnrollmentsMessages
<1>. QED
  BY <1>1, StepTables, QuietFaults, SeederInvariant

\* The details of a term join an enrollment with the sections of its term.
LEMMA DetailsKnown ==
    ASSUME IInv, NEW r \in Ops, UnderWay(r), NEW key, NEW listed \in Seq(Known("sections"))
    PROVE  details(r, listed, key) \in Seq(Sendable(r, "details"))
<1>. DEFINE enrollments == op[r].ids.enrollments
            term == Term(r, key)
            P == {i \in DOMAIN enrollments : term = None \/ enrollments[i].term = term}
            enrollment == IF P = {} THEN None ELSE enrollments[Min(P)]
            detail(s) == [enrollment |-> enrollment, section |-> s, by |-> r]
            ss == [i \in DOMAIN listed |-> IF listed[i].term = term THEN <<detail(listed[i])>>
                                           ELSE << >>]
<1>1. details(r, listed, key) = IF enrollment = None THEN << >> ELSE FlattenSeq(ss)
  BY DEF details, ForEachThat, Find
<1>2. enrollments \in Seq(Known("enrollments"))
  BY KnownIds DEF Kept
<1>. HIDE DEF enrollments, term
<1>3. enrollment = None \/ (enrollment \in Known("enrollments")
                            /\ (term = None \/ enrollment.term = term))
  <2>. DEFINE Q == P
  <2>1. Q \in SUBSET DOMAIN enrollments /\ Q = P
    OBVIOUS
  <2>. HIDE DEF Q
  <2>2. Q # {} => Min(Q) \in Q
    BY <1>2, <2>1, FirstPlace
  <2>. QED
    BY <1>2, <2>1, <2>2
<1>4. ASSUME NEW s \in Known("sections"), s.term = term PROVE term # None
  <2>1. s \in SectionRecord
    BY DEF Known, Record
  <2>2. s.term \in Record("terms")
    BY <2>1 DEF SectionRecord, Record
  <2>3. None \notin Record("terms")
    BY SeedingAssumption DEF Tables
  <2>. QED
    BY <1>4, <2>2, <2>3
<1>. HIDE DEF enrollment
<1>5. ASSUME enrollment # None PROVE FlattenSeq(ss) \in Seq(Sendable(r, "details"))
  <2>1. ASSUME NEW i \in DOMAIN listed, listed[i].term = term
        PROVE  detail(listed[i]) \in Sendable(r, "details")
    <3>1. listed[i] \in Known("sections")
      OBVIOUS
    <3>2. enrollment.term = listed[i].term /\ enrollment \in Known("enrollments")
      BY <1>3, <1>4, <1>5, <2>1, <3>1
    <3>. QED
      BY <3>1, <3>2, DetailSendable
  <2>. HIDE DEF detail
  <2>2. ASSUME NEW i \in DOMAIN listed PROVE ss[i] \in Seq(Sendable(r, "details"))
    BY <2>1, One
  <2>3. ss \in [DOMAIN listed -> Seq(Sendable(r, "details"))]
    BY <2>2
  <2>. HIDE DEF ss
  <2>. QED
    BY <2>3, Flattened
<1>. QED
  BY <1>1, <1>5

\* createEnrollmentDetails.
LEMMA DetailsInvariant ==
    ASSUME IInv, NEW r \in Ops, createEnrollmentDetails(r)
    PROVE  IInv'
<1>1. op[r].at = "enrollments" /\ UNCHANGED <<store, late, disturbed>>
  BY DEF createEnrollmentDetails, At
<1>2. UnderWay(r)
  BY <1>1, StepTables, AtUnderWay
<1>3. \E messages \in Seq(Sendable(r, "details")) : \E error \in BOOLEAN :
        begin(r, "details", messages, error) /\ faults' \in 0..MaxFaults
  <2>. DEFINE lists(listed) == [i \in DOMAIN Past |-> details(r, listed, Past[i])]
  <2>1. CASE begin(r, "details", << >>, TRUE) /\ UNCHANGED faults
    <3>1. << >> \in Seq(Sendable(r, "details")) /\ TRUE \in BOOLEAN
      OBVIOUS
    <3>2. faults' \in 0..MaxFaults
      BY <2>1 DEF IInv, CountsTyped
    <3>. QED
      BY <2>1, <3>1, <3>2
  <2>2. ASSUME NEW listed \in {<< >>, SetToSeq(store["sections"])}, List("sections", listed),
               begin(r, "details", FlattenSeq(lists(listed)), listed = << >>)
        PROVE  \E messages \in Seq(Sendable(r, "details")) : \E error \in BOOLEAN :
                 begin(r, "details", messages, error) /\ faults' \in 0..MaxFaults
    <3>1. listed \in Seq(Known("sections")) /\ faults' \in 0..MaxFaults
      BY <2>2, StepTables, ListFacts
    <3>2. \A i \in DOMAIN Past : details(r, listed, Past[i]) \in Seq(Sendable(r, "details"))
      BY <1>2, <3>1, DetailsKnown
    <3>3. lists(listed) \in [DOMAIN Past -> Seq(Sendable(r, "details"))]
      BY <3>2
    <3>. HIDE DEF lists
    <3>4. Past \in Seq(ToSet(Past))
      BY SeedingAssumption
    <3>5. FlattenSeq(lists(listed)) \in Seq(Sendable(r, "details"))
      BY <3>3, <3>4, Flattened
    <3>6. (listed = << >>) \in BOOLEAN
      OBVIOUS
    <3>. QED
      BY <2>2, <3>1, <3>5, <3>6
  <2>3. \/ begin(r, "details", << >>, TRUE) /\ UNCHANGED faults
        \/ \E listed \in {<< >>, SetToSeq(store["sections"])} :
             /\ List("sections", listed)
             /\ begin(r, "details", FlattenSeq(lists(listed)), listed = << >>)
    BY DEF createEnrollmentDetails, ForEach
  <2>. QED
    BY <2>1, <2>2, <2>3
<1>. QED
  BY <1>1, <1>3, StepTables, SeederInvariant

\* createGrades: those of the details that were listed.
LEMMA GradesInvariant ==
    ASSUME IInv, NEW r \in Ops, createGrades(r)
    PROVE  IInv'
<1>1. op[r].at = "details" /\ UNCHANGED <<store, late, disturbed>>
  BY DEF createGrades, At
<1>2. UnderWay(r)
  BY <1>1, StepTables, AtUnderWay
<1>. DEFINE student == FirstStudent(r)
            grade(d) == [student |-> student, section |-> d.section, by |-> r]
            ss(listed) == [i \in DOMAIN listed |-> IF listed[i].enrollment.student = student
                                                   THEN <<grade(listed[i])>> ELSE << >>]
<1>3. student = None \/ student \in Known("users")
  BY <1>2, StudentKnown
<1>4. \/ begin(r, "grades", << >>, TRUE) /\ UNCHANGED faults
      \/ /\ student # None
         /\ \E listed \in {<< >>, SetToSeq(store["details"])} :
              /\ List("details", listed)
              /\ begin(r, "grades", FlattenSeq(ss(listed)), listed = << >>)
  BY DEF createGrades, ForEachThat
<1>. HIDE DEF student
<1>5. \E messages \in Seq(Sendable(r, "grades")) : \E error \in BOOLEAN :
        begin(r, "grades", messages, error) /\ faults' \in 0..MaxFaults
  <2>1. CASE begin(r, "grades", << >>, TRUE) /\ UNCHANGED faults
    <3>1. << >> \in Seq(Sendable(r, "grades")) /\ TRUE \in BOOLEAN
      OBVIOUS
    <3>2. faults' \in 0..MaxFaults
      BY <2>1 DEF IInv, CountsTyped
    <3>. QED
      BY <2>1, <3>1, <3>2
  <2>2. ASSUME student # None,
               NEW listed \in {<< >>, SetToSeq(store["details"])}, List("details", listed),
               begin(r, "grades", FlattenSeq(ss(listed)), listed = << >>)
        PROVE  \E messages \in Seq(Sendable(r, "grades")) : \E error \in BOOLEAN :
                 begin(r, "grades", messages, error) /\ faults' \in 0..MaxFaults
    <3>1. listed \in Seq(Known("details")) /\ faults' \in 0..MaxFaults
      BY <2>2, StepTables, ListFacts
    <3>2. ASSUME NEW i \in DOMAIN listed PROVE grade(listed[i]) \in Sendable(r, "grades")
      <4>1. listed[i] \in Known("details")
        BY <3>1
      <4>. QED
        BY <1>3, <2>2, <4>1, GradeSendable
    <3>. HIDE DEF grade
    <3>3. ASSUME NEW i \in DOMAIN listed PROVE ss(listed)[i] \in Seq(Sendable(r, "grades"))
      BY <3>2, One
    <3>4. ss(listed) \in [DOMAIN listed -> Seq(Sendable(r, "grades"))]
      BY <3>3
    <3>. HIDE DEF ss
    <3>5. FlattenSeq(ss(listed)) \in Seq(Sendable(r, "grades"))
      BY <3>1, <3>4, Flattened
    <3>6. (listed = << >>) \in BOOLEAN
      OBVIOUS
    <3>. QED
      BY <2>2, <3>1, <3>5, <3>6
  <2>. HIDE DEF ss
  <2>. QED
    BY <1>4, <2>1, <2>2
<1>. QED
  BY <1>1, <1>5, StepTables, SeederInvariant

\* A request that ends keeps nothing.
LEMMA FinishInvariant ==
    ASSUME IInv, NEW r \in Ops, finish(r)
    PROVE  IInv'
<1>. DEFINE success == Result(op[r])
            o == [Idle EXCEPT !.at = "done", !.success = success]
<1>1. op[r].at = "grades" /\ op' = [op EXCEPT ![r] = o] /\ Quietly
  BY DEF finish, At
<1>2. success \in BOOLEAN
  BY DEF Result, IInv, OpTyped, Operation
<1>. HIDE DEF success
<1>3. o \in Operation /\ o.at = "done" /\ o.todo = << >> /\ o.ids = NoIds
  BY <1>2, IdleTyped, StepsDiffer DEF Operation, Idle
<1>. HIDE DEF o
<1>4. /\ StoreTyped' /\ StoredTogether' /\ StoredSound'
      /\ \A t \in Tables : store[t] \subseteq store'[t]
  BY <1>1 DEF Quietly, IInv, StoreTyped, StoredTogether, Together, StoredSound, Sound
<1>5. \A t \in Kept : o.ids[t] = << >>
  BY <1>3 DEF NoIds
<1>6. \A t \in Kept : /\ ToSet(o.ids[t]) \subseteq Record(t)
                      /\ ~disturbed => ToSet(o.ids[t]) \subseteq store'[t]
  BY <1>5 DEF ToSet
<1>7. faults' \in 0..MaxFaults /\ UNCHANGED <<late, disturbed>>
  BY <1>1 DEF Quietly, IInv, CountsTyped
<1>8. /\ op[r].at \in SendSteps \cup {"start"} /\ o.at \in SendSteps \cup {"done"}
      /\ o.at \notin SendSteps
  BY <1>1, <1>3, StepTables, StepsDiffer
<1>9. /\ o.at = "done" => o.todo = << >> /\ o.ids = NoIds
      /\ o.at \in SendSteps => ToSet(o.todo) \subseteq Sendable(r, TableOf(o.at))'
      /\ \A m \in late' : m \in late \/ \E t \in Tables : \E x \in Sendable(r, t) :
                                        m = [table |-> t, message |-> x]
  BY <1>3, <1>7, <1>8
<1>. QED
  BY <1>1, <1>3, <1>4, <1>6, <1>7, <1>8, <1>9, StepInvariant

\* All steps of the seeders,
LEMMA SeedersInvariant ==
    ASSUME IInv, NEW r \in Ops, Seeders(r)
    PROVE  IInv'
  BY StaffInvariant, ProgramsInvariant, PlansInvariant, LevelsInvariant, CoursesInvariant,
     PrerequisitesInvariant, StudentsInvariant, YearsInvariant, TermsInvariant,
     ClassroomsInvariant, SectionsInvariant, SchedulesInvariant, EnrollmentsInvariant,
     DetailsInvariant, GradesInvariant, FinishInvariant DEF Seeders

\* all answers,
LEMMA AnswersInvariant ==
    ASSUME IInv, NEW r \in Ops, Answers(r)
    PROVE  IInv'
  BY ClearInvariant, ClearFailsInvariant, SucceedsInvariant, RefusedInvariant DEF Answers

\* and the absence of a step.
LEMMA StutterInvariant ==
    ASSUME IInv, UNCHANGED vars
    PROVE  IInv'
<1>. USE DEF vars
<1>1. OpTyped' /\ StoreTyped' /\ CountsTyped'
  BY DEF IInv, OpTyped, StoreTyped, CountsTyped
<1>2. StoredTogether' /\ StoredSound' /\ LateIsSound'
  BY DEF IInv, StoredTogether, StoredSound, LateIsSound, Sound, Together, UnderWay
<1>3. Sends'
  BY DEF IInv, Sends, Sendable, Sound, Together, Table
<1>4. Alone' /\ IdsExist' /\ ClearsInOrder'
  BY DEF IInv, Alone, IdsExist, ClearsInOrder, UnderWay, EmptyUpTo, Rest
<1>. QED
  BY <1>1, <1>2, <1>3, <1>4 DEF IInv

\* Every step keeps the invariant.
LEMMA NextInvariant == IInv /\ [Next]_vars => IInv'
<1>. SUFFICES ASSUME IInv, [Next]_vars PROVE IInv'
  OBVIOUS
<1>1. CASE UNCHANGED vars
  BY <1>1, StutterInvariant
<1>2. CASE executeLate
  BY <1>2, LateInvariant
<1>3. ASSUME NEW r \in Ops, seedAll(r) \/ clearAllData(r) PROVE IInv'
  BY <1>3, StartInvariant
<1>4. ASSUME NEW r \in Ops, Seeders(r) PROVE IInv'
  BY <1>4, SeedersInvariant
<1>5. ASSUME NEW r \in Ops, Answers(r) PROVE IInv'
  BY <1>5, AnswersInvariant
<1>. QED
  BY <1>1, <1>2, <1>3, <1>4, <1>5 DEF Next

\* The inductive invariant holds whatever the fixtures, for any number of
\* requests to seed and to clear and of messages that fail or are late.
THEOREM Invariant == Spec => []IInv
  BY InitInvariant, NextInvariant, PTL DEF Spec

-----------------------------------------------------------------------------
(***************************************************************************)
(* What follows.                                                           *)
(***************************************************************************)

\* Every message, id and record is one of its table, none lacks what it refers
\* to, and a key is stored once (the unique constraints of the services, and
\* the seeders that skip what they have no id for).
THEOREM TypeCorrect == Spec => []TypeOK
<1>1. IInv => TypeOK
  <2>. SUFFICES ASSUME IInv PROVE TypeOK
    OBVIOUS
  <2>1. ASSUME NEW r \in Ops
        PROVE  /\ op[r].at \in Steps
               /\ op[r].counted \in Nat
               /\ {op[r].seed, op[r].errors, op[r].success} \subseteq BOOLEAN
               /\ op[r].todo \in Seq(AnyRecord) /\ op[r].ids \in [Kept -> Seq(AnyRecord)]
    BY DEF IInv, OpTyped, Operation
  <2>2. ASSUME NEW r \in Ops, NEW t \in Kept PROVE op[r].ids[t] \in Seq(Record(t))
    <3>1. op[r].ids[t] \in Seq(AnyRecord) /\ ToSet(op[r].ids[t]) \subseteq Record(t)
      BY <2>1 DEF IInv, OpTyped
    <3>. QED
      BY <3>1, SeqOfMembers
  <2>3. ASSUME NEW r \in Ops, op[r].todo # << >> PROVE op[r].todo \in Seq(Record(Table(r)))
    <3>1. ToSet(op[r].todo) \subseteq Record(Table(r))
      BY <2>3 DEF IInv, Sends, Sendable
    <3>. QED
      BY <2>1, <3>1, SeqOfMembers
  <2>. QED
    BY <2>1, <2>2, <2>3 DEF TypeOK, IInv, StoreTyped, CountsTyped
<1>. QED
  BY <1>1, Invariant, PTL

\* Whatever fails, is late or overlaps: sections, details and enrollments join
\* what belongs together; and without an incomplete clear or an overlap nothing
\* refers to what does not exist (SeedingService.seedAll, clearAllData).
THEOREM RecordsStayTogether == Spec => []RecordsBelongTogether
<1>1. IInv => RecordsBelongTogether
  <2>. SUFFICES ASSUME IInv PROVE RecordsBelongTogether
    OBVIOUS
  <2>1. \A t \in Tables : \A x \in store[t] : Together(t, x)
    BY DEF IInv, StoredTogether
  <2>2. ~disturbed => \A t \in Tables \ {"users"} : \A x \in store[t] :
          \A ref \in References(t, x) : ref[2] \in store[ref[1]]
    BY DEF IInv, StoredSound, Sound
  <2>3. {"sections", "details", "enrollments"} \subseteq Tables
    BY DEF Tables
  <2>4. \A s \in store["sections"] :
          \E p \in ToSet(Plan) : s.term.key = p.term /\ s.course.level.key = p.level
    BY <2>1, <2>3 DEF Together
  <2>5. \A d \in store["details"] : d.enrollment.term = d.section.term
    BY <2>1, <2>3 DEF Together
  <2>6. \A e \in store["enrollments"] : e.student.student
    BY <2>1, <2>3 DEF Together
  <2>. QED
    BY <2>2, <2>4, <2>5, <2>6 DEF RecordsBelongTogether
<1>. QED
  BY <1>1, Invariant, PTL

-----------------------------------------------------------------------------
(***************************************************************************)
(* The plans of a request.                                                 *)
(***************************************************************************)
LaterSteps == {"sections", "schedules", "enrollments", "details", "grades"}

\* What a request plans depends only on the courses, terms and users it knows.
LEMMA PlansDependOn ==
    ASSUME NEW r \in Ops, op'[r].ids.courses = op[r].ids.courses,
           op'[r].ids.terms = op[r].ids.terms, op'[r].ids.users = op[r].ids.users
    PROVE  /\ TermsKnown(r)' <=> TermsKnown(r)
           /\ PlannedSections(r)' = PlannedSections(r)
           /\ PlannedEnrollments(r)' = PlannedEnrollments(r)
<1>1. \A key : Term(r, key)' = Term(r, key)
  BY DEF Term, Find
<1>2. FirstStudent(r)' = FirstStudent(r)
  BY DEF FirstStudent, Find
<1>. QED
  BY <1>1, <1>2 DEF TermsKnown, PlannedSections, PlannedEnrollments

\* The plans of those that do nothing go on to be followed.
LEMMA OthersFollow ==
    ASSUME IInv, PlansAreFollowed, NEW r \in Ops, NEW o, op' = [op EXCEPT ![r] = o],
           ~disturbed' => /\ ~disturbed /\ Followed(r)'
                          /\ \A u \in Tables : store[u] \subseteq store'[u]
    PROVE  PlansAreFollowed'
<1>. SUFFICES ASSUME ~disturbed', NEW q \in Ops, q # r PROVE Followed(q)'
  BY DEF PlansAreFollowed
<1>1. op'[q] = op[q]
  BY DEF IInv, OpTyped
<1>2. Followed(q) /\ store["sections"] \subseteq store'["sections"]
      /\ store["enrollments"] \subseteq store'["enrollments"]
  BY DEF PlansAreFollowed, Tables
<1>3. /\ TermsKnown(q)' <=> TermsKnown(q)
      /\ PlannedSections(q)' = PlannedSections(q)
      /\ PlannedEnrollments(q)' = PlannedEnrollments(q)
  BY <1>1, PlansDependOn
<1>. QED
  BY <1>1, <1>2, <1>3 DEF Followed

\* Clearing and the first seeders follow no plan yet.
LEMMA EarlyStepsFollow ==
    ASSUME NEW r \in Ops, op'[r].at \notin LaterSteps
    PROVE  Followed(r)'
  BY DEF Followed, LaterSteps

\* A request that begins follows no plan yet.
LEMMA StartFollows ==
    ASSUME IInv, PlansAreFollowed, NEW r \in Ops, seedAll(r) \/ clearAllData(r)
    PROVE  PlansAreFollowed'
<1>1. PICK seed \in BOOLEAN : \E steps \in {<< >>, ClearSteps} : start(r, seed, steps)
  BY DEF seedAll, clearAllData
<1>2. PICK steps \in {<< >>, ClearSteps} : start(r, seed, steps)
  BY <1>1
<1>. DEFINE at == IF steps = << >> THEN "start" ELSE "clearing"
            o == [Idle EXCEPT !.at = at, !.seed = seed, !.toClear = steps]
<1>3. op' = [op EXCEPT ![r] = o] /\ UNCHANGED store /\ (~disturbed' => ~disturbed)
  BY <1>2 DEF start
<1>4. at \in Steps \ LaterSteps
  BY DEF Steps, LaterSteps
<1>. HIDE DEF at
<1>5. o \in Operation /\ o.at = at
  BY <1>4, IdleTyped, RankOfSteps DEF Idle, Operation
<1>. HIDE DEF o
<1>6. op'[r] = o
  BY <1>3 DEF IInv, OpTyped
<1>. QED
  BY <1>3, <1>4, <1>5, <1>6, EarlyStepsFollow, OthersFollow

\* Nothing undisturbed seeds while tables are cleared.
LEMMA ClearFollows ==
    ASSUME IInv, NEW r \in Ops, clear(r) \/ clearFails(r)
    PROVE  PlansAreFollowed'
<1>. SUFFICES ASSUME ~disturbed', NEW q \in Ops PROVE Followed(q)'
  BY DEF PlansAreFollowed
<1>1. op[r].at = "clearing" /\ cleared(r) /\ ~disturbed
  BY DEF clear, clearFails
<1>2. q # r => op'[q] = op[q] /\ op[q].at \notin LaterSteps
  <2>1. q # r => ~UnderWay(q)
    BY <1>1 DEF IInv, Alone, UnderWay
  <2>. QED
    BY <1>1, <2>1 DEF UnderWay, LaterSteps, cleared, IInv, OpTyped
<1>3. op'[r].at \notin LaterSteps
  BY <1>1 DEF cleared, IInv, OpTyped, Operation, LaterSteps
<1>. QED
  BY <1>2, <1>3, EarlyStepsFollow

\* A message that is executed late takes nothing away, unless it clears.
LEMMA LateFollows ==
    ASSUME IInv, PlansAreFollowed, executeLate
    PROVE  PlansAreFollowed'
<1>. SUFFICES ASSUME ~disturbed', NEW r \in Ops PROVE Followed(r)'
  BY DEF PlansAreFollowed
<1>1. PICK m \in late : /\ "table" \in DOMAIN m /\ Executes(m.table, m.message)
                        /\ ~disturbed /\ UNCHANGED op
  BY DEF executeLate
<1>2. store["sections"] \subseteq store'["sections"]
      /\ store["enrollments"] \subseteq store'["enrollments"]
  BY <1>1 DEF Executes, IInv, StoreTyped, Tables
<1>3. /\ TermsKnown(r)' <=> TermsKnown(r)
      /\ PlannedSections(r)' = PlannedSections(r)
      /\ PlannedEnrollments(r)' = PlannedEnrollments(r)
  BY <1>1, PlansDependOn
<1>. QED
  BY <1>1, <1>2, <1>3 DEF PlansAreFollowed, Followed

\* An answer stores what was planned, or its lack is noted.
LEMMA SucceedsFollows ==
    ASSUME IInv, PlansAreFollowed, NEW r \in Ops, createSucceeds(r)
    PROVE  PlansAreFollowed'
<1>. DEFINE t == Table(r)
            m == Message(r)
<1>1. /\ Sending(r) /\ ~Refused(t, m) /\ Executes(t, m) /\ answered(r, m)
      /\ UNCHANGED disturbed
  BY DEF createSucceeds
<1>2. /\ op[r].at \in SendSteps /\ t \in Tables /\ m \in Record(t) /\ Together(t, m)
      /\ op[r].todo # << >> /\ ToSet(op[r].todo) = ToSet(Tail(op[r].todo)) \cup {m}
  BY <1>1, SendingFacts DEF Sendable
<1>3. t = TableOf(op[r].at)
  BY DEF Table
<1>. HIDE DEF t, m
<1>4. m \in store'[t] /\ \A u \in Tables : store[u] \subseteq store'[u]
  BY <1>1, <1>2, ExecutesFacts DEF IInv
<1>5. PICK o \in Operation :
        /\ op' = [op EXCEPT ![r] = o]
        /\ o.at = op[r].at /\ o.todo = Tail(op[r].todo)
        /\ o.errors = op[r].errors /\ o.success = op[r].success
        /\ \A u \in Kept : u # t => o.ids[u] = op[r].ids[u]
  BY <1>1, <1>2, AnsweredOp DEF IInv, t
<1>6. op'[r] = o
  BY <1>5 DEF IInv, OpTyped
<1>7. ASSUME ~disturbed, op[r].at \in LaterSteps PROVE Followed(r)'
  <2>1. t = op[r].at
    BY <1>3, <1>7 DEF TableOf, LaterSteps
  <2>2. /\ op'[r].ids.courses = op[r].ids.courses /\ op'[r].ids.terms = op[r].ids.terms
        /\ op'[r].ids.users = op[r].ids.users
    BY <1>5, <1>6, <1>7, <2>1 DEF LaterSteps, Kept
  <2>3. /\ TermsKnown(r)' <=> TermsKnown(r)
        /\ PlannedSections(r)' = PlannedSections(r)
        /\ PlannedEnrollments(r)' = PlannedEnrollments(r)
    BY <2>2, PlansDependOn
  <2>4. store["sections"] \subseteq store'["sections"]
        /\ store["enrollments"] \subseteq store'["enrollments"]
    BY <1>4 DEF Tables
  <2>5. ToSet(op[r].todo) \subseteq ToSet(op'[r].todo) \cup store'[t]
    BY <1>2, <1>4, <1>5, <1>6
  <2>6. Followed(r)
    BY <1>7 DEF PlansAreFollowed
  <2>. QED
    BY <1>5, <1>6, <2>1, <2>3, <2>4, <2>5, <2>6 DEF Followed
<1>8. op[r].at \notin LaterSteps => Followed(r)'
  BY <1>5, <1>6, EarlyStepsFollow
<1>. QED
  BY <1>1, <1>4, <1>5, <1>7, <1>8, OthersFollow

\* and a record that is not stored is an error, if it is part of a plan.
LEMMA RefusedFollows ==
    ASSUME IInv, PlansAreFollowed, NEW r \in Ops, createRefused(r) \/ createFails(r)
    PROVE  PlansAreFollowed'
<1>1. Sending(r) /\ UNCHANGED <<store, disturbed>>
  BY DEF createRefused, createFails
<1>2. op[r].at \in SendSteps /\ Table(r) \in Tables /\ op[r].todo # << >>
  BY <1>1, SendingFacts
<1>3. \A u \in Tables : store[u] \subseteq store'[u]
  BY <1>1
<1>4. CASE unanswered(r)
  <2>1. PICK o \in Operation :
          /\ op' = [op EXCEPT ![r] = o]
          /\ o.at = op[r].at /\ o.todo = Tail(op[r].todo)
          /\ o.errors = (op[r].errors \/ Table(r) \in Reported)
          /\ o.success = op[r].success /\ o.ids = op[r].ids
    BY <1>2, <1>4, UnansweredOp DEF IInv
  <2>2. op'[r] = o
    BY <2>1 DEF IInv, OpTyped
  <2>3. /\ TermsKnown(r)' <=> TermsKnown(r)
        /\ PlannedSections(r)' = PlannedSections(r)
        /\ PlannedEnrollments(r)' = PlannedEnrollments(r)
    BY <2>1, <2>2, PlansDependOn
  <2>4. op[r].at \in {"sections", "enrollments"} => op'[r].errors
    BY <2>1, <2>2 DEF Table, TableOf, Reported
  <2>5. ASSUME ~disturbed PROVE Followed(r)'
    <3>1. Followed(r)
      BY <2>5 DEF PlansAreFollowed
    <3>. QED
      BY <1>1, <2>1, <2>2, <2>3, <2>4, <3>1 DEF Followed
  <2>. QED
    BY <1>1, <1>3, <2>1, <2>5, OthersFollow
<1>5. ASSUME ~unanswered(r) PROVE PlansAreFollowed'
  <2>1. PICK x \in store[Table(r)] : Table(r) \in LookedUp /\ answered(r, x)
    BY <1>5 DEF createRefused, createFails, Existing
  <2>2. x \in Record(Table(r))
    BY <1>2 DEF IInv, StoreTyped
  <2>3. PICK o \in Operation : op' = [op EXCEPT ![r] = o] /\ o.at = op[r].at
    BY <1>2, <2>1, <2>2, AnsweredOp DEF IInv
  <2>4. op'[r] = o
    BY <2>3 DEF IInv, OpTyped
  <2>5. op[r].at \notin LaterSteps
    BY <2>1 DEF Table, TableOf, LookedUp, LaterSteps
  <2>6. Followed(r)'
    BY <2>3, <2>4, <2>5, EarlyStepsFollow
  <2>. QED
    BY <1>1, <1>3, <2>3, <2>6, OthersFollow
<1>. QED
  BY <1>4, <1>5

\* Of a section that counts without being stored nothing is planned any more.
LEMMA IgnoredFollows ==
    ASSUME NEW r \in Ops, createIgnored(r)
    PROVE  PlansAreFollowed'
  BY DEF createIgnored, PlansAreFollowed

\* What a seeder leaves of its request.
LEMMA GoOnFacts ==
    ASSUME IInv, NEW r \in Ops, NEW step, NEW messages, goOn(r, step, messages)
    PROVE  /\ UNCHANGED <<store, disturbed>>
           /\ \E o : op' = [op EXCEPT ![r] = o]
           /\ op'[r].at = step
<1>. DEFINE o == [op[r] EXCEPT !.at = step, !.todo = messages]
<1>1. op \in [Ops -> Operation] /\ op[r] \in Operation
  BY DEF IInv, OpTyped
<1>2. op' = [op EXCEPT ![r] = o] /\ UNCHANGED <<store, disturbed>>
  BY <1>1 DEF goOn, Operation
<1>3. op'[r].at = step
  BY <1>1, <1>2 DEF Operation
<1>. QED
  BY <1>2, <1>3

\* What the beginning of the next seeder leaves of its request.
LEMMA BeginFacts ==
    ASSUME IInv, NEW r \in Ops, NEW step, NEW messages, NEW error, begin(r, step, messages, error)
    PROVE  /\ \E o : op' = [op EXCEPT ![r] = o]
           /\ op'[r].at = step /\ op'[r].todo = messages /\ op'[r].errors = error
           /\ op'[r].success => op[r].success /\ ~op[r].errors
           /\ op'[r].ids = op[r].ids
<1>. DEFINE success == Result(op[r])
            o == [op[r] EXCEPT !.at = step, !.todo = messages, !.errors = error,
                               !.counted = 0, !.success = success]
<1>1. op \in [Ops -> Operation] /\ op[r] \in Operation
  BY DEF IInv, OpTyped
<1>2. op' = [op EXCEPT ![r] = o]
  BY <1>1 DEF begin, Operation
<1>3. success => op[r].success /\ ~op[r].errors
  BY DEF Result
<1>. HIDE DEF success
<1>4. op'[r].at = step /\ op'[r].todo = messages /\ op'[r].errors = error
      /\ op'[r].success = success /\ op'[r].ids = op[r].ids
  BY <1>1, <1>2 DEF Operation
<1>. QED
  BY <1>2, <1>3, <1>4

\* The seeders of staff, programs and the calendar plan nothing.
LEMMA FirstSeedersFollow ==
    ASSUME IInv, PlansAreFollowed, NEW r \in Ops,
           \/ createStaff(r) \/ createDegreePrograms(r) \/ createStudyPlans(r) \/ createLevels(r)
           \/ createCourses(r) \/ createPrerequisites(r) \/ createStudents(r)
           \/ createAcademicYears(r) \/ createTerms(r) \/ createClassrooms(r)
    PROVE  PlansAreFollowed'
<1>1. \E step \in SendSteps \ LaterSteps : \E messages :
        \/ goOn(r, step, messages)
        \/ begin(r, step, messages, FALSE) /\ Quietly
  BY DEF createStaff, createDegreePrograms, createStudyPlans, createLevels, createCourses,
         createPrerequisites, createStudents, createAcademicYears, createTerms, createClassrooms,
         SendSteps, Tables, LaterSteps
<1>2. PICK step \in SendSteps \ LaterSteps : \E messages :
        \/ goOn(r, step, messages)
        \/ begin(r, step, messages, FALSE) /\ Quietly
  BY <1>1
<1>3. UNCHANGED <<store, disturbed>> /\ (\E o : op' = [op EXCEPT ![r] = o]) /\ op'[r].at = step
  BY <1>2, GoOnFacts, BeginFacts DEF Quietly
<1>. QED
  BY <1>3, EarlyStepsFollow, OthersFollow

\* createSections plans sections, and sends them.
LEMMA SectionsFollow ==
    ASSUME IInv, PlansAreFollowed, NEW r \in Ops, createSections(r)
    PROVE  PlansAreFollowed'
<1>1. PICK messages \in Seq(Sendable(r, "sections")) : \E error \in BOOLEAN :
        /\ begin(r, "sections", messages, error) /\ Quietly
        /\ ~error => TermsKnown(r) /\ PlannedSections(r) \subseteq ToSet(messages)
  BY SectionsMessages
<1>2. PICK error \in BOOLEAN :
        /\ begin(r, "sections", messages, error) /\ Quietly
        /\ ~error => TermsKnown(r) /\ PlannedSections(r) \subseteq ToSet(messages)
  BY <1>1
<1>3. /\ \E o : op' = [op EXCEPT ![r] = o]
      /\ op'[r].at = "sections" /\ op'[r].todo = messages /\ op'[r].errors = error
      /\ op'[r].ids = op[r].ids
  BY <1>2, BeginFacts
<1>4. Followed(r)'
  BY <1>2, <1>3, PlansDependOn DEF Followed
<1>. QED
  BY <1>2, <1>3, <1>4, OthersFollow DEF Quietly

\* createEnrollments plans enrollments, and sends them.
LEMMA EnrollmentsFollow ==
    ASSUME IInv, PlansAreFollowed, NEW r \in Ops, createEnrollments(r)
    PROVE  PlansAreFollowed'
<1>1. PICK messages \in Seq(Sendable(r, "enrollments")) : \E error \in BOOLEAN :
        /\ op[r].at = "schedules" /\ begin(r, "enrollments", messages, error) /\ Quietly
        /\ ~error => PlannedEnrollments(r) \subseteq ToSet(messages)
  BY EnrollmentsMessages
<1>2. PICK error \in BOOLEAN :
        /\ op[r].at = "schedules" /\ begin(r, "enrollments", messages, error) /\ Quietly
        /\ ~error => PlannedEnrollments(r) \subseteq ToSet(messages)
  BY <1>1
<1>3. /\ \E o : op' = [op EXCEPT ![r] = o]
      /\ op'[r].at = "enrollments" /\ op'[r].todo = messages /\ op'[r].errors = error
      /\ op'[r].success => op[r].success
      /\ op'[r].ids = op[r].ids
  BY <1>2, BeginFacts
<1>4. ASSUME ~disturbed PROVE Followed(r)'
  <2>1. Followed(r)
    BY <1>4 DEF PlansAreFollowed
  <2>. QED
    BY <1>2, <1>3, <2>1, PlansDependOn DEF Followed, Quietly
<1>. QED
  BY <1>2, <1>3, <1>4, OthersFollow DEF Quietly

\* The seeders after those of sections and of enrollments find done what was
\* planned, or the lack of it noted.
LEMMA LastSeedersFollow ==
    ASSUME IInv, PlansAreFollowed, NEW r \in Ops,
           createSchedules(r) \/ createEnrollmentDetails(r) \/ createGrades(r)
    PROVE  PlansAreFollowed'
<1>1. \E messages, error :
        /\ op[r].todo = << >> /\ UNCHANGED <<store, disturbed>>
        /\ \/ op[r].at = "sections" /\ begin(r, "schedules", messages, error)
           \/ op[r].at = "enrollments" /\ begin(r, "details", messages, error)
           \/ op[r].at = "details" /\ begin(r, "grades", messages, error)
  BY DEF createSchedules, createEnrollmentDetails, createGrades, At
<1>2. /\ op[r].todo = << >> /\ UNCHANGED <<store, disturbed>>
      /\ \E o : op' = [op EXCEPT ![r] = o]
      /\ \/ op[r].at = "sections" /\ op'[r].at = "schedules"
         \/ op[r].at = "enrollments" /\ op'[r].at = "details"
         \/ op[r].at = "details" /\ op'[r].at = "grades"
      /\ op'[r].success => op[r].success /\ ~op[r].errors
      /\ op'[r].ids = op[r].ids
  BY <1>1, BeginFacts
<1>3. ToSet(<< >>) = {}
  BY DEF ToSet
<1>4. ASSUME ~disturbed PROVE Followed(r)'
  <2>1. Followed(r)
    BY <1>4 DEF PlansAreFollowed
  <2>. QED
    BY <1>2, <1>3, <2>1, PlansDependOn DEF Followed
<1>. QED
  BY <1>2, <1>4, OthersFollow

\* A request that ends forgets its plans.
LEMMA FinishFollows ==
    ASSUME IInv, PlansAreFollowed, NEW r \in Ops, finish(r)
    PROVE  PlansAreFollowed'
<1>. DEFINE success == Result(op[r])
            o == [Idle EXCEPT !.at = "done", !.success = success]
<1>1. op' = [op EXCEPT ![r] = o] /\ UNCHANGED <<store, disturbed>>
  BY DEF finish, Quietly
<1>. HIDE DEF success
<1>2. op'[r].at \notin LaterSteps
  BY <1>1 DEF IInv, OpTyped, Idle, LaterSteps
<1>. HIDE DEF o
<1>. QED
  BY <1>1, <1>2, EarlyStepsFollow, OthersFollow

\* Every step keeps the plans followed.
LEMMA NextFollows == IInv /\ PlansAreFollowed /\ [Next]_vars => PlansAreFollowed'
<1>. SUFFICES ASSUME IInv, PlansAreFollowed, [Next]_vars PROVE PlansAreFollowed'
  OBVIOUS
<1>1. CASE UNCHANGED vars
  <2>1. \A r \in Ops : /\ TermsKnown(r)' <=> TermsKnown(r)
                       /\ PlannedSections(r)' = PlannedSections(r)
                       /\ PlannedEnrollments(r)' = PlannedEnrollments(r)
    BY <1>1, PlansDependOn DEF vars
  <2>. QED
    BY <1>1, <2>1 DEF vars, PlansAreFollowed, Followed
<1>2. CASE executeLate
  BY <1>2, LateFollows
<1>3. ASSUME NEW r \in Ops, seedAll(r) \/ clearAllData(r) PROVE PlansAreFollowed'
  BY <1>3, StartFollows
<1>4. ASSUME NEW r \in Ops, Seeders(r) PROVE PlansAreFollowed'
  BY <1>4, FirstSeedersFollow, SectionsFollow, EnrollmentsFollow, LastSeedersFollow,
     FinishFollows DEF Seeders
<1>5. ASSUME NEW r \in Ops, Answers(r) PROVE PlansAreFollowed'
  BY <1>5, ClearFollows, SucceedsFollows, RefusedFollows, IgnoredFollows DEF Answers
<1>. QED
  BY <1>1, <1>2, <1>3, <1>4, <1>5 DEF Next

\* What a request planned is stored, about to be sent, or noted as an error,
\* unless the request was disturbed (CourseSectionsSeeder, EnrollmentsSeeder).
THEOREM PlansFollowed == Spec => []PlansAreFollowed
<1>1. Init => PlansAreFollowed
  <2>1. Init => \A r \in Ops : op[r].at = "idle"
    BY IdleTyped DEF Init
  <2>. QED
    BY <2>1 DEF PlansAreFollowed, Followed
<1>. QED
  BY <1>1, NextFollows, Invariant, PTL DEF Spec

\* A run that reports success, and that nothing disturbed, has enrolled its
\* first student in every term of the plan and has a section for each of its
\* courses of the level of that term (SeedingService.seedAll).
THEOREM SuccessEarned == Spec => SuccessIsEarned
<1>. DEFINE A == \A r \in Ops : finish(r) /\ Result(op[r]) /\ ~disturbed => Earned(r)
<1>1. ASSUME IInv, PlansAreFollowed, NEW r \in Ops, finish(r), Result(op[r]), ~disturbed
      PROVE  Earned(r)
  <2>1. op[r].at = "grades" /\ op[r].success
    BY <1>1 DEF finish, At, Result
  <2>2. /\ TermsKnown(r) /\ PlannedSections(r) \subseteq store["sections"]
        /\ PlannedEnrollments(r) \subseteq store["enrollments"]
    BY <1>1, <2>1 DEF PlansAreFollowed, Followed
  <2>3. UnderWay(r)
    BY <2>1 DEF UnderWay
  <2>4. ASSUME NEW p \in ToSet(Plan) PROVE Term(r, p.term).key = p.term
    BY <1>1, <2>2, <2>3, TermKnown DEF TermsKnown
  <2>5. ASSUME NEW p \in ToSet(Plan)
        PROVE  \E e \in store["enrollments"] :
                 e.by = r /\ e.student = FirstStudent(r) /\ e.term.key = p.term
    <3>. DEFINE e == [student |-> FirstStudent(r), term |-> Term(r, p.term), by |-> r]
    <3>1. e \in store["enrollments"]
      BY <2>2 DEF PlannedEnrollments
    <3>. QED
      BY <2>4, <3>1
  <2>6. ASSUME NEW p \in ToSet(Plan), NEW c \in ToSet(op[r].ids.courses), c.level.key = p.level
        PROVE  \E s \in store["sections"] : s.by = r /\ s.course = c /\ s.term.key = p.term
    <3>. DEFINE s == [course |-> c, term |-> Term(r, p.term), by |-> r]
    <3>1. s \in PlannedSections(r)
      BY <2>6 DEF PlannedSections
    <3>2. s \in store["sections"]
      BY <2>2, <3>1
    <3>. QED
      BY <2>4, <3>2
  <2>. QED
    BY <2>5, <2>6 DEF Earned
<1>2. IInv /\ PlansAreFollowed /\ [Next]_vars => [A]_vars
  BY <1>1
<1>. QED
  BY <1>2, Invariant, PlansFollowed, PTL DEF Spec, SuccessIsEarned
=============================================================================
