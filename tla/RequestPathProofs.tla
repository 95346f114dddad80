-------------------------- MODULE RequestPathProofs --------------------------
(***************************************************************************)
(* Proofs about RequestPath for any requests, definitions of queues, loads *)
(* and exclusions, and any number of changes of the configuration.         *)
(***************************************************************************)
EXTENDS RequestPath, SequenceTheorems, WellFoundedInduction, TLAPS

-----------------------------------------------------------------------------
(***************************************************************************)
(* Numbers and sequences.                                                  *)
(***************************************************************************)

\* A set of numbers that is not empty has a smallest one.
LEMMA Smallest ==
    ASSUME NEW S, S \subseteq Nat, S # {}
    PROVE  \E x \in S : \A y \in S : x <= y
<1>1. PICK x \in S : \A y \in S : ~(<<y, x>> \in OpToRel(<, Nat))
  BY NatLessThanWellFounded, WFMin
<1>2. ASSUME NEW y \in S PROVE x <= y
  <2>1. x \in Nat /\ y \in Nat
    OBVIOUS
  <2>2. ~(y < x)
    BY <1>1, <2>1 DEF OpToRel
  <2>. QED
    BY <2>1, <2>2
<1>. QED
  BY <1>2

\* A function that FlattenSeq builds: it joins the first i sequences.
Joins(f, ss, n) ==
    f = [i \in 1..n |-> IF i = 1 THEN ss[1] ELSE f[i - 1] \o ss[i]]

\* There is one, although its definition is recursive.
LEMMA JoinsExists ==
    ASSUME NEW T, NEW ss \in Seq(Seq(T))
    PROVE  \E f : Joins(f, ss, Len(ss))
<1>. DEFINE Bad == {n \in 0..Len(ss) : ~ \E f : Joins(f, ss, n)}
<1>1. Len(ss) \in Nat /\ Bad \subseteq Nat
  BY LenProperties
<1>2. SUFFICES ASSUME Bad # {} PROVE FALSE
  BY <1>1
<1>3. PICK n \in Bad : \A k \in Bad : n <= k
  BY <1>1, <1>2, Smallest
<1>4. CASE n = 0
  <2>1. Joins([i \in 1..0 |-> << >>], ss, 0)
    BY DEF Joins
  <2>. QED
    BY <1>3, <1>4, <2>1
<1>5. CASE n # 0
  <2>1. n \in 1..Len(ss) /\ n - 1 \in 0..Len(ss) /\ ~(n <= n - 1)
    BY <1>1, <1>3, <1>5
  <2>2. n - 1 \notin Bad
    BY <1>3, <2>1
  <2>3. PICK f : Joins(f, ss, n - 1)
    BY <2>1, <2>2
  <2>. DEFINE g == [i \in 1..n |-> IF i = n THEN (IF i = 1 THEN ss[1] ELSE f[i - 1] \o ss[i])
                                             ELSE f[i]]
  <2>4. \A i \in 1..(n - 1) : g[i] = f[i]
    BY <2>1
  <2>5. \A i \in 1..(n - 1) : f[i] = IF i = 1 THEN ss[1] ELSE f[i - 1] \o ss[i]
    BY <2>1, <2>3 DEF Joins
  <2>6. ASSUME NEW i \in 1..n PROVE g[i] = IF i = 1 THEN ss[1] ELSE g[i - 1] \o ss[i]
    <3>1. i # 1 => i - 1 \in 1..(n - 1)
      BY <2>1
    <3>2. i # 1 => g[i - 1] = f[i - 1]
      BY <2>4, <3>1
    <3>3. CASE i = n
      BY <3>2, <3>3
    <3>4. CASE i # n
      <4>1. i \in 1..(n - 1)
        BY <2>1, <3>4
      <4>. QED
        BY <2>4, <2>5, <3>2, <4>1
    <3>. QED
      BY <3>3, <3>4
  <2>7. Joins(g, ss, n)
    <3>. HIDE DEF g
    <3>1. g = [i \in 1..n |-> g[i]]
      BY DEF g
    <3>. QED
      BY <2>6, <3>1 DEF Joins
  <2>. QED
    BY <1>3, <2>7
<1>. QED
  BY <1>4, <1>5

\* What two sequences hold together, in the form the proofs below use.
LEMMA JoinedRange ==
    ASSUME NEW T
    PROVE  \A a, b \in Seq(T) : \A x : x \in Range(a \o b) <=> x \in Range(a) \/ x \in Range(b)
  BY RangeConcatenation, SMT

\* FlattenSeq joins sequences: its elements are the elements of them.
LEMMA FlattenProperties ==
    ASSUME NEW T, NEW ss \in Seq(Seq(T))
    PROVE  /\ FlattenSeq(ss) \in Seq(T)
           /\ \A x : x \in Range(FlattenSeq(ss)) <=> \E i \in DOMAIN ss : x \in Range(ss[i])
<1>1. Len(ss) \in Nat /\ DOMAIN ss = 1..Len(ss) /\ \A i \in 1..Len(ss) : ss[i] \in Seq(T)
  BY LenProperties
<1>2. CASE Len(ss) = 0
  <2>1. FlattenSeq(ss) = ss
    BY <1>2 DEF FlattenSeq
  <2>2. ss = << >>
    BY <1>2, EmptySeq
  <2>. QED
    BY <2>1, <2>2 DEF Range
<1>3. CASE Len(ss) # 0
  <2>. DEFINE f == CHOOSE g : Joins(g, ss, Len(ss))
  <2>1. FlattenSeq(ss) = f[Len(ss)]
    BY <1>3 DEF FlattenSeq, Joins
  <2>2. Joins(f, ss, Len(ss))
    BY JoinsExists
  <2>. HIDE DEF f
  <2>3. \A i \in 1..Len(ss) : f[i] = IF i = 1 THEN ss[1] ELSE f[i - 1] \o ss[i]
    BY <1>1, <2>2 DEF Joins
  <2>. DEFINE Good(n) == /\ f[n] \in Seq(T)
                         /\ \A x : x \in Range(f[n]) <=> \E i \in 1..n : x \in Range(ss[i])
              Bad == {n \in 1..Len(ss) : ~Good(n)}
  <2>4. ASSUME Bad = {} PROVE Good(Len(ss))
    <3>1. Len(ss) \in 1..Len(ss)
      BY <1>1, <1>3
    <3>. QED
      BY <2>4, <3>1
  <2>. HIDE DEF Good
  <2>5. SUFFICES ASSUME Bad # {} PROVE FALSE
    BY <1>1, <2>1, <2>4 DEF Good
  <2>6. Bad \subseteq Nat
    BY <1>1
  <2>7. PICK n \in Bad : \A k \in Bad : n <= k
    <3>. HIDE DEF Bad
    <3>. QED
      BY <2>5, <2>6, Smallest
  <2>8. CASE n = 1
    <3>1. f[1] = ss[1] /\ 1 \in 1..Len(ss)
      BY <1>1, <2>3, <2>7, <2>8
    <3>2. Good(1)
      BY <1>1, <3>1 DEF Good
    <3>. QED
      BY <2>7, <2>8, <3>2
  <2>9. CASE n # 1
    <3>1. n \in 1..Len(ss) /\ n - 1 \in 1..Len(ss) /\ ~(n <= n - 1)
      BY <1>1, <2>7, <2>9
    <3>2. Good(n - 1)
      BY <2>7, <3>1
    <3>3. f[n] = f[n - 1] \o ss[n] /\ ss[n] \in Seq(T)
      BY <1>1, <2>3, <2>9, <3>1
    <3>4. f[n] \in Seq(T)
      BY <3>2, <3>3 DEF Good
    <3>5. Range(f[n]) = Range(f[n - 1]) \cup Range(ss[n])
      <4>. DEFINE a == f[n - 1]
                  b == ss[n]
                  both == a \o b
                  upTo == f[n]
      <4>1. a \in Seq(T) /\ b \in Seq(T)
        BY <3>2, <3>3 DEF Good
      <4>2. upTo = both
        BY <3>3
      <4>. HIDE DEF a, b
      <4>3. \A x : x \in Range(both) <=> x \in Range(a) \/ x \in Range(b)
        BY <4>1, JoinedRange
      <4>. HIDE DEF both, upTo
      <4>4. Range(upTo) = Range(a) \cup Range(b)
        BY <4>2, <4>3
      <4>. QED
        BY <4>4, Zenon DEF a, b, upTo
    <3>6. \A i \in 1..n : i = n \/ i \in 1..(n - 1)
      BY <3>1
    <3>7. \A i \in 1..(n - 1) : i \in 1..n
      BY <3>1
    <3>8. n \in 1..n
      BY <3>1
    <3>9. \A x : x \in Range(f[n]) <=> \E i \in 1..n : x \in Range(ss[i])
      BY <3>2, <3>5, <3>6, <3>7, <3>8 DEF Good
    <3>. QED
      BY <2>7, <3>4, <3>9 DEF Good
  <2>. QED
    BY <2>8, <2>9
<1>. QED
  BY <1>2, <1>3

\* Texts that start with parts of one length are equal part by part.
LEMMA CancelStart ==
    ASSUME NEW T, NEW a \in Seq(T), NEW b \in Seq(T), NEW x \in Seq(T), NEW y \in Seq(T),
           Len(a) = Len(b), a \o x = b \o y
    PROVE  a = b /\ x = y
<1>1. Len(a) \in Nat /\ Len(b) \in Nat /\ Len(x) \in Nat /\ Len(y) \in Nat
  OBVIOUS
<1>2. /\ Len(a \o x) = Len(a) + Len(x) /\ Len(b \o y) = Len(b) + Len(y)
      /\ \A i \in 1..(Len(a) + Len(x)) : (a \o x)[i] = IF i <= Len(a) THEN a[i] ELSE x[i - Len(a)]
      /\ \A i \in 1..(Len(b) + Len(y)) : (b \o y)[i] = IF i <= Len(b) THEN b[i] ELSE y[i - Len(b)]
  BY ConcatProperties
<1>3. Len(x) = Len(y)
  BY <1>1, <1>2
<1>4. \A i \in 1..Len(a) : a[i] = b[i]
  BY <1>1, <1>2
<1>5. ASSUME NEW i \in 1..Len(x) PROVE x[i] = y[i]
  <2>. DEFINE j == Len(a) + i
  <2>1. j \in 1..(Len(a) + Len(x)) /\ j - Len(a) = i /\ ~(j <= Len(a))
    BY <1>1
  <2>2. j \in 1..(Len(b) + Len(y)) /\ j - Len(b) = i /\ ~(j <= Len(b))
    BY <1>3, <2>1
  <2>. HIDE DEF j
  <2>. QED
    BY <1>2, <2>1, <2>2
<1>6. a = b
  BY <1>4, SeqEqual
<1>7. x = y
  BY <1>3, <1>5, SeqEqual
<1>. QED
  BY <1>6, <1>7

LEMMA CancelHead ==
    ASSUME NEW T, NEW H \in Seq(T), NEW x \in Seq(T), NEW y \in Seq(T), H \o x = H \o y
    PROVE  x = y
  BY CancelStart

\* Two texts whose first parts are free of a separator, which starts the
\* second parts, if there are any, are equal part by part.
LEMMA SplitAt ==
    ASSUME NEW T, NEW c \in T, NEW a \in Seq(T), NEW b \in Seq(T), NEW s \in Seq(T), NEW t \in Seq(T),
           c \notin Range(a), c \notin Range(b), s = << >> \/ s[1] = c, t = << >> \/ t[1] = c,
           a \o s = b \o t
    PROVE  a = b /\ s = t
<1>1. (\A i \in 1..Len(a) : a[i] # c) /\ \A i \in 1..Len(b) : b[i] # c
  BY LenProperties DEF Range
<1>2. /\ Len(a) \in Nat /\ Len(b) \in Nat /\ Len(s) \in Nat /\ Len(t) \in Nat
      /\ s # << >> => Len(s) >= 1
      /\ t # << >> => Len(t) >= 1
      /\ Len(<< >>) = 0
  BY EmptySeq
<1>3. /\ Len(a \o s) = Len(a) + Len(s) /\ Len(b \o t) = Len(b) + Len(t)
      /\ \A i \in 1..(Len(a) + Len(s)) : (a \o s)[i] = IF i <= Len(a) THEN a[i] ELSE s[i - Len(a)]
      /\ \A i \in 1..(Len(b) + Len(t)) : (b \o t)[i] = IF i <= Len(b) THEN b[i] ELSE t[i - Len(b)]
  BY ConcatProperties
<1>4. Len(a) + Len(s) = Len(b) + Len(t)
  BY <1>3
<1>5. ~(Len(a) < Len(b))
  <2>. SUFFICES ASSUME Len(a) < Len(b) PROVE FALSE
    OBVIOUS
  <2>. DEFINE i == Len(a) + 1
  <2>1. s # << >>
    BY <1>2, <1>4
  <2>2. i \in 1..(Len(a) + Len(s)) /\ i \in 1..Len(b) /\ i - Len(a) = 1 /\ ~(i <= Len(a))
    BY <1>2, <2>1
  <2>3. (a \o s)[i] = c
    BY <1>3, <2>1, <2>2
  <2>4. (b \o t)[i] = b[i]
    BY <1>2, <1>3, <2>2
  <2>. QED
    BY <1>1, <2>2, <2>3, <2>4
<1>6. ~(Len(b) < Len(a))
  <2>. SUFFICES ASSUME Len(b) < Len(a) PROVE FALSE
    OBVIOUS
  <2>. DEFINE i == Len(b) + 1
  <2>1. t # << >>
    BY <1>2, <1>4
  <2>2. i \in 1..(Len(b) + Len(t)) /\ i \in 1..Len(a) /\ i - Len(b) = 1 /\ ~(i <= Len(b))
    BY <1>2, <2>1
  <2>3. (b \o t)[i] = c
    BY <1>3, <2>1, <2>2
  <2>4. (a \o s)[i] = a[i]
    BY <1>2, <1>3, <2>2
  <2>. QED
    BY <1>1, <2>2, <2>3, <2>4
<1>7. Len(a) = Len(b)
  BY <1>2, <1>5, <1>6
<1>. QED
  BY <1>7, CancelStart

\* Texts that end in parts of one length are equal part by part.
LEMMA CancelEndFirst ==
    ASSUME NEW T, NEW a \in Seq(T), NEW b \in Seq(T), NEW x \in Seq(T), NEW y \in Seq(T),
           Len(x) = Len(y), a \o x = b \o y
    PROVE  a = b
<1>1. Len(a) \in Nat /\ Len(b) \in Nat /\ Len(x) \in Nat
  OBVIOUS
<1>2. /\ Len(a \o x) = Len(a) + Len(x) /\ Len(b \o y) = Len(b) + Len(y)
      /\ \A i \in 1..(Len(a) + Len(x)) : (a \o x)[i] = IF i <= Len(a) THEN a[i] ELSE x[i - Len(a)]
      /\ \A i \in 1..(Len(b) + Len(y)) : (b \o y)[i] = IF i <= Len(b) THEN b[i] ELSE y[i - Len(b)]
  BY ConcatProperties
<1>3. Len(a) = Len(b)
  BY <1>1, <1>2
<1>. QED
  BY <1>3, CancelStart

LEMMA CancelEndSecond ==
    ASSUME NEW T, NEW a \in Seq(T), NEW b \in Seq(T), NEW x \in Seq(T), NEW y \in Seq(T),
           Len(x) = Len(y), a \o x = b \o y
    PROVE  x = y
<1>1. a = b
  BY CancelEndFirst, Zenon
<1>. QED
  BY <1>1, CancelStart

\* What FlattenSeq has joined after n sequences of one length.
LEMMA JoinsProperties ==
    ASSUME NEW T, NEW k \in Nat \ {0}, NEW ss \in Seq(Seq(T)), Len(ss) # 0,
           \A i \in 1..Len(ss) : Len(ss[i]) = k
    PROVE  \E f : /\ FlattenSeq(ss) = f[Len(ss)]
                  /\ f[1] = ss[1]
                  /\ \A n \in 1..Len(ss) : /\ f[n] \in Seq(T) /\ Len(f[n]) >= k
                                           /\ n # 1 => f[n] = f[n - 1] \o ss[n] /\ Len(f[n]) > k
<1>1. Len(ss) \in Nat /\ \A i \in 1..Len(ss) : ss[i] \in Seq(T)
  BY LenProperties
<1>. DEFINE f == CHOOSE g : Joins(g, ss, Len(ss))
<1>2. FlattenSeq(ss) = f[Len(ss)]
  BY DEF FlattenSeq, Joins
<1>3. Joins(f, ss, Len(ss))
  BY JoinsExists
<1>. HIDE DEF f
<1>4. \A i \in 1..Len(ss) : f[i] = IF i = 1 THEN ss[1] ELSE f[i - 1] \o ss[i]
  BY <1>1, <1>3 DEF Joins
<1>. DEFINE Good(n) == f[n] \in Seq(T) /\ Len(f[n]) >= k /\ (n # 1 => Len(f[n]) > k)
            Bad == {n \in 1..Len(ss) : ~Good(n)}
<1>5. Bad = {}
  <2>. HIDE DEF Good
  <2>1. SUFFICES ASSUME Bad # {} PROVE FALSE
    OBVIOUS
  <2>2. Bad \subseteq Nat
    BY <1>1
  <2>3. PICK n \in Bad : \A m \in Bad : n <= m
    <3>. HIDE DEF Bad
    <3>. QED
      BY <2>1, <2>2, Smallest
  <2>4. n \in 1..Len(ss) /\ ~Good(n)
    OBVIOUS
  <2>5. CASE n = 1
    <3>1. f[1] = ss[1]
      BY <1>4, <2>4, <2>5
    <3>. QED
      BY <1>1, <2>4, <2>5, <3>1 DEF Good
  <2>6. CASE n # 1
    <3>1. n - 1 \in 1..Len(ss) /\ ~(n <= n - 1)
      BY <1>1, <2>4, <2>6
    <3>2. Good(n - 1)
      BY <2>3, <3>1
    <3>3. f[n] = f[n - 1] \o ss[n] /\ ss[n] \in Seq(T) /\ Len(ss[n]) = k
      BY <1>1, <1>4, <2>4, <2>6
    <3>4. f[n - 1] \in Seq(T) /\ Len(f[n - 1]) >= k
      BY <3>2 DEF Good
    <3>5. f[n] \in Seq(T) /\ Len(f[n]) = Len(f[n - 1]) + k
      <4>1. \A a, b \in Seq(T) : a \o b \in Seq(T) /\ Len(a \o b) = Len(a) + Len(b)
        BY ConcatProperties
      <4>. QED
        BY <3>3, <3>4, <4>1
    <3>6. Len(f[n - 1]) \in Nat
      BY <3>4
    <3>. QED
      BY <2>4, <3>4, <3>5, <3>6 DEF Good
  <2>. QED
    BY <2>5, <2>6
<1>6. f[1] = ss[1]
  BY <1>1, <1>4
<1>. QED
  BY <1>2, <1>4, <1>5, <1>6

\* Sequences of one length can be told apart after they have been joined.
LEMMA PiecesSame ==
    ASSUME NEW T, NEW k \in Nat \ {0}, NEW ss \in Seq(Seq(T)), NEW tt \in Seq(Seq(T)),
           \A i \in 1..Len(ss) : Len(ss[i]) = k, \A i \in 1..Len(tt) : Len(tt[i]) = k,
           FlattenSeq(ss) = FlattenSeq(tt)
    PROVE  ss = tt
<1>1. Len(ss) \in Nat /\ Len(tt) \in Nat
      /\ (\A i \in 1..Len(ss) : ss[i] \in Seq(T)) /\ (\A i \in 1..Len(tt) : tt[i] \in Seq(T))
  BY LenProperties
<1>2. \A s \in Seq(Seq(T)) : Len(s) = 0 => FlattenSeq(s) = << >> /\ s = << >>
  BY EmptySeq DEF FlattenSeq
<1>3. CASE Len(ss) = 0 \/ Len(tt) = 0
  <2>1. ASSUME NEW s \in Seq(Seq(T)), \A i \in 1..Len(s) : Len(s[i]) = k, Len(s) # 0
        PROVE  FlattenSeq(s) # << >>
    <3>1. PICK f : FlattenSeq(s) = f[Len(s)] /\ \A n \in 1..Len(s) : f[n] \in Seq(T) /\ Len(f[n]) >= k
      BY <2>1, JoinsProperties
    <3>2. Len(s) \in 1..Len(s)
      BY <2>1
    <3>3. Len(FlattenSeq(s)) >= k
      BY <3>1, <3>2
    <3>. QED
      BY <3>3
  <2>. QED
    BY <1>2, <1>3, <2>1
<1>4. CASE Len(ss) # 0 /\ Len(tt) # 0
  <2>1. PICK f : /\ FlattenSeq(ss) = f[Len(ss)] /\ f[1] = ss[1]
                 /\ \A n \in 1..Len(ss) : /\ f[n] \in Seq(T) /\ Len(f[n]) >= k
                                          /\ n # 1 => f[n] = f[n - 1] \o ss[n] /\ Len(f[n]) > k
    BY <1>4, JoinsProperties
  <2>2. PICK g : /\ FlattenSeq(tt) = g[Len(tt)] /\ g[1] = tt[1]
                 /\ \A n \in 1..Len(tt) : /\ g[n] \in Seq(T) /\ Len(g[n]) >= k
                                          /\ n # 1 => g[n] = g[n - 1] \o tt[n] /\ Len(g[n]) > k
    BY <1>4, JoinsProperties
  <2>. DEFINE Same(n, m) == n = m /\ \A i \in 1..n : ss[i] = tt[i]
              Bad == {n \in 1..Len(ss) : \E m \in 1..Len(tt) : f[n] = g[m] /\ ~Same(n, m)}
  <2>3. Bad = {}
    <3>. HIDE DEF Same
    <3>1. SUFFICES ASSUME Bad # {} PROVE FALSE
      OBVIOUS
    <3>2. Bad \subseteq Nat
      BY <1>1
    <3>3. PICK n \in Bad : \A j \in Bad : n <= j
      <4>. HIDE DEF Bad
      <4>. QED
        BY <3>1, <3>2, Smallest
    <3>4. PICK m \in 1..Len(tt) : n \in 1..Len(ss) /\ f[n] = g[m] /\ ~Same(n, m)
      BY <3>3
    <3>5. CASE n = 1 /\ m = 1
      <4>1. ss[1] = tt[1]
        BY <2>1, <2>2, <3>4, <3>5
      <4>2. \A i \in 1..1 : i = 1
        OBVIOUS
      <4>. QED
        BY <3>4, <3>5, <4>1, <4>2 DEF Same
    <3>6. CASE (n = 1 /\ m # 1) \/ (n # 1 /\ m = 1)
      <4>1. 1 \in 1..Len(ss) /\ 1 \in 1..Len(tt)
        BY <1>1, <1>4
      <4>2. Len(f[1]) = k /\ Len(g[1]) = k
        BY <2>1, <2>2, <4>1
      <4>3. (n # 1 => Len(f[n]) > k) /\ (m # 1 => Len(g[m]) > k)
        BY <2>1, <2>2, <3>4
      <4>4. ~(k > k)
        OBVIOUS
      <4>. QED
        BY <3>4, <3>6, <4>2, <4>3, <4>4
    <3>7. CASE n # 1 /\ m # 1
      <4>1. n - 1 \in 1..Len(ss) /\ m - 1 \in 1..Len(tt) /\ ~(n <= n - 1) /\ n \in Nat /\ m \in Nat
        BY <1>1, <3>4, <3>7
      <4>2. /\ f[n - 1] \in Seq(T) /\ g[m - 1] \in Seq(T) /\ ss[n] \in Seq(T) /\ tt[m] \in Seq(T)
            /\ Len(ss[n]) = Len(tt[m])
        BY <1>1, <2>1, <2>2, <3>4, <4>1
      <4>3. f[n - 1] \o ss[n] = g[m - 1] \o tt[m]
        BY <2>1, <2>2, <3>4, <3>7
      <4>4. f[n - 1] = g[m - 1]
        BY <4>2, <4>3, CancelEndFirst, Zenon
      <4>5. ss[n] = tt[m]
        BY <4>2, <4>3, CancelEndSecond, Zenon
      <4>6. n - 1 \notin Bad
        BY <3>3, <4>1
      <4>7. Same(n - 1, m - 1)
        BY <4>1, <4>4, <4>6
      <4>8. n = m /\ \A i \in 1..(n - 1) : ss[i] = tt[i]
        BY <4>1, <4>7 DEF Same
      <4>9. \A i \in 1..n : i = n \/ i \in 1..(n - 1)
        BY <4>1
      <4>10. Same(n, m)
        BY <4>5, <4>8, <4>9 DEF Same
      <4>. QED
        BY <3>4, <4>10
    <3>. QED
      BY <3>5, <3>6, <3>7
  <2>4. Len(ss) \in 1..Len(ss) /\ Len(tt) \in 1..Len(tt)
    BY <1>1, <1>4
  <2>5. Same(Len(ss), Len(tt))
    <3>1. Len(ss) \notin Bad
      BY <2>3
    <3>2. f[Len(ss)] = g[Len(tt)]
      BY <2>1, <2>2
    <3>. HIDE DEF Same
    <3>. QED
      BY <2>4, <3>1, <3>2
  <2>. QED
    BY <2>5, SeqEqual
<1>. QED
  BY <1>1, <1>3, <1>4

\* The last of what is joined is at the end.
LEMMA FlattenEnds ==
    ASSUME NEW T, NEW k \in Nat \ {0}, NEW ss \in Seq(Seq(T)), ss # << >>,
           \A i \in 1..Len(ss) : Len(ss[i]) = k
    PROVE  /\ FlattenSeq(ss) \in Seq(T) /\ Len(FlattenSeq(ss)) >= k
           /\ Last(FlattenSeq(ss)) = Last(ss[Len(ss)])
<1>1. Len(ss) \in Nat \ {0} /\ \A i \in 1..Len(ss) : ss[i] \in Seq(T)
  BY LenProperties, EmptySeq
<1>2. PICK f : /\ FlattenSeq(ss) = f[Len(ss)] /\ f[1] = ss[1]
               /\ \A n \in 1..Len(ss) : /\ f[n] \in Seq(T) /\ Len(f[n]) >= k
                                        /\ n # 1 => f[n] = f[n - 1] \o ss[n] /\ Len(f[n]) > k
  BY <1>1, JoinsProperties
<1>. DEFINE n == Len(ss)
<1>3. n \in 1..Len(ss) /\ n \in Nat
  BY <1>1
<1>. HIDE DEF n
<1>4. CASE n = 1
  BY <1>2, <1>3, <1>4 DEF n
<1>5. CASE n # 1
  <2>1. n - 1 \in 1..Len(ss)
    BY <1>1, <1>3, <1>5
  <2>2. f[n - 1] \in Seq(T) /\ ss[n] \in Seq(T) /\ Len(ss[n]) = k /\ f[n] = f[n - 1] \o ss[n]
    BY <1>1, <1>2, <1>3, <1>5, <2>1
  <2>3. \A a, b \in Seq(T) : Len(b) > 0 => Last(a \o b) = Last(b)
    <3>1. SUFFICES ASSUME NEW a \in Seq(T), NEW b \in Seq(T), Len(b) > 0 PROVE Last(a \o b) = Last(b)
      OBVIOUS
    <3>2. Len(a \o b) = Len(a) + Len(b) /\ Len(a) \in Nat /\ Len(b) \in Nat
      OBVIOUS
    <3>3. (a \o b)[Len(a) + Len(b)] = b[Len(b)]
      BY <3>1, <3>2
    <3>. QED
      BY <3>2, <3>3 DEF Last
  <2>4. Last(f[n]) = Last(ss[n])
    BY <2>2, <2>3
  <2>. QED
    BY <1>2, <1>3, <2>4 DEF n
<1>. QED
  BY <1>4, <1>5

\* Appending adds one element.
LEMMA RangeOfAppend ==
    ASSUME NEW T, NEW s \in Seq(T), NEW x \in T
    PROVE  Range(Append(s, x)) = Range(s) \cup {x}
<1>. DEFINE t == Append(s, x)
<1>1. Len(s) \in Nat /\ DOMAIN s = 1..Len(s)
  BY LenProperties
<1>2. t \in Seq(T) /\ Len(t) = Len(s) + 1
      /\ (\A i \in 1..Len(s) : t[i] = s[i]) /\ t[Len(s) + 1] = x
  BY AppendProperties
<1>3. DOMAIN t = 1..(Len(s) + 1)
  BY <1>2, LenProperties
<1>. HIDE DEF t
<1>4. \A i \in DOMAIN t : i \in DOMAIN s \/ i = Len(s) + 1
  BY <1>1, <1>3
<1>5. Len(s) + 1 \in DOMAIN t /\ DOMAIN s \subseteq DOMAIN t
  BY <1>1, <1>3
<1>6. ASSUME NEW y \in Range(t) PROVE y \in Range(s) \cup {x}
  BY <1>1, <1>2, <1>4 DEF Range
<1>7. ASSUME NEW y \in Range(s) \cup {x} PROVE y \in Range(t)
  BY <1>1, <1>2, <1>5 DEF Range
<1>. QED
  BY <1>6, <1>7 DEF t

\* Without takes out the entries of a name, and nothing else.
LEMMA WithoutProperties ==
    ASSUME NEW T, NEW array \in Seq(T), NEW name
    PROVE  /\ Without(array, name) \in Seq(T)
           /\ \A x : x \in Range(Without(array, name)) <=> x \in Range(array) /\ x.name # name
<1>. DEFINE kept(d) == IF d.name = name THEN << >> ELSE <<d>>
            ss == [i \in DOMAIN array |-> kept(array[i])]
<1>1. Len(array) \in Nat /\ DOMAIN array = 1..Len(array) /\ \A i \in DOMAIN array : array[i] \in T
  BY LenProperties
<1>2. \A d \in T : kept(d) \in Seq(T)
  OBVIOUS
<1>3. \A d, x : x \in Range(kept(d)) <=> d.name # name /\ x = d
  <2>. TAKE d, x
  <2>1. CASE d.name = name
    BY <2>1 DEF Range
  <2>2. CASE d.name # name
    <3>1. Range(<<d>>) = {d}
      BY DEF Range
    <3>. QED
      BY <2>2, <3>1
  <2>. QED
    BY <2>1, <2>2
<1>. HIDE DEF kept
<1>4. ss \in [1..Len(array) -> Seq(T)]
  BY <1>1, <1>2
<1>5. ss \in Seq(Seq(T)) /\ DOMAIN ss = DOMAIN array
  BY <1>1, <1>4, SeqDef
<1>6. Without(array, name) = FlattenSeq(ss)
  BY DEF Without, kept
<1>7. \A i \in DOMAIN array : ss[i] = kept(array[i])
  OBVIOUS
<1>. HIDE DEF ss
<1>8. /\ FlattenSeq(ss) \in Seq(T)
      /\ \A x : x \in Range(FlattenSeq(ss)) <=> \E i \in DOMAIN ss : x \in Range(ss[i])
  BY <1>5, FlattenProperties
<1>9. \A x : (\E i \in DOMAIN ss : x \in Range(ss[i])) <=>
              \E i \in DOMAIN array : array[i].name # name /\ x = array[i]
  BY <1>3, <1>5, <1>7
<1>10. \A x : x \in Range(array) <=> \E i \in DOMAIN array : x = array[i]
  BY DEF Range
<1>11. ASSUME NEW x PROVE x \in Range(FlattenSeq(ss)) <=> x \in Range(array) /\ x.name # name
  BY <1>8, <1>9, <1>10
<1>. QED
  BY <1>6, <1>8, <1>11, Zenon

-----------------------------------------------------------------------------
(***************************************************************************)
(* The choice among the queues that have been read.                        *)
(***************************************************************************)
Reading == [def: Definitions, load: Loads \cup {Unreadable}]
Beats(a, b) ==
    \/ a.load < b.load
    \/ a.load = b.load /\ a.def.priority > b.def.priority

\* What determineQueueForUrl() compares are numbers.
LEMMA ReadingsCompare ==
    \A a \in Reading : a.load \in Nat /\ a.def \in Definitions /\ a.def.priority \in Int
  BY RequestAssumption DEF Reading

\* Of the readings there is one that none beats and that beats all before it.
LEMMA SelectedProperties ==
    ASSUME NEW matching \in Seq(Reading), matching # << >>
    PROVE  /\ selected(matching) \in DOMAIN matching
           /\ \A j \in DOMAIN matching : ~Beats(matching[j], matching[selected(matching)])
<1>. DEFINE Best(i, n) == /\ \A j \in 1..n : ~Beats(matching[j], matching[i])
                          /\ \A j \in 1..(i - 1) : Beats(matching[i], matching[j])
            Found(n) == \E i \in 1..n : Best(i, n)
            Bad == {n \in 1..Len(matching) : ~Found(n)}
<1>1. Len(matching) \in Nat \ {0} /\ DOMAIN matching = 1..Len(matching)
  BY LenProperties, EmptySeq
<1>2. \A i \in 1..Len(matching) : matching[i] \in Reading
  BY LenProperties
<1>3. Bad = {}
  <2>. SUFFICES ASSUME Bad # {} PROVE FALSE
    OBVIOUS
  <2>1. Bad \subseteq Nat
    BY <1>1
  <2>2. PICK n \in Bad : \A k \in Bad : n <= k
    <3>. HIDE DEF Bad
    <3>. QED
      BY <2>1, Smallest
  <2>3. n \in 1..Len(matching)
    BY <2>2
  <2>4. CASE n = 1
    <3>1. ~Beats(matching[1], matching[1])
      BY <1>2, <2>3, <2>4, ReadingsCompare DEF Beats
    <3>2. Best(1, 1)
      BY <3>1
    <3>. QED
      BY <2>2, <2>4, <3>2
  <2>5. CASE n # 1
    <3>1. n - 1 \in 1..Len(matching) /\ ~(n <= n - 1)
      BY <1>1, <2>3, <2>5
    <3>2. PICK i \in 1..(n - 1) : Best(i, n - 1)
      BY <2>2, <3>1
    <3>3. i \in 1..Len(matching) /\ i \in 1..n /\ i # n
      BY <1>1, <2>3, <3>2
    <3>4. \A j \in 1..n : j \in 1..Len(matching) /\ (j = n \/ j \in 1..(n - 1))
      BY <1>1, <2>3
    <3>5. CASE Beats(matching[n], matching[i])
      <4>1. ASSUME NEW j \in 1..(n - 1) PROVE Beats(matching[n], matching[j])
        <5>1. ~Beats(matching[j], matching[i]) /\ j \in 1..Len(matching)
          BY <1>1, <2>3, <3>2
        <5>. QED
          BY <1>2, <2>3, <3>3, <3>5, <5>1, ReadingsCompare DEF Beats
      <4>2. ASSUME NEW j \in 1..n PROVE ~Beats(matching[j], matching[n])
        <5>1. j = n \/ Beats(matching[n], matching[j])
          BY <3>4, <4>1
        <5>. QED
          BY <1>2, <2>3, <3>4, <5>1, ReadingsCompare DEF Beats
      <4>3. n \in 1..n /\ Best(n, n)
        BY <2>3, <4>1, <4>2
      <4>. QED
        BY <2>2, <4>3
    <3>6. CASE ~Beats(matching[n], matching[i])
      <4>1. Best(i, n)
        BY <3>2, <3>4, <3>6
      <4>. QED
        BY <2>2, <3>3, <4>1
    <3>. QED
      BY <3>5, <3>6
  <2>. QED
    BY <2>4, <2>5
<1>4. PICK i \in 1..Len(matching) : Best(i, Len(matching))
  <2>1. Len(matching) \in 1..Len(matching)
    BY <1>1
  <2>. QED
    BY <1>3, <2>1
<1>5. selected(matching) =
        CHOOSE k \in DOMAIN matching :
            /\ \A j \in DOMAIN matching : ~Beats(matching[j], matching[k])
            /\ \A j \in 1..(k - 1) : Beats(matching[k], matching[j])
  BY DEF selected, Beats
<1>. QED
  BY <1>1, <1>4, <1>5

-----------------------------------------------------------------------------
(***************************************************************************)
(* The inductive invariant.                                                *)
(***************************************************************************)
Choice == [array: Seq(Definitions) \cup {None}, next: Nat, matching: Seq(Reading),
           steady: SUBSET Definitions]

\* Everything that is there has a place in the choice.
Placed ==
    /\ queues \in Seq(Definitions)
    /\ choice \in Choice

\* The map of queues has those of the definitions that are enabled, and no others.
Opened ==
    /\ \A d \in Range(queues) : d.enabled => d.name \in live
    /\ live \subseteq {d.name : d \in Range(queues)}

\* A definition that was there all along and fits the URL has been asked, or
\* the router will still come to it.
Met(c, from) ==
    \A d \in c.steady : Fits(d, Url(request)) =>
        \/ \E e \in Range(c.matching) : e.def = d
        \/ \E i \in DOMAIN Array(c) : i >= from /\ Array(c)[i] = d
NobodyIsMissed ==
    stage = "choosing" =>
        choice.steady \subseteq Range(queues) /\ Met(choice, choice.next)

IInv == TypeOK /\ Placed /\ Opened /\ NobodyIsMissed /\ ChoiceIsBest

\* The array the router goes over.
LEMMA ArrayTyped ==
    ASSUME queues \in Seq(Definitions), NEW c \in Choice
    PROVE  /\ Array(c) \in Seq(Definitions)
           /\ DOMAIN Array(c) = 1..Len(Array(c)) /\ Len(Array(c)) \in Nat
  BY LenProperties DEF Array, Choice

\* The next entry that is asked is one of the array, and none before it that is
\* still there fits.
LEMMA CandidateProperties ==
    ASSUME NEW array \in Seq(Definitions), NEW from \in Nat \ {0}, Opened
    PROVE  /\ candidate(array, from) \in DOMAIN array \cup {0}
           /\ candidate(array, from) \in Nat
           /\ \A k \in DOMAIN array :
                k >= from /\ Fits(array[k], Url(request)) /\ array[k] \in Range(queues) =>
                  candidate(array, from) # 0 /\ k >= candidate(array, from)
<1>. DEFINE asked == {k \in from .. Len(array) :
                        Fits(array[k], Url(request)) /\ array[k].name \in live}
<1>1. Len(array) \in Nat /\ DOMAIN array = 1..Len(array)
  BY LenProperties
<1>2. candidate(array, from) = IF asked = {} THEN 0 ELSE Min(asked)
  BY DEF candidate
<1>3. asked \subseteq Nat \ {0} /\ asked \subseteq DOMAIN array
  BY <1>1
<1>4. \A k \in DOMAIN array :
        k >= from /\ Fits(array[k], Url(request)) /\ array[k] \in Range(queues) => k \in asked
  <2>1. \A d \in Range(queues) : Fits(d, Url(request)) => d.name \in live
    BY DEF Opened, Fits
  <2>. QED
    BY <1>1, <2>1
<1>. HIDE DEF asked
<1>5. asked # {} => Min(asked) \in asked /\ \A k \in asked : Min(asked) <= k
  BY <1>3, Smallest DEF Min
<1>6. candidate(array, from) = 0 \/ candidate(array, from) \in asked
  BY <1>2, <1>5
<1>7. ASSUME NEW k \in asked PROVE candidate(array, from) # 0 /\ k >= candidate(array, from)
  BY <1>2, <1>3, <1>5
<1>8. /\ candidate(array, from) \in DOMAIN array \cup {0}
      /\ candidate(array, from) \in Nat
  <2>. DEFINE k == candidate(array, from)
  <2>1. k = 0 \/ k \in asked
    BY <1>6
  <2>. HIDE DEF k
  <2>2. k \in DOMAIN array \cup {0}
    BY <1>3, <2>1, Zenon
  <2>3. k \in Nat
    BY <1>1, <2>2
  <2>. QED
    BY <2>2, <2>3 DEF k
<1>. QED
  BY <1>4, <1>7, <1>8, Zenon

-----------------------------------------------------------------------------
(***************************************************************************)
(* The steps.                                                              *)
(***************************************************************************)

\* A part of the type: a choice has a queue to wait for while it is made.
Waiting ==
    /\ stage = "choosing" <=> choice.next # 0
    /\ stage = "choosing" => choice.next \in DOMAIN Array(choice)

\* The router runs on to the next load, or to its choice.
LEMMA GoOnInvariant ==
    ASSUME queues \in Seq(Definitions), Opened, UNCHANGED <<request, queues>>,
           NEW c \in Choice, NEW from \in Nat \ {0}, NEW message,
           c.steady \subseteq Range(queues), Met(c, from), GoOn(c, from, message)
    PROVE  /\ choice' \in Choice
           /\ stage' \in {"choosing", "queued", "direct"}
           /\ Waiting' /\ NobodyIsMissed' /\ ChoiceIsBest'
<1>. DEFINE i == candidate(Array(c), from)
<1>1. Array(c) \in Seq(Definitions) /\ DOMAIN Array(c) = 1..Len(Array(c))
  BY ArrayTyped
<1>2. i \in Nat /\ i \in DOMAIN Array(c) \cup {0}
  BY <1>1, CandidateProperties
<1>3. \A k \in DOMAIN Array(c) :
        k >= from /\ Fits(Array(c)[k], Url(request)) /\ Array(c)[k] \in Range(queues) =>
          i # 0 /\ k >= i
  BY <1>1, CandidateProperties
<1>4. choice' = [c EXCEPT !.next = i]
  BY DEF GoOn
<1>5. choice' \in Choice /\ choice'.next = i /\ choice'.steady = c.steady
      /\ choice'.matching = c.matching /\ choice'.array = c.array
  BY <1>2, <1>4 DEF Choice
<1>6. Array(choice)' = Array(c)
  BY <1>5 DEF Array
<1>7. CASE i # 0
  <2>1. stage' = "choosing"
    BY <1>7 DEF GoOn
  <2>2. Waiting'
    BY <1>2, <1>5, <1>6, <1>7, <2>1 DEF Waiting
  <2>. HIDE DEF i
  <2>3. Met(choice, choice.next)'
    <3>. SUFFICES ASSUME NEW d \in c.steady, Fits(d, Url(request)),
                         ~ \E e \in Range(c.matching) : e.def = d
                  PROVE  \E k \in DOMAIN Array(c) : k >= i /\ Array(c)[k] = d
      BY <1>5, <1>6 DEF Met
    <3>1. PICK k \in DOMAIN Array(c) : k >= from /\ Array(c)[k] = d
      BY DEF Met
    <3>2. k >= i
      BY <1>3, <3>1
    <3>. QED
      BY <3>1, <3>2
  <2>4. NobodyIsMissed'
    BY <1>5, <2>3 DEF NobodyIsMissed
  <2>5. ChoiceIsBest'
    BY <2>1 DEF ChoiceIsBest
  <2>. QED
    BY <1>5, <2>1, <2>2, <2>4, <2>5
<1>8. CASE i = 0
  <2>1. stage' \in {"queued", "direct"}
    BY <1>8 DEF GoOn
  <2>2. outcome'.queue = IF c.matching = << >> THEN DefaultQueue
                         ELSE c.matching[selected(c.matching)].def.name
    BY <1>8 DEF GoOn
  <2>. HIDE DEF i
  <2>3. Waiting' /\ NobodyIsMissed'
    BY <1>5, <1>8, <2>1 DEF Waiting, NobodyIsMissed
  <2>4. ASSUME NEW d \in c.steady, Fits(d, Url(request))
        PROVE  \E e \in Range(c.matching) : e.def = d
    BY <1>3, <1>8, <2>4 DEF Met
  <2>5. c.matching \in Seq(Reading) /\ DOMAIN c.matching = 1..Len(c.matching)
    BY LenProperties DEF Choice
  <2>6. CASE c.matching = << >>
    <3>1. Range(c.matching) = {}
      BY <2>6 DEF Range
    <3>. QED
      BY <1>5, <2>1, <2>2, <2>3, <2>4, <2>6, <3>1 DEF ChoiceIsBest
  <2>7. CASE c.matching # << >>
    <3>. DEFINE s == selected(c.matching)
    <3>1. s \in DOMAIN c.matching /\ \A j \in DOMAIN c.matching : ~Beats(c.matching[j], c.matching[s])
      BY <2>5, <2>7, SelectedProperties
    <3>2. outcome'.queue = c.matching[s].def.name
      BY <2>2, <2>7
    <3>. HIDE DEF s
    <3>. DEFINE e == c.matching[s]
    <3>3. e \in Range(c.matching) /\ e \in Reading
      BY <2>5, <3>1, LenProperties DEF Range
    <3>4. ASSUME NEW o \in Range(c.matching)
          PROVE  e.load < o.load \/ (e.load = o.load /\ e.def.priority >= o.def.priority)
      <4>1. PICK j \in DOMAIN c.matching : o = c.matching[j]
        BY DEF Range
      <4>2. o \in Reading /\ ~Beats(o, e)
        BY <2>5, <3>1, <4>1, LenProperties
      <4>. HIDE DEF e
      <4>. QED
        BY <3>3, <4>2, ReadingsCompare DEF Beats
    <3>5. Range(c.matching) # {}
      BY <3>3
    <3>. HIDE DEF e
    <3>6. e.def.name = outcome'.queue
      BY <3>2 DEF e
    <3>7. ChoiceIsBest'
      BY <1>5, <2>4, <3>3, <3>4, <3>5, <3>6 DEF ChoiceIsBest
    <3>. QED
      BY <1>5, <2>1, <2>3, <3>7
  <2>. QED
    BY <2>6, <2>7
<1>. QED
  BY <1>7, <1>8

LEMMA InitInvariant == Init => IInv
<1>. SUFFICES ASSUME Init PROVE IInv
  OBVIOUS
<1>1. Range(InitialQueues) \subseteq Definitions
  BY DEF Definitions
<1>2. << >> \in Seq(Reading)
  OBVIOUS
<1>3. choice \in Choice
  BY <1>2 DEF Init, NoChoice, Choice
<1>4. TypeOK
  <2>1. live \subseteq {d.name : d \in Range(queues)}
    BY DEF Init
  <2>. QED
    BY <1>1, <2>1 DEF Init, TypeOK, NoChoice, Stages
<1>5. Opened
  BY DEF Init, Opened
<1>. QED
  BY <1>3, <1>4, <1>5, RequestAssumption DEF Init, IInv, Placed, NobodyIsMissed, ChoiceIsBest

\* Where the configuration stays, the map fits its definitions as before.
LEMMA OpenedKept == IInv /\ UNCHANGED configuration => Opened'
  BY DEF IInv, Opened, configuration

\* The type, from what an action may have changed.
LEMMA TypedAfter ==
    ASSUME request' # None => request'.endpoint \in Endpoints, stage' \in Stages,
           (stage' = "idle") <=> (request' = None), Waiting', Placed', Opened',
           customExclusions' \subseteq Exclusions
    PROVE  TypeOK'
<1>1. \A i \in DOMAIN choice'.matching : choice'.matching[i].load \in Loads \cup {Unreadable}
  <2>1. choice'.matching \in Seq(Reading)
    BY DEF Placed, Choice
  <2>2. \A i \in DOMAIN choice'.matching : choice'.matching[i] \in Reading
    BY <2>1, LenProperties
  <2>. QED
    BY <2>2 DEF Reading
<1>2. Range(queues') \subseteq Definitions
  BY LenProperties DEF Placed, Range
<1>. QED
  BY <1>1, <1>2 DEF TypeOK, Waiting, Opened

LEMMA ArriveInvariant ==
    ASSUME IInv, NEW r \in Requests, arrive(r)
    PROVE  IInv'
<1>1. request' = r /\ r # None /\ r.endpoint \in Endpoints
      /\ stage' \in {"intercept", "refused"} /\ UNCHANGED <<choice, outcome, configuration>>
  BY RequestAssumption DEF arrive
<1>2. choice.next = 0
  BY DEF IInv, TypeOK, arrive
<1>3. Placed' /\ Waiting'
  BY <1>1, <1>2 DEF IInv, Placed, Waiting, configuration
<1>4. TypeOK'
  BY <1>1, <1>3, TypedAfter, OpenedKept DEF IInv, TypeOK, Stages, configuration
<1>. QED
  BY <1>1, <1>3, <1>4, OpenedKept DEF IInv, NobodyIsMissed, ChoiceIsBest

LEMMA InterceptInvariant ==
    ASSUME IInv, intercept
    PROVE  IInv'
<1>1. stage = "intercept" /\ request # None /\ request' = request /\ choice.next = 0
      /\ UNCHANGED configuration
  BY DEF IInv, TypeOK, intercept
<1>. DEFINE message == resolve(Job)
            c == [NoChoice EXCEPT !.steady = Range(queues)]
<1>2. CASE stage' = "direct" /\ UNCHANGED <<choice, outcome>>
  <2>1. Placed' /\ Waiting'
    BY <1>1, <1>2 DEF IInv, Placed, Waiting, configuration
  <2>2. TypeOK'
    BY <1>1, <1>2, <2>1, TypedAfter, OpenedKept DEF IInv, TypeOK, Stages, configuration
  <2>. QED
    BY <1>1, <1>2, <2>1, <2>2, OpenedKept DEF IInv, NobodyIsMissed, ChoiceIsBest
<1>3. CASE GoOn(c, 1, message)
  <2>1. queues \in Seq(Definitions) /\ Range(queues) \subseteq Definitions
    BY DEF IInv, Placed, TypeOK
  <2>2. c \in Choice /\ c.steady = Range(queues) /\ c.array = None
    <3>1. << >> \in Seq(Reading)
      OBVIOUS
    <3>2. NoChoice \in Choice /\ NoChoice.array = None
      BY <3>1 DEF NoChoice, Choice
    <3>. HIDE DEF NoChoice
    <3>. QED
      BY <2>1, <3>2 DEF Choice
  <2>3. Met(c, 1)
    <3>1. Array(c) = queues /\ DOMAIN queues = 1..Len(queues)
      BY <2>1, <2>2, LenProperties DEF Array
    <3>2. \A k \in DOMAIN queues : k >= 1
      BY <3>1
    <3>. HIDE DEF c
    <3>. QED
      BY <2>2, <3>1, <3>2 DEF Met, Range
  <2>. HIDE DEF c, message
  <2>4. /\ choice' \in Choice
        /\ stage' \in {"choosing", "queued", "direct"}
        /\ Waiting' /\ NobodyIsMissed' /\ ChoiceIsBest'
    <3>1. Opened
      BY DEF IInv
    <3>. QED
      BY <1>1, <1>3, <2>1, <2>2, <2>3, <3>1, GoOnInvariant DEF configuration
  <2>5. Placed'
    BY <1>1, <2>1, <2>4 DEF Placed, configuration
  <2>6. TypeOK'
    BY <1>1, <2>4, <2>5, TypedAfter, OpenedKept DEF IInv, TypeOK, Stages, configuration
  <2>. QED
    BY <1>1, <2>4, <2>5, <2>6, OpenedKept DEF IInv
<1>. QED
  BY <1>2, <1>3 DEF intercept

LEMMA GetLoadInvariant ==
    ASSUME IInv, NEW load \in Loads \cup {Unreadable}, getLoad(load)
    PROVE  IInv'
<1>. DEFINE A == Array(choice)
            n == choice.next
            read == [def |-> A[n], load |-> load]
            c == [choice EXCEPT !.matching = Append(@, read)]
<1>1. /\ stage = "choosing" /\ request' = request /\ UNCHANGED configuration
      /\ GoOn(c, n + 1, outcome.message)
  BY DEF getLoad
<1>2. queues \in Seq(Definitions) /\ choice \in Choice /\ request # None
  BY <1>1 DEF IInv, Placed, TypeOK
<1>3. A \in Seq(Definitions) /\ n \in DOMAIN A /\ n \in Nat /\ DOMAIN A = 1..Len(A)
  BY <1>1, <1>2, ArrayTyped DEF IInv, TypeOK, Choice
<1>. HIDE DEF A, n
<1>4. read \in Reading
  BY <1>3, LenProperties DEF Reading
<1>5. choice.matching \in Seq(Reading)
  BY <1>2 DEF Choice
<1>6. /\ Append(choice.matching, read) \in Seq(Reading)
      /\ Range(Append(choice.matching, read)) = Range(choice.matching) \cup {read}
  <2>. HIDE DEF read
  <2>. QED
    BY <1>4, <1>5, AppendProperties, RangeOfAppend
<1>7. c \in Choice /\ c.steady = choice.steady /\ c.array = choice.array
      /\ c.matching = Append(choice.matching, read)
  <2>. HIDE DEF read
  <2>. QED
    BY <1>2, <1>6 DEF Choice
<1>8. Array(c) = A
  BY <1>7 DEF A, Array
<1>9. c.steady \subseteq Range(queues) /\ Met(choice, n)
  BY <1>1, <1>7 DEF IInv, NobodyIsMissed, n
<1>10. read.def = A[n]
  OBVIOUS
<1>. HIDE DEF c, read
<1>11. Met(c, n + 1)
  <2>. SUFFICES ASSUME NEW d \in choice.steady, Fits(d, Url(request)),
                       ~ \E e \in Range(c.matching) : e.def = d
                PROVE  \E k \in DOMAIN A : k >= n + 1 /\ A[k] = d
    BY <1>7, <1>8 DEF Met
  <2>1. ~ (\E e \in Range(choice.matching) : e.def = d) /\ A[n] # d
    BY <1>6, <1>7, <1>10
  <2>2. PICK k \in DOMAIN A : k >= n /\ A[k] = d
    BY <1>9, <2>1 DEF Met, A
  <2>3. k >= n + 1
    BY <1>3, <2>1, <2>2
  <2>. QED
    BY <2>2, <2>3
<1>12. /\ choice' \in Choice
       /\ stage' \in {"choosing", "queued", "direct"}
       /\ Waiting' /\ NobodyIsMissed' /\ ChoiceIsBest'
  <2>1. n + 1 \in Nat \ {0}
    BY <1>3
  <2>. QED
    <3>1. Opened
      BY DEF IInv
    <3>. QED
      BY <1>1, <1>2, <1>7, <1>9, <1>11, <2>1, <3>1, GoOnInvariant DEF configuration
<1>13. Placed'
  BY <1>1, <1>2, <1>12 DEF Placed, configuration
<1>14. TypeOK'
  BY <1>1, <1>2, <1>12, <1>13, TypedAfter, OpenedKept DEF IInv, TypeOK, Stages, configuration
<1>. QED
  BY <1>1, <1>12, <1>13, <1>14, OpenedKept DEF IInv

\* The calls of an administrator leave the request alone, but for what is kept
\* of the array.
LEMMA ChangeInvariant ==
    ASSUME IInv, UNCHANGED <<request, stage, choice, outcome>>,
           queues' \in Seq(Definitions), Range(queues) \subseteq Range(queues'),
           stage = "choosing" =>
               \A i \in DOMAIN Array(choice) :
                   i \in DOMAIN Array(choice)' /\ Array(choice)'[i] = Array(choice)[i],
           customExclusions' \subseteq Exclusions, Opened'
    PROVE  IInv'
<1>1. Placed' /\ Waiting'
  BY DEF IInv, TypeOK, Placed, Waiting
<1>2. TypeOK'
  BY <1>1, TypedAfter DEF IInv, TypeOK
<1>3. NobodyIsMissed'
  <2>. SUFFICES ASSUME stage = "choosing"
                PROVE  choice.steady \subseteq Range(queues') /\ Met(choice, choice.next)'
    BY DEF NobodyIsMissed
  <2>1. choice.steady \subseteq Range(queues) /\ Met(choice, choice.next)
    BY DEF IInv, NobodyIsMissed
  <2>2. Met(choice, choice.next)'
    BY <2>1 DEF Met
  <2>. QED
    BY <2>1, <2>2
<1>4. ChoiceIsBest'
  BY DEF IInv, ChoiceIsBest
<1>. QED
  BY <1>1, <1>2, <1>3, <1>4 DEF IInv

LEMMA CreateInvariant ==
    ASSUME IInv, NEW d \in Definitions, createQueue(d)
    PROVE  IInv'
<1>1. /\ queues' = Append(queues, d) /\ live' = live \cup {d.name}
      /\ UNCHANGED <<request, stage, choice, outcome, customExclusions>>
  BY DEF createQueue
<1>2. queues \in Seq(Definitions) /\ choice \in Choice
  BY DEF IInv, Placed
<1>3. /\ queues' \in Seq(Definitions) /\ Len(queues') = Len(queues) + 1
      /\ \A i \in 1..Len(queues) : queues'[i] = queues[i]
  BY <1>1, <1>2, AppendProperties
<1>4. Range(queues') = Range(queues) \cup {d}
  BY <1>1, <1>2, RangeOfAppend
<1>5. DOMAIN queues = 1..Len(queues) /\ DOMAIN queues' = 1..(Len(queues) + 1) /\ Len(queues) \in Nat
  BY <1>2, <1>3, LenProperties
<1>6. \A i \in DOMAIN queues : i \in DOMAIN queues' /\ queues'[i] = queues[i]
  BY <1>3, <1>5
<1>7. ASSUME NEW i \in DOMAIN Array(choice)
      PROVE  i \in DOMAIN Array(choice)' /\ Array(choice)'[i] = Array(choice)[i]
  BY <1>1, <1>6 DEF Array
<1>8. customExclusions' \subseteq Exclusions
  BY <1>1 DEF IInv, TypeOK
<1>9. Opened'
  <2>1. Opened
    BY DEF IInv
  <2>. QED
    BY <1>1, <1>4, <2>1 DEF Opened
<1>. QED
  BY <1>1, <1>3, <1>4, <1>7, <1>8, <1>9, ChangeInvariant

\* removeQueue() puts another array in the place of the one the router goes
\* over; the router keeps that one.
LEMMA RemoveInvariant ==
    ASSUME IInv, NEW d \in Definitions, removeQueue(d)
    PROVE  IInv'
<1>. DEFINE others == {e \in choice.steady : e.name # d.name}
<1>1. /\ queues' = Without(queues, d.name) /\ live' = live \ {d.name}
      /\ UNCHANGED <<request, stage, outcome, customExclusions>>
      /\ choice' = [choice EXCEPT !.steady = others,
                       !.array = IF stage = "choosing" THEN Array(choice) ELSE @]
  BY DEF removeQueue
<1>2. queues \in Seq(Definitions) /\ choice \in Choice
  BY DEF IInv, Placed
<1>3. /\ queues' \in Seq(Definitions)
      /\ \A e : e \in Range(queues') <=> e \in Range(queues) /\ e.name # d.name
  BY <1>1, <1>2, WithoutProperties
<1>4. Array(choice) \in Seq(Definitions) /\ Array(choice) # None
  BY <1>2, ArrayTyped, RequestAssumption
<1>5. /\ choice' \in Choice /\ choice'.steady = others /\ choice'.next = choice.next
      /\ choice'.matching = choice.matching
      /\ choice'.array = IF stage = "choosing" THEN Array(choice) ELSE choice.array
  <2>. HIDE DEF others
  <2>1. others \in SUBSET Definitions
    BY <1>2 DEF others, Choice
  <2>. QED
    BY <1>1, <1>2, <1>4, <2>1 DEF Choice
<1>6. stage = "choosing" => Array(choice)' = Array(choice)
  BY <1>4, <1>5 DEF Array
<1>7. Placed' /\ Waiting'
  BY <1>1, <1>3, <1>5, <1>6 DEF IInv, TypeOK, Placed, Waiting
<1>11. Opened'
  <2>1. Opened
    BY DEF IInv
  <2>. QED
    BY <1>1, <1>3, <2>1 DEF Opened
<1>8. TypeOK'
  BY <1>1, <1>7, <1>11, TypedAfter DEF IInv, TypeOK
<1>9. NobodyIsMissed'
  <2>. SUFFICES ASSUME stage = "choosing"
                PROVE  others \subseteq Range(queues') /\ Met(choice, choice.next)'
    BY <1>1, <1>5 DEF NobodyIsMissed
  <2>1. choice.steady \subseteq Range(queues) /\ Met(choice, choice.next)
    BY DEF IInv, NobodyIsMissed
  <2>2. others \subseteq Range(queues')
    BY <1>3, <2>1
  <2>3. Array(choice)' = Array(choice) /\ request' = request /\ choice'.next = choice.next
    BY <1>1, <1>5, <1>6
  <2>4. \A e \in others : e \in choice.steady
    OBVIOUS
  <2>. HIDE DEF others
  <2>5. Met(choice, choice.next)'
    <3>. SUFFICES ASSUME NEW e \in others, Fits(e, Url(request))
                  PROVE  \/ \E x \in Range(choice.matching) : x.def = e
                         \/ \E i \in DOMAIN Array(choice) : i >= choice.next /\ Array(choice)[i] = e
      BY <1>5, <2>3 DEF Met
    <3>. QED
      BY <2>1, <2>4 DEF Met
  <2>. QED
    BY <2>2, <2>5
<1>10. ChoiceIsBest'
  <2>. HIDE DEF others
  <2>1. others \subseteq choice.steady
    BY DEF others
  <2>. QED
    BY <1>1, <1>5, <2>1 DEF IInv, ChoiceIsBest
<1>. QED
  BY <1>7, <1>8, <1>9, <1>10, <1>11 DEF IInv

LEMMA NextInvariant == IInv /\ [Next]_vars => IInv'
<1>. SUFFICES ASSUME IInv, [Next]_vars PROVE IInv'
  OBVIOUS
<1>1. ASSUME NEW r \in Requests, arrive(r) PROVE IInv'
  BY <1>1, ArriveInvariant
<1>2. ASSUME intercept PROVE IInv'
  BY <1>2, InterceptInvariant
<1>3. ASSUME NEW l \in Loads \cup {Unreadable}, getLoad(l) PROVE IInv'
  BY <1>3, GetLoadInvariant
<1>4. ASSUME handle PROVE IInv'
  <2>1. stage = "direct" /\ stage' \in {"handled", "refused"}
        /\ UNCHANGED <<request, choice, outcome, configuration>>
    BY <1>4 DEF handle
  <2>2. Placed' /\ Waiting'
    BY <2>1 DEF IInv, TypeOK, Placed, Waiting, Array, configuration
  <2>3. TypeOK'
    BY <2>1, <2>2, TypedAfter, OpenedKept DEF IInv, TypeOK, Stages, configuration
  <2>. QED
    BY <2>1, <2>2, <2>3, OpenedKept DEF IInv, NobodyIsMissed, ChoiceIsBest
<1>5. ASSUME respond PROVE IInv'
  <2>1. request' = None /\ stage' = "idle" /\ choice' = NoChoice /\ UNCHANGED configuration
    BY <1>5 DEF respond
  <2>2. choice' \in Choice /\ choice'.next = 0
    <3>1. << >> \in Seq(Reading)
      OBVIOUS
    <3>. QED
      BY <2>1, <3>1 DEF NoChoice, Choice
  <2>3. Placed' /\ Waiting'
    BY <2>1, <2>2 DEF IInv, Placed, Waiting, configuration
  <2>4. TypeOK'
    BY <2>1, <2>3, TypedAfter, OpenedKept DEF IInv, TypeOK, Stages, configuration
  <2>. QED
    BY <2>1, <2>3, <2>4, OpenedKept DEF IInv, NobodyIsMissed, ChoiceIsBest
<1>6. ASSUME NEW d \in Definitions, createQueue(d) PROVE IInv'
  BY <1>6, CreateInvariant
<1>7. ASSUME NEW d \in Definitions, removeQueue(d) PROVE IInv'
  BY <1>7, RemoveInvariant
<1>8. ASSUME UNCHANGED <<request, stage, choice, outcome, queues, live>>,
             customExclusions' \subseteq Exclusions
      PROVE  IInv'
  <2>1. queues' \in Seq(Definitions) /\ Array(choice)' = Array(choice)
    BY <1>8 DEF IInv, Placed, Array
  <2>2. Opened'
    BY <1>8 DEF IInv, Opened
  <2>. QED
    BY <1>8, <2>1, <2>2, ChangeInvariant
<1>9. ASSUME NEW p \in Exclusions, addExclusion(p) PROVE IInv'
  BY <1>8, <1>9 DEF addExclusion, IInv, TypeOK
<1>10. ASSUME NEW p \in Exclusions, removeExclusion(p) PROVE IInv'
  BY <1>8, <1>10 DEF removeExclusion, IInv, TypeOK
<1>11. ASSUME clearCustomExclusions PROVE IInv'
  BY <1>8, <1>11 DEF clearCustomExclusions
<1>12. ASSUME UNCHANGED vars PROVE IInv'
  BY <1>8, <1>12 DEF vars, configuration, IInv, TypeOK
<1>. QED
  BY <1>1, <1>2, <1>3, <1>4, <1>5, <1>6, <1>7, <1>9, <1>10, <1>11, <1>12 DEF Next

\* The invariant holds of every request, whatever is created, removed and
\* excluded meanwhile.
THEOREM Invariant == Spec => []IInv
  BY InitInvariant, NextInvariant, PTL DEF Spec

\* The state of the way of a request has its type; the router waits for a queue
\* of its array exactly while it chooses.
THEOREM TypeCorrect == Spec => []TypeOK
<1>1. IInv => TypeOK
  BY DEF IInv
<1>. QED
  BY <1>1, Invariant, PTL

\* determineQueueForUrl() misses no queue that fits and stays, although the
\* array it goes over grows and is replaced, and none that it read beats the
\* one it chooses.
THEOREM BestQueueIsChosen == Spec => []ChoiceIsBest
<1>1. IInv => ChoiceIsBest
  BY DEF IInv
<1>. QED
  BY <1>1, Invariant, PTL

-----------------------------------------------------------------------------
(***************************************************************************)
(* The table of the routes.                                                *)
(***************************************************************************)

\* A path that starts with a word.
Rooted(path) == path[1] \notin {":id", "*"}

\* What the message of a GET request is made of is in the key of its response:
\* neither the body nor a header is a part of it.  Its path starts with a word.
Reads(route) ==
    route.method = "GET" =>
        /\ Rooted(route.path)
        /\ \A f \in DOMAIN route.fields : route.fields[f] \notin {Body, Header}
        /\ \A parts \in route.needs : Header \notin parts

\* A list of such routes.
ReadsOnly(table) == \E T : table \in Seq(T) /\ \A route \in T : Reads(route)

\* Fields that a GET request has too.
Readable(fields) == \A f \in DOMAIN fields : fields[f] \notin {Body, Header}

\* Routes made of such fields are routes a response can be kept of.
LEMMA RoutesRead ==
    \A method, path, resource, operation, fields : Readable(fields) /\ Rooted(path) =>
        /\ Reads(Require(method, path, resource, operation, fields))
        /\ Reads(Route(method, path, resource, operation, fields, {}))
  BY DEF Reads, Readable, Require, Route

\* So are those of any other method.
LEMMA RoutesWrite ==
    ASSUME NEW path, NEW resource, NEW operation, NEW fields, NEW method, method # "GET"
    PROVE  /\ Reads(Require(method, path, resource, operation, fields))
           /\ \A needs : Reads(Route(method, path, resource, operation, fields, needs))
  BY DEF Reads, Require, Route

\* What makes a list of routes one.
LEMMA ListReads ==
    ASSUME NEW T, NEW list \in Seq(T), \A route \in T : Reads(route)
    PROVE  ReadsOnly(list)
  BY DEF ReadsOnly

\* Lists can be joined.
LEMMA JoinedReads ==
    \A a, b : ReadsOnly(a) /\ ReadsOnly(b) => ReadsOnly(a \o b)
<1>. SUFFICES ASSUME NEW a, NEW b, ReadsOnly(a), ReadsOnly(b)
              PROVE  ReadsOnly(a \o b)
  OBVIOUS
<1>1. PICK S : a \in Seq(S) /\ \A route \in S : Reads(route)
  BY DEF ReadsOnly
<1>2. PICK T : b \in Seq(T) /\ \A route \in T : Reads(route)
  BY DEF ReadsOnly
<1>. DEFINE U == S \cup T
<1>3. a \in Seq(U) /\ b \in Seq(U)
  BY <1>1, <1>2, SeqDef
<1>4. \A route \in U : Reads(route)
  BY <1>1, <1>2
<1>. HIDE DEF U
<1>5. a \o b \in Seq(U)
  BY <1>3
<1>. QED
  BY <1>4, <1>5 DEF ReadsOnly

\* The parts a table names, and the key has.
LEMMA Parts ==
    /\ Body \notin {Id, Query, UserId} /\ Header \notin {Id, Query, UserId}
    /\ \A n : /\ Param(n) \notin {Body, Header} /\ Token(n) \notin {Body, Header}
              /\ Trimmed(Param(n)) \notin {Body, Header}
  BY DEF Body, Header, Id, Query, UserId, Param, Token, Trimmed

\* The payloads of the table: a part as a whole, parameters, or nothing.
LEMMA WholeRead ==
    ASSUME NEW part, part \notin {Body, Header}
    PROVE  Readable(Whole(part))
  BY DEF Readable, Whole

LEMMA ParamsRead == \A names : Readable(Params(names))
  BY Parts DEF Readable, Params

LEMMA NoneRead == Readable(<<>>)
  BY DEF Readable

\* The tables, one by one.
LEMMA CrudReads ==
    ASSUME NEW path, NEW resource, NEW dto, Rooted(path), Rooted(Append(path, ":id"))
    PROVE  ReadsOnly(CrudRoutes(path, resource, dto))
<1>. DEFINE One == Append(path, ":id")
            r1 == Route("POST", path, resource, "create", Whole(Body), {})
            r2 == Route("GET", path, resource, "list", Whole(Query), {})
            r3 == Require("GET", One, resource, "findOne", Whole(Id))
            r4 == Require("PATCH", One, resource, "update", "id" :> Id @@ dto :> Body)
            r5 == Require("DELETE", One, resource, "remove", Whole(Id))
<1>1. CrudRoutes(path, resource, dto) = <<r1, r2, r3, r4, r5>>
  BY Zenon DEF CrudRoutes
<1>2. Reads(r1) /\ Reads(r4) /\ Reads(r5)
  BY RoutesWrite
<1>3. Readable(Whole(Query)) /\ Readable(Whole(Id))
  BY WholeRead, Parts
<1>4. Reads(r2) /\ Reads(r3)
  BY <1>3, RoutesRead, Zenon
<1>. DEFINE list == <<r1, r2, r3, r4, r5>>
            T == {r1, r2, r3, r4, r5}
<1>7. list \in Seq(T)
  OBVIOUS
<1>. HIDE DEF r1, r2, r3, r4, r5
<1>8. \A route \in T : Reads(route)
  BY <1>2, <1>4
<1>. HIDE DEF list, T
<1>9. ReadsOnly(list)
  BY <1>7, <1>8, ListReads
<1>. QED
  BY <1>1, <1>9, Zenon DEF list

LEMMA EnrollmentReads == ReadsOnly(enrollmentRoutes)
<1>. DEFINE r1 == Require("GET", <<"academic-validations", "prerequisites", "check">>,
                          "enrollments.academic", "checkPrerequisites",
                          Params({"studentId", "courseId"}))
            r2 == Require("GET", <<"academic-validations", "enrollment", "validate">>,
                          "enrollments.academic", "validateEnrollment",
                          Params({"studentId", "courseSectionId", "termId"}))
            r3 == Route("GET", <<"students", "recommended-courses">>,
                        "enrollments.students", "recommendedCourses",
                        [f \in {"studentId", "studentCode"} |-> Trimmed(Param(f))],
                        {{Trimmed(Param("studentId")), Trimmed(Param("studentCode"))}})
<1>0. /\ Rooted(<<"academic-validations", "prerequisites", "check">>)
      /\ Rooted(<<"academic-validations", "enrollment", "validate">>)
      /\ Rooted(<<"students", "recommended-courses">>)
      /\ Rooted(<<"enrollments">>) /\ Rooted(Append(<<"enrollments">>, ":id"))
      /\ Rooted(<<"enrollment-details">>) /\ Rooted(Append(<<"enrollment-details">>, ":id"))
  BY DEF Rooted
<1>1. Reads(r1) /\ Reads(r2)
  BY <1>0, ParamsRead, RoutesRead, Zenon
<1>2. Reads(r3)
  BY <1>0, Parts DEF Reads, Route
<1>. DEFINE list == <<r1, r2, r3>>
            T == {r1, r2, r3}
<1>3. list \in Seq(T)
  OBVIOUS
<1>. HIDE DEF r1, r2, r3
<1>4. \A route \in T : Reads(route)
  BY <1>1, <1>2
<1>. HIDE DEF list, T
<1>5. ReadsOnly(list)
  BY <1>3, <1>4, ListReads
<1>. QED
  BY <1>0, <1>5, CrudReads, JoinedReads, Zenon DEF enrollmentRoutes, list, r1, r2, r3

LEMMA AtomicReads == ReadsOnly(atomicRoutes)
<1>. DEFINE At(rest) == <<"atomic-enrollment">> \o rest
            Enroll == [data |-> Body, idempotencyKey |-> Header]
            r1 == Require("POST", At(<<"enroll">>), "enrollments.atomic", "enroll", Enroll)
            r2 == Require("POST", At(<<"enroll", "batch">>),
                          "enrollments.atomic", "enrollBatch", Enroll)
            r3 == Require("GET", At(<<"course-section", ":id", "quota-status">>),
                          "enrollments.atomic", "quotaStatus", [courseSectionId |-> Id])
            r4 == Require("GET", At(<<"idempotency", "stats">>),
                          "enrollments.atomic", "idempotencyStats", <<>>)
<1>1. Reads(r1) /\ Reads(r2)
  BY RoutesWrite
<1>2. Readable([courseSectionId |-> Id])
  BY Parts DEF Readable
<1>6. Rooted(At(<<"course-section", ":id", "quota-status">>))
      /\ Rooted(At(<<"idempotency", "stats">>))
  BY DEF Rooted
<1>3. Reads(r3)
  BY <1>2, <1>6, RoutesRead, Zenon
<1>4. Reads(r4)
  BY <1>6, NoneRead, RoutesRead, Zenon
<1>5. atomicRoutes = <<r1, r2, r3, r4>>
  BY Zenon DEF atomicRoutes
<1>. DEFINE list == <<r1, r2, r3, r4>>
            T == {r1, r2, r3, r4}
<1>7. list \in Seq(T)
  OBVIOUS
<1>. HIDE DEF r1, r2, r3, r4
<1>8. \A route \in T : Reads(route)
  BY <1>1, <1>3, <1>4
<1>. HIDE DEF list, T
<1>9. ReadsOnly(list)
  BY <1>7, <1>8, ListReads
<1>. QED
  BY <1>5, <1>9, Zenon DEF list

LEMMA PerformanceReads == ReadsOnly(performanceRoutes)
<1>. DEFINE At(name, operation, names) ==
                Require("GET", <<"database-performance", name>>,
                        "enrollments.performance", operation, Params(names))
            r1 == At("prerequisites", "prerequisites", {"courseId"})
            r2 == At("approved-courses", "approvedCourses", {"studentId", "courseIds"})
            r3 == At("schedules", "schedules", {"courseSectionIds"})
            r4 == At("enrollment-count", "enrollmentCount", {"studentId", "termId"})
            r5 == At("batch-prerequisites", "batchPrerequisites", {"studentId", "courseIds"})
            r6 == At("has-passed", "hasPassed", {"studentId", "courseId"})
            r7 == At("student-enrollment-details", "studentEnrollmentDetails",
                     {"studentId", "termId"})
<1>1. \A name, operation, names : Reads(At(name, operation, names))
  <2>1. \A name : Rooted(<<"database-performance", name>>)
    BY DEF Rooted
  <2>. QED
    BY <2>1, ParamsRead, RoutesRead, Zenon
<1>2. performanceRoutes = <<r1, r2, r3, r4, r5, r6, r7>>
  BY Zenon DEF performanceRoutes
<1>. HIDE DEF At
<1>3. Reads(r1) /\ Reads(r2) /\ Reads(r3) /\ Reads(r4) /\ Reads(r5) /\ Reads(r6) /\ Reads(r7)
  BY <1>1
<1>. DEFINE list == <<r1, r2, r3, r4, r5, r6, r7>>
            T == {r1, r2, r3, r4, r5, r6, r7}
<1>7. list \in Seq(T)
  OBVIOUS
<1>. HIDE DEF r1, r2, r3, r4, r5, r6, r7
<1>8. \A route \in T : Reads(route)
  BY <1>3
<1>. HIDE DEF list, T
<1>9. ReadsOnly(list)
  BY <1>7, <1>8, ListReads
<1>. QED
  BY <1>2, <1>9, Zenon DEF list

LEMMA AuthReads == ReadsOnly(authRoutes)
<1>. DEFINE r1 == Route("POST", <<"auth", "register">>, "auth", "register", Whole(Body), {})
            r2 == Route("POST", <<"auth", "login">>, "auth", "login", Whole(Body), {})
            r3 == Route("GET", <<"auth", "users">>, "auth", "get-users", <<>>, {})
            r4 == Require("PATCH", <<"auth", "update-user">>, "auth", "update-user",
                          [userId |-> UserId, updateUserDto |-> Body])
            r5 == Require("PUT", <<"auth", "change-password">>, "auth", "change-password",
                          [userId |-> UserId, changePasswordDto |-> Body])
            r6 == Require("POST", <<"auth", "logout">>, "auth", "logout",
                          [jti |-> Token("jti"), exp |-> Token("exp")])
            r7 == Require("POST", <<"auth", "logout-all">>, "auth", "logout-all",
                          [userId |-> UserId])
<1>1. authRoutes = <<r1, r2, r3, r4, r5, r6, r7>>
  BY Zenon DEF authRoutes
<1>2. Reads(r1) /\ Reads(r2) /\ Reads(r4) /\ Reads(r5) /\ Reads(r6) /\ Reads(r7)
  BY RoutesWrite
<1>3. Reads(r3)
  <2>1. Rooted(<<"auth", "users">>)
    BY DEF Rooted
  <2>. QED
    BY <2>1, NoneRead, RoutesRead, Zenon
<1>. DEFINE list == <<r1, r2, r3, r4, r5, r6, r7>>
            T == {r1, r2, r3, r4, r5, r6, r7}
<1>7. list \in Seq(T)
  OBVIOUS
<1>. HIDE DEF r1, r2, r3, r4, r5, r6, r7
<1>8. \A route \in T : Reads(route)
  BY <1>2, <1>3
<1>. HIDE DEF list, T
<1>9. ReadsOnly(list)
  BY <1>7, <1>8, ListReads
<1>. QED
  BY <1>1, <1>9, Zenon DEF list

\* All routes.
LEMMA AllRead == ReadsOnly(routes)
<1>1. ReadsOnly(programRoutes)
  <2>1. /\ Rooted(<<"degree-programs">>) /\ Rooted(Append(<<"degree-programs">>, ":id"))
        /\ Rooted(<<"study-plans">>) /\ Rooted(Append(<<"study-plans">>, ":id"))
        /\ Rooted(<<"levels">>) /\ Rooted(Append(<<"levels">>, ":id"))
        /\ Rooted(<<"courses">>) /\ Rooted(Append(<<"courses">>, ":id"))
        /\ Rooted(<<"prerequisites">>) /\ Rooted(Append(<<"prerequisites">>, ":id"))
    BY DEF Rooted
  <2>. QED
    BY <2>1, CrudReads, JoinedReads, Zenon DEF programRoutes
<1>2. ReadsOnly(calendarRoutes)
  <2>1. /\ Rooted(<<"academic-years">>) /\ Rooted(Append(<<"academic-years">>, ":id"))
        /\ Rooted(<<"terms">>) /\ Rooted(Append(<<"terms">>, ":id"))
        /\ Rooted(<<"calendar", "managements">>) /\ Rooted(Append(<<"calendar", "managements">>, ":id"))
        /\ Rooted(<<"calendar", "periods">>) /\ Rooted(Append(<<"calendar", "periods">>, ":id"))
    BY DEF Rooted
  <2>. QED
    BY <2>1, CrudReads, JoinedReads, Zenon DEF calendarRoutes
<1>3. ReadsOnly(facilityRoutes) /\ ReadsOnly(teachingRoutes) /\ ReadsOnly(gradeRoutes)
  <2>1. /\ Rooted(<<"classrooms">>) /\ Rooted(Append(<<"classrooms">>, ":id"))
        /\ Rooted(<<"course-sections">>) /\ Rooted(Append(<<"course-sections">>, ":id"))
        /\ Rooted(<<"schedules">>) /\ Rooted(Append(<<"schedules">>, ":id"))
        /\ Rooted(<<"grades">>) /\ Rooted(Append(<<"grades">>, ":id"))
    BY DEF Rooted
  <2>. QED
    BY <2>1, CrudReads, JoinedReads, Zenon DEF facilityRoutes, teachingRoutes, gradeRoutes
<1>. QED
  BY <1>1, <1>2, <1>3, EnrollmentReads, AtomicReads, PerformanceReads, AuthReads, JoinedReads, Zenon
     DEF routes

\* Jobs that do not differ in what the key of the cache has.
Alike(a, b) ==
    /\ a.method = "GET" /\ b.method = "GET"
    /\ normalizePath(a.url) = normalizePath(b.url)
    /\ a.query = b.query /\ a.id = b.id /\ a.user = b.user

\* What a job has of a part that is neither the body nor a header.
LEMMA PartsAlike ==
    ASSUME NEW a, NEW b, Alike(a, b)
    PROVE  \A part : /\ part # Header => (Present(part, a) <=> Present(part, b))
                     /\ part \notin {Body, Header} => ValueOf(part, a) = ValueOf(part, b)
<1>1. a.query = b.query /\ a.id = b.id /\ a.user = b.user
  BY DEF Alike
<1>2. \A part : part # Header => (Present(part, a) <=> Present(part, b))
  BY <1>1 DEF Present, Query, Id
<1>3. \A part : part \notin {Body, Header} => ValueOf(part, a) = ValueOf(part, b)
  BY <1>1 DEF ValueOf
<1>. QED
  BY <1>2, <1>3

\* The route that is found for a method and a path.
Found(method, path) ==
    SelectInSeq(routes, LAMBDA route : route.method = method /\ matchPath(route.path, path))

\* It is a route of that method, of that path, and of the table.
LEMMA FoundProperties ==
    ASSUME NEW method, NEW path, ReadsOnly(routes)
    PROVE  Found(method, path) # 0 =>
             /\ routes[Found(method, path)].method = method
             /\ matchPath(routes[Found(method, path)].path, path)
             /\ Found(method, path) \in DOMAIN routes
             /\ Reads(routes[Found(method, path)])
<1>. DEFINE fit == {i \in 1..Len(routes) : routes[i].method = method /\ matchPath(routes[i].path, path)}
<1>1. Found(method, path) = IF fit # {} THEN Min(fit) ELSE 0
  BY DEF Found, SelectInSeq
<1>2. PICK T : routes \in Seq(T) /\ \A route \in T : Reads(route)
  BY DEF ReadsOnly
<1>3. /\ fit \subseteq Nat
      /\ \A i \in fit : /\ routes[i] \in T /\ routes[i].method = method
                        /\ matchPath(routes[i].path, path) /\ i \in DOMAIN routes
  BY <1>2, LenProperties
<1>. HIDE DEF fit
<1>4. fit # {} => Min(fit) \in fit
  BY <1>3, Smallest DEF Min
<1>. QED
  BY <1>1, <1>2, <1>3, <1>4

\* What resolve() finds, and makes of it.
Built(i, job) ==
    IF i = 0 \/ \E parts \in routes[i].needs : \A part \in parts : ~Present(part, job)
    THEN None
    ELSE [pattern |-> routes[i].pattern, payload |-> buildPayload(routes[i], job)]

\* resolve() builds the message of the route that is found.
LEMMA ResolveBuilds ==
    ASSUME NEW job
    PROVE  resolve(job) = Built(Found(job.method, normalizePath(job.url)), job)
  BY Zenon DEF resolve, Built, Found

\* Jobs that are alike become the same message: they find the same route, have
\* or lack the same parts, and the parts are equal.
LEMMA AlikeResolve ==
    ASSUME ReadsOnly(routes), NEW a, NEW b, Alike(a, b)
    PROVE  resolve(a) = resolve(b)
<1>. DEFINE i == Found("GET", normalizePath(a.url))
<1>1. resolve(a) = Built(i, a) /\ resolve(b) = Built(i, b)
  BY ResolveBuilds DEF Alike
<1>2. i # 0 => routes[i].method = "GET" /\ Reads(routes[i])
  BY FoundProperties
<1>. HIDE DEF i
<1>3. CASE i = 0
  BY <1>1, <1>3 DEF Built
<1>4. CASE i # 0
  <2>. DEFINE route == routes[i]
  <2>1. /\ \A f \in DOMAIN route.fields : route.fields[f] \notin {Body, Header}
        /\ \A parts \in route.needs : Header \notin parts
    BY <1>2, <1>4 DEF Reads
  <2>. HIDE DEF route
  <2>2. \A parts \in route.needs : \A part \in parts : Present(part, a) <=> Present(part, b)
    BY <2>1, PartsAlike
  <2>3. \A f \in DOMAIN route.fields :
           /\ Present(route.fields[f], a) <=> Present(route.fields[f], b)
           /\ ValueOf(route.fields[f], a) = ValueOf(route.fields[f], b)
    BY <2>1, PartsAlike
  <2>4. buildPayload(route, a) = buildPayload(route, b)
    <3>. DEFINE D(job) == {g \in DOMAIN route.fields : Present(route.fields[g], job)}
    <3>1. D(a) = D(b)
      BY <2>3
    <3>2. \A f \in D(b) : f \in DOMAIN route.fields
      OBVIOUS
    <3>3. buildPayload(route, a) = [f \in D(a) |-> ValueOf(route.fields[f], a)]
      BY Zenon DEF buildPayload
    <3>4. buildPayload(route, b) = [f \in D(b) |-> ValueOf(route.fields[f], b)]
      BY Zenon DEF buildPayload
    <3>. HIDE DEF D
    <3>. QED
      BY <2>3, <3>1, <3>2, <3>3, <3>4
  <2>5. Built(i, a) = Built(i, b)
    BY <1>4, <2>2, <2>4 DEF Built, route
  <2>. QED
    BY <1>1, <2>5
<1>. QED
  BY <1>3, <1>4

-----------------------------------------------------------------------------
(***************************************************************************)
(* URLs and keys.                                                          *)
(***************************************************************************)

\* The segment a trailing slash leaves, the others, and a URL without it.
Empty == ""
Words == STRING \ {Empty}
Plain(r) ==
    [i \in DOMAIN r.endpoint.path |->
        IF r.endpoint.path[i] = ":id" THEN r.id
        ELSE IF i = 1 THEN r.first ELSE r.endpoint.path[i]]
Low(word) == IF word \in DOMAIN Lower THEN Lower[word] ELSE word

\* What is assumed of the requests, for one of them and for two.
LEMMA RequestFacts ==
    ASSUME NEW r \in Requests
    PROVE  /\ r.endpoint.path \in Seq(Words) /\ r.endpoint.path # << >>
           /\ r.id \in Words /\ r.first \in Words /\ Low(r.first) = r.endpoint.path[1]
           /\ r.endpoint \in Endpoints
           /\ \A e \in Endpoints : /\ toLowerCase(e.path) = e.path
                                   /\ Low(r.id) \notin Range(e.path)
           /\ r.query \in [DOMAIN r.query -> Seq(STRING)] /\ DOMAIN r.query \subseteq Range(Names)
           /\ \A q \in Requests : Low(r.id) = Low(q.id) => r.id = q.id
<1>1. r.endpoint \in Endpoints
  BY RequestAssumption
<1>2. /\ r.endpoint.path \in Seq(Words) /\ r.endpoint.path # << >>
      /\ r.id \in Words /\ r.first \in Words
  BY <1>1, UrlAssumption, Zenon DEF Words, Empty
<1>3. \A w : toLowerCase(<<w>>) = <<Low(w)>>
  BY DEF toLowerCase, Low
<1>4. /\ \A e \in Endpoints : toLowerCase(e.path) = e.path
      /\ \A e \in Endpoints : toLowerCase(<<r.id>>)[1] \notin Range(e.path)
      /\ r.query \in [DOMAIN r.query -> Seq(STRING)] /\ DOMAIN r.query \subseteq Range(Names)
      /\ \A q \in Requests : toLowerCase(<<r.id>>) = toLowerCase(<<q.id>>) => r.id = q.id
  BY UrlAssumption, Zenon
<1>5. \A e \in Endpoints : Low(r.id) \notin Range(e.path)
  BY <1>3, <1>4
<1>6. \A q \in Requests : Low(r.id) = Low(q.id) => r.id = q.id
  BY <1>3, <1>4
<1>7. Low(r.first) = r.endpoint.path[1]
  <2>1. toLowerCase(<<r.first>>) = <<r.endpoint.path[1]>>
    BY UrlAssumption, Zenon
  <2>2. <<Low(r.first)>> = <<r.endpoint.path[1]>>
    BY <1>3, <2>1
  <2>. QED
    BY <2>2
<1>. QED
  BY <1>1, <1>2, <1>4, <1>5, <1>6, <1>7

\* The last place of a sequence that does not have a value.
Filled(url, blank) == SelectLastInSeq(url, LAMBDA s : s # blank)
\* The last segment that is not empty.
LEMMA LastWord ==
    ASSUME NEW url, NEW n \in Nat, NEW blank,
           Len(url) \in Nat, n <= Len(url),
           \A i \in 1..Len(url) : url[i] # blank <=> i <= n
    PROVE  Filled(url, blank) = n
<1>. DEFINE I == {i \in 1..Len(url) : url[i] # blank}
<1>1. Filled(url, blank) = IF I # {} THEN Max(I) ELSE 0
  BY Zenon DEF Filled, SelectLastInSeq
<1>2. \A i : i \in I <=> i \in Nat /\ 1 <= i /\ i <= n
  OBVIOUS
<1>. HIDE DEF I
<1>3. CASE n = 0
  <2>1. I = {}
    BY <1>2, <1>3
  <2>. QED
    BY <1>1, <1>3, <2>1
<1>4. CASE n # 0
  <2>1. n \in I /\ \A i \in I : i <= n /\ i \in Nat
    BY <1>2, <1>4
  <2>2. \A x \in I : (\A y \in I : x >= y) <=> x = n
    BY <2>1
  <2>3. Max(I) = n
    BY <2>1, <2>2 DEF Max
  <2>. QED
    BY <1>1, <2>1, <2>3
<1>. QED
  BY <1>3, <1>4

\* A trailing slash makes no difference to the path that is routed and to the
\* URL in the key.
LEMMA Slashes ==
    ASSUME NEW W, Empty \notin W, NEW p \in Seq(W), p # << >>, NEW url,
           url = p \/ url = p \o <<Empty>>
    PROVE  normalizePath(url) = p /\ normalizeUrl(url) = toLowerCase(p)
<1>. DEFINE n == Len(p)
            U == W \cup {Empty}
<1>1. n \in Nat /\ 0 < n /\ p \in [1..n -> W] /\ \A i \in 1..n : p[i] # Empty
  BY LenProperties, EmptySeq
<1>2. p \in Seq(U) /\ <<Empty>> \in Seq(U)
  BY SeqDef
<1>3. p = SubSeq(p, 1, n) /\ p = SubSeq(p \o <<Empty>>, 1, n)
  BY <1>2
<1>4. Len(p \o <<Empty>>) = n + 1 /\ (p \o <<Empty>>)[n + 1] = Empty
  BY <1>2
<1>5. \A i \in 1..n : (p \o <<Empty>>)[i] = p[i]
  BY <1>2
<1>6. n = Len(p)
  OBVIOUS
<1>. HIDE DEF n, U
<1>7. CASE url = p
  <2>1. Filled(url, Empty) = n
    <3>1. n <= Len(url) /\ Len(url) \in Nat
      BY <1>1, <1>6, <1>7
    <3>2. \A i \in 1..Len(url) : url[i] # Empty <=> i <= n
      BY <1>1, <1>6, <1>7
    <3>. QED
      BY <1>1, <3>1, <3>2, LastWord
  <2>2. normalizePath(url) = p
    BY <1>3, <1>7, <2>1, Zenon DEF normalizePath, Filled, Empty
  <2>3. Last(url) # Empty
    BY <1>1, <1>6, <1>7 DEF Last
  <2>4. normalizeUrl(url) = toLowerCase(p)
    BY <1>7, <2>3, Zenon DEF normalizeUrl, Empty
  <2>. QED
    BY <2>2, <2>4
<1>8. CASE url = p \o <<Empty>>
  <2>1. Filled(url, Empty) = n
    <3>1. n <= Len(url) /\ Len(url) \in Nat
      BY <1>1, <1>4, <1>8
    <3>2. \A i \in 1..Len(url) : url[i] # Empty <=> i <= n
      BY <1>1, <1>4, <1>5, <1>8
    <3>. QED
      BY <1>1, <3>1, <3>2, LastWord
  <2>2. normalizePath(url) = p
    BY <1>3, <1>8, <2>1, Zenon DEF normalizePath, Filled, Empty
  <2>3. Len(url) > 1 /\ Last(url) = Empty
    BY <1>1, <1>4, <1>8 DEF Last
  <2>4. Front(url) = p
    BY <1>1, <1>3, <1>4, <1>8 DEF Front
  <2>5. normalizeUrl(url) = toLowerCase(p)
    BY <2>3, <2>4, Zenon DEF normalizeUrl, Empty
  <2>. QED
    BY <2>2, <2>5
<1>. QED
  BY <1>7, <1>8

\* The URL of a request, as it is routed and as it is in the key.
LEMMA PlainUrl ==
    ASSUME NEW r \in Requests
    PROVE  normalizePath(Url(r)) = Plain(r) /\ normalizeUrl(Url(r)) = toLowerCase(Plain(r))
<1>1. /\ r.endpoint.path \in Seq(Words) /\ r.endpoint.path # << >>
      /\ r.id \in Words /\ r.first \in Words
  BY RequestFacts
<1>. DEFINE path == r.endpoint.path
            p == Plain(r)
<1>2. DOMAIN path = 1..Len(path) /\ Len(path) \in Nat /\ \A i \in DOMAIN path : path[i] \in Words
  BY <1>1, LenProperties
<1>3. p \in [1..Len(path) -> Words] /\ DOMAIN p = 1..Len(path)
  BY <1>1, <1>2 DEF Plain
<1>4. p \in Seq(Words) /\ p # << >>
  <2>1. p \in Seq(Words)
    BY <1>2, <1>3, SeqDef
  <2>2. Len(path) # 0
    BY <1>1, EmptySeq
  <2>3. 1 \in DOMAIN p
    BY <1>2, <1>3, <2>2
  <2>. HIDE DEF p
  <2>. QED
    BY <2>1, <2>3
<1>5. Url(r) = p \o IF r.slash THEN <<Empty>> ELSE << >>
  BY Zenon DEF Url, Plain, Empty
<1>6. Empty \notin Words
  BY Zenon DEF Words
<1>. HIDE DEF p, path
<1>7. Url(r) = p \/ Url(r) = p \o <<Empty>>
  <2>1. p \o << >> = p
    BY <1>4, ConcatEmptySeq
  <2>. QED
    BY <1>5, <2>1
<1>. QED
  BY <1>4, <1>6, <1>7, Slashes DEF p

\* The segments of such a URL.
LEMMA PlainAt ==
    ASSUME NEW r \in Requests, NEW i \in DOMAIN r.endpoint.path
    PROVE  Plain(r)[i] = IF r.endpoint.path[i] = ":id" THEN r.id
                         ELSE IF i = 1 THEN r.first ELSE r.endpoint.path[i]
  BY DEF Plain

\* The lower case of a URL is that of its segments.
LEMMA LowerWords ==
    ASSUME NEW p, NEW i \in DOMAIN p
    PROVE  toLowerCase(p)[i] = Low(p[i])
  BY DEF toLowerCase, Low

\* Two requests with the same URL in the key: one path, and the same id in it.
LEMMA SameUrl ==
    ASSUME NEW r \in Requests, NEW q \in Requests,
           toLowerCase(Plain(r)) = toLowerCase(Plain(q))
    PROVE  /\ r.endpoint.path = q.endpoint.path
           /\ ":id" \in Range(r.endpoint.path) => r.id = q.id
<1>. DEFINE e == r.endpoint.path
            f == q.endpoint.path
            colon == ":id"
<1>1. /\ e \in Seq(Words) /\ f \in Seq(Words)
      /\ toLowerCase(e) = e /\ toLowerCase(f) = f
      /\ Low(r.id) \notin Range(f) /\ Low(q.id) \notin Range(e)
      /\ Low(r.id) = Low(q.id) => r.id = q.id
      /\ Low(r.first) = e[1] /\ Low(q.first) = f[1]
  BY RequestFacts
<1>2. /\ DOMAIN Plain(r) = DOMAIN e /\ DOMAIN Plain(q) = DOMAIN f
      /\ \A i \in DOMAIN e : Plain(r)[i] = IF e[i] = colon THEN r.id
                                            ELSE IF i = 1 THEN r.first ELSE e[i]
      /\ \A i \in DOMAIN f : Plain(q)[i] = IF f[i] = colon THEN q.id
                                            ELSE IF i = 1 THEN q.first ELSE f[i]
  <2>1. DOMAIN Plain(r) = DOMAIN e /\ DOMAIN Plain(q) = DOMAIN f
    BY DEF Plain
  <2>. QED
    BY <2>1, PlainAt
<1>3. \A p : DOMAIN toLowerCase(p) = DOMAIN p
  BY DEF toLowerCase
<1>4. DOMAIN e = DOMAIN f
  BY <1>2, <1>3
<1>. HIDE DEF e, f, colon
<1>5. ASSUME NEW i \in DOMAIN e
      PROVE  /\ e[i] = f[i]
             /\ e[i] = colon => r.id = q.id
  <2>1. Low(Plain(r)[i]) = Low(Plain(q)[i])
    BY <1>2, <1>4, LowerWords
  <2>2. /\ e[i] # colon => Low(Plain(r)[i]) = e[i]
        /\ f[i] # colon => Low(Plain(q)[i]) = f[i]
    <3>1. Low(e[i]) = e[i] /\ Low(f[i]) = f[i]
      BY <1>1, <1>4, LowerWords
    <3>2. /\ e[i] # colon => Plain(r)[i] = IF i = 1 THEN r.first ELSE e[i]
          /\ f[i] # colon => Plain(q)[i] = IF i = 1 THEN q.first ELSE f[i]
      BY <1>2, <1>4
    <3>. QED
      BY <1>1, <3>1, <3>2
  <2>3. e[i] \in Range(e) /\ f[i] \in Range(f)
    BY <1>4 DEF Range
  <2>a. /\ e[i] = colon => Plain(r)[i] = r.id
        /\ f[i] = colon => Plain(q)[i] = q.id
    BY <1>2, <1>4
  <2>4. CASE e[i] = colon /\ f[i] = colon
    BY <1>1, <2>1, <2>4, <2>a
  <2>5. CASE e[i] = colon /\ f[i] # colon
    BY <1>1, <2>1, <2>2, <2>3, <2>5, <2>a
  <2>6. CASE e[i] # colon /\ f[i] = colon
    BY <1>1, <2>1, <2>2, <2>3, <2>6, <2>a
  <2>7. CASE e[i] # colon /\ f[i] # colon
    BY <2>1, <2>2, <2>7
  <2>. QED
    BY <2>4, <2>5, <2>6, <2>7
<1>6. e = f
  <2>1. e \in [DOMAIN e -> Words] /\ f \in [DOMAIN f -> Words]
    BY <1>1, SeqDef
  <2>. QED
    BY <1>4, <1>5, <2>1
<1>7. colon \in Range(e) => r.id = q.id
  BY <1>5 DEF Range
<1>. QED
  BY <1>6, <1>7 DEF e, f, colon

\* Of parameters that are not repeated the key has all there is.
LEMMA SameQuery ==
    ASSUME NEW r \in Requests, NEW q \in Requests, Single(r), Single(q),
           extractQueryParams(r.query) = extractQueryParams(q.query)
    PROVE  r.query = q.query
<1>. DEFINE a == r.query
            b == q.query
<1>1. a \in [DOMAIN a -> Seq(STRING)] /\ b \in [DOMAIN b -> Seq(STRING)]
  BY RequestFacts
<1>2. /\ \A name \in DOMAIN a : Len(a[name]) = 1
      /\ \A name \in DOMAIN b : Len(b[name]) = 1
  BY DEF Single
<1>3. \A name \in DOMAIN a : extractQueryParams(a)[name] = Last(a[name])
  BY DEF extractQueryParams
<1>4. \A name \in DOMAIN b : extractQueryParams(b)[name] = Last(b[name])
  BY DEF extractQueryParams
<1>5. DOMAIN a = DOMAIN b
  <2>1. DOMAIN extractQueryParams(a) = DOMAIN a
    BY DEF extractQueryParams
  <2>2. DOMAIN extractQueryParams(b) = DOMAIN b
    BY DEF extractQueryParams
  <2>. QED
    BY <2>1, <2>2
<1>6. extractQueryParams(a) = extractQueryParams(b)
  OBVIOUS
<1>. HIDE DEF a, b
<1>7. ASSUME NEW name \in DOMAIN a PROVE a[name] = b[name]
  <2>1. a[name] \in Seq(STRING) /\ b[name] \in Seq(STRING)
    BY <1>1, <1>5
  <2>2. Len(a[name]) = 1 /\ Len(b[name]) = 1
    BY <1>2, <1>5
  <2>3. Last(a[name]) = a[name][1] /\ Last(b[name]) = b[name][1]
    BY <2>2 DEF Last
  <2>4. a[name][1] = b[name][1]
    BY <1>3, <1>4, <1>5, <1>6, <2>3
  <2>. QED
    BY <2>1, <2>2, <2>4, SeqEqual
<1>8. a = b
  BY <1>1, <1>5, <1>7
<1>. QED
  BY <1>8 DEF a, b

\* The parts of a key: the segments of the URL, the names of the parameters,
\* the parameters, and the user.
Slashed(list) == FlattenSeq([i \in DOMAIN list |-> <<"/">> \o spell(list[i])])
Sorted(params) ==
    FlattenSeq([i \in DOMAIN Names |-> IF Names[i] \in DOMAIN params THEN <<Names[i]>> ELSE << >>])
Pairs(params) ==
    FlattenSeq([i \in DOMAIN Sorted(params) |->
        spell(Sorted(params)[i]) \o <<"=">> \o spell(params[Sorted(params)[i]]) \o <<"&">>])
Ending(user) == IF user = None THEN << >> ELSE <<":", "user", ":">> \o spell(user)

\* What a key is: its parts in a row.
LEMMA KeyText ==
    ASSUME NEW T, ":" \in T, NEW method \in T, NEW url, NEW params, NEW user,
           Slashed(normalizeUrl(url)) \in Seq(T), normalizeQueryParams(params) \in Seq(T),
           Ending(user) \in Seq(T)
    PROVE  generateHttpRequestKey(method, url, params, user) =
             <<method, ":">> \o (Slashed(normalizeUrl(url)) \o
                 (<<":">> \o (normalizeQueryParams(params) \o Ending(user))))
<1>. DEFINE H == <<method, ":">>
            C == <<":">>
            a == Slashed(normalizeUrl(url))
            c == normalizeQueryParams(params)
            e == Ending(user)
            key == generateHttpRequestKey(method, url, params, user)
<1>1. key = H \o a \o C \o c \o e
  BY Zenon DEF generateHttpRequestKey, Joined, Slashed, Ending
<1>2. a \in Seq(T) /\ c \in Seq(T) /\ e \in Seq(T) /\ H \in Seq(T) /\ C \in Seq(T)
  OBVIOUS
<1>. HIDE DEF a, c, e, key, H, C
<1>. DEFINE Ha == H \o a
            HaC == Ha \o C
            ce == c \o e
            Cce == C \o ce
<1>3. Ha \in Seq(T) /\ ce \in Seq(T)
  BY <1>2, ConcatProperties
<1>4. HaC \in Seq(T) /\ Cce \in Seq(T)
  <2>. HIDE DEF Ha, ce
  <2>. QED
    BY <1>2, <1>3, ConcatProperties
<1>5. (HaC \o c) \o e = HaC \o ce
  <2>. HIDE DEF HaC
  <2>1. HaC \in Seq(T) /\ c \in Seq(T) /\ e \in Seq(T)
    BY <1>2, <1>4
  <2>. QED
    BY <2>1
<1>6. HaC \o ce = Ha \o Cce
  <2>. HIDE DEF Ha, ce
  <2>1. Ha \in Seq(T) /\ C \in Seq(T) /\ ce \in Seq(T)
    BY <1>2, <1>3
  <2>. QED
    BY <2>1
<1>7. Ha \o Cce = H \o (a \o Cce)
  <2>. HIDE DEF Cce
  <2>1. H \in Seq(T) /\ a \in Seq(T) /\ Cce \in Seq(T)
    BY <1>2, <1>4
  <2>. QED
    BY <2>1
<1>8. (HaC \o c) \o e = H \o (a \o Cce)
  <2>. HIDE DEF Ha, HaC, ce, Cce
  <2>. QED
    BY <1>5, <1>6, <1>7
<1>9. key = H \o (a \o (C \o (c \o e)))
  BY <1>1, <1>8
<1>. QED
  BY <1>9, Zenon DEF key, a, c, e, H, C

\* The text of the parameters is that of the pairs, but for the last "&".
LEMMA QueryText ==
    ASSUME NEW params
    PROVE  normalizeQueryParams(params) =
             IF Pairs(params) = << >> THEN << >> ELSE Front(Pairs(params))
  BY Zenon DEF normalizeQueryParams, Joined, Pairs, Sorted

\* A text and the word after it.
LEMMA Lengthened ==
    ASSUME NEW T, NEW s \in Seq(T), NEW t \in Seq(T), NEW v \in T, Len(t) = Len(s) + 1,
           \A i \in 1..Len(s) : t[i] = s[i], t[Len(t)] = v
    PROVE  s \o <<v>> = t
<1>. DEFINE u == Append(s, v)
<1>1. s \o <<v>> = u
  BY AppendIsConcat
<1>2. u \in Seq(T) /\ Len(u) = Len(s) + 1 /\ u[Len(s) + 1] = v /\ \A i \in 1..Len(s) : u[i] = s[i]
  BY AppendProperties
<1>3. Len(s) \in Nat
  OBVIOUS
<1>. HIDE DEF u
<1>4. \A i \in 1..Len(u) : u[i] = t[i]
  BY <1>2, <1>3
<1>5. u = t
  BY <1>2, <1>4, SeqEqual
<1>. QED
  BY <1>1, <1>5

\* Words that are joined, up to four.
LEMMA Joined2 == \A x, y : <<x>> \o <<y>> = <<x, y>>
<1>. SUFFICES ASSUME NEW x, NEW y PROVE <<x>> \o <<y>> = <<x, y>>
  OBVIOUS
<1>. DEFINE T == {x, y}
            s == <<x>>
            t == <<x, y>>
<1>1. /\ s \in Seq(T) /\ t \in Seq(T) /\ y \in T /\ Len(t) = Len(s) + 1
      /\ (\A i \in 1..Len(s) : t[i] = s[i]) /\ t[Len(t)] = y
  OBVIOUS
<1>. HIDE DEF T, s, t
<1>2. s \o <<y>> = t
  BY <1>1, Lengthened
<1>. QED
  BY <1>2 DEF s, t

LEMMA Joined3 == \A x, y, z : <<x, y>> \o <<z>> = <<x, y, z>>
<1>. SUFFICES ASSUME NEW x, NEW y, NEW z PROVE <<x, y>> \o <<z>> = <<x, y, z>>
  OBVIOUS
<1>. DEFINE T == {x, y, z}
            s == <<x, y>>
            t == <<x, y, z>>
<1>1. /\ s \in Seq(T) /\ t \in Seq(T) /\ z \in T /\ Len(t) = Len(s) + 1
      /\ (\A i \in 1..Len(s) : t[i] = s[i]) /\ t[Len(t)] = z
  OBVIOUS
<1>. HIDE DEF T, s, t
<1>2. s \o <<z>> = t
  BY <1>1, Lengthened
<1>. QED
  BY <1>2 DEF s, t

LEMMA Joined4 == \A x, y, z, w : <<x, y, z>> \o <<w>> = <<x, y, z, w>>
<1>. SUFFICES ASSUME NEW x, NEW y, NEW z, NEW w PROVE <<x, y, z>> \o <<w>> = <<x, y, z, w>>
  OBVIOUS
<1>. DEFINE T == {x, y, z, w}
            s == <<x, y, z>>
            t == <<x, y, z, w>>
<1>1. /\ s \in Seq(T) /\ t \in Seq(T) /\ w \in T /\ Len(t) = Len(s) + 1
      /\ (\A i \in 1..Len(s) : t[i] = s[i]) /\ t[Len(t)] = w
  OBVIOUS
<1>. HIDE DEF T, s, t
<1>2. s \o <<w>> = t
  BY <1>1, Lengthened
<1>. QED
  BY <1>2 DEF s, t

LEMMA JoinedAll == \A x, y, z, w : <<x>> \o <<y>> \o <<z>> \o <<w>> = <<x, y, z, w>>
<1>. SUFFICES ASSUME NEW x, NEW y, NEW z, NEW w
              PROVE  <<x>> \o <<y>> \o <<z>> \o <<w>> = <<x, y, z, w>>
  OBVIOUS
<1>1. <<x>> \o <<y>> = <<x, y>>
  BY Joined2
<1>2. <<x, y>> \o <<z>> = <<x, y, z>>
  BY Joined3
<1>3. <<x, y, z>> \o <<w>> = <<x, y, z, w>>
  BY Joined4
<1>. QED
  BY <1>1, <1>2, <1>3, Zenon

\* Simple words are spelled as they are.
LEMMA SimpleWords ==
    \A w : Simple(w) => spell(w) = <<w>> /\ w \notin {":", "/", "&", "="}
  BY DEF Simple, spell, Separators

\* The segments of a URL: no colon among them.
LEMMA SlashedProperties ==
    ASSUME NEW T, "/" \in T, NEW list \in Seq(T), \A w \in Range(list) : Simple(w)
    PROVE  /\ [i \in DOMAIN list |-> <<"/", list[i]>>] \in Seq(Seq(T))
           /\ Slashed(list) = FlattenSeq([i \in DOMAIN list |-> <<"/", list[i]>>])
           /\ Slashed(list) \in Seq(T) /\ ":" \notin Range(Slashed(list))
<1>. DEFINE ss == [i \in DOMAIN list |-> <<"/", list[i]>>]
<1>1. Len(list) \in Nat /\ DOMAIN list = 1..Len(list) /\ \A i \in DOMAIN list : list[i] \in T
  BY LenProperties
<1>2. \A i \in DOMAIN list : Simple(list[i])
  BY DEF Range
<1>3. ss \in Seq(Seq(T))
  <2>1. \A i \in DOMAIN list : <<"/", list[i]>> \in Seq(T)
    BY <1>1
  <2>. QED
    BY <1>1, <2>1, SeqDef
<1>4. Slashed(list) = FlattenSeq(ss)
  <2>1. \A i \in DOMAIN list : <<"/">> \o spell(list[i]) = <<"/", list[i]>>
    BY <1>2, SimpleWords, Joined2
  <2>2. [i \in DOMAIN list |-> <<"/">> \o spell(list[i])] = ss
    BY <2>1
  <2>. QED
    BY <2>2 DEF Slashed
<1>5. /\ FlattenSeq(ss) \in Seq(T)
      /\ \A x : x \in Range(FlattenSeq(ss)) <=> \E i \in DOMAIN ss : x \in Range(ss[i])
  BY <1>3, FlattenProperties
<1>6. \A i \in DOMAIN ss : ":" \notin Range(ss[i])
  <2>1. \A w : ":" # w => ":" \notin Range(<<"/", w>>)
    BY DEF Range
  <2>. QED
    BY <1>2, <2>1, SimpleWords
<1>. QED
  BY <1>3, <1>4, <1>5, <1>6

\* They tell the URL.
LEMMA SlashedSame ==
    ASSUME NEW T, "/" \in T, NEW a \in Seq(T), NEW b \in Seq(T),
           \A w \in Range(a) : Simple(w), \A w \in Range(b) : Simple(w),
           Slashed(a) = Slashed(b)
    PROVE  a = b
<1>. DEFINE pieces(list) == [i \in DOMAIN list |-> <<"/", list[i]>>]
<1>1. /\ pieces(a) \in Seq(Seq(T)) /\ Slashed(a) = FlattenSeq(pieces(a))
      /\ pieces(b) \in Seq(Seq(T)) /\ Slashed(b) = FlattenSeq(pieces(b))
  BY SlashedProperties
<1>2. \A list \in Seq(T) : \A i \in 1..Len(pieces(list)) : Len(pieces(list)[i]) = 2
  BY LenProperties
<1>3. pieces(a) = pieces(b)
  <2>. HIDE DEF pieces
  <2>1. FlattenSeq(pieces(a)) = FlattenSeq(pieces(b))
    BY <1>1
  <2>2. (\A i \in 1..Len(pieces(a)) : Len(pieces(a)[i]) = 2)
        /\ \A i \in 1..Len(pieces(b)) : Len(pieces(b)[i]) = 2
    BY <1>2
  <2>3. 2 \in Nat \ {0}
    OBVIOUS
  <2>. DEFINE ss == pieces(a)
              tt == pieces(b)
  <2>4. ss \in Seq(Seq(T)) /\ tt \in Seq(Seq(T)) /\ FlattenSeq(ss) = FlattenSeq(tt)
        /\ (\A i \in 1..Len(ss) : Len(ss[i]) = 2) /\ \A i \in 1..Len(tt) : Len(tt[i]) = 2
    BY <1>1, <2>1, <2>2
  <2>. HIDE DEF ss, tt
  <2>5. ss = tt
    BY <2>3, <2>4, PiecesSame
  <2>. QED
    BY <2>5 DEF ss, tt
<1>4. DOMAIN pieces(a) = DOMAIN a /\ DOMAIN pieces(b) = DOMAIN b
  OBVIOUS
<1>5. DOMAIN a = DOMAIN b
  <2>. HIDE DEF pieces
  <2>. QED
    BY <1>3, <1>4
<1>6. ASSUME NEW i \in DOMAIN a PROVE a[i] = b[i]
  <2>1. pieces(a)[i] = <<"/", a[i]>> /\ pieces(b)[i] = <<"/", b[i]>>
    BY <1>5
  <2>. HIDE DEF pieces
  <2>2. <<"/", a[i]>> = <<"/", b[i]>>
    BY <1>3, <2>1
  <2>. QED
    BY <2>2
<1>7. a \in [DOMAIN a -> T] /\ b \in [DOMAIN b -> T]
  BY LenProperties
<1>. HIDE DEF pieces
<1>8. a \in [DOMAIN a -> T] /\ b \in [DOMAIN a -> T]
  BY <1>5, <1>7
<1>. QED
  BY <1>6, <1>8

\* The names of the parameters, in their order.
LEMMA SortedProperties ==
    ASSUME NEW params, DOMAIN params \subseteq Range(Names)
    PROVE  /\ Sorted(params) \in Seq(DOMAIN params)
           /\ Range(Sorted(params)) = DOMAIN params
<1>. DEFINE D == DOMAIN params
            ss == [i \in DOMAIN Names |-> IF Names[i] \in D THEN <<Names[i]>> ELSE << >>]
<1>1. Names \in Seq(STRING)
  BY UrlAssumption, Zenon
<1>2. DOMAIN Names = 1..Len(Names) /\ Len(Names) \in Nat
  BY <1>1, LenProperties
<1>3. Sorted(params) = FlattenSeq(ss)
  BY DEF Sorted
<1>4. D \subseteq Range(Names)
  OBVIOUS
<1>. HIDE DEF D
<1>5. ss \in Seq(Seq(D))
  <2>1. \A i \in DOMAIN Names : (IF Names[i] \in D THEN <<Names[i]>> ELSE << >>) \in Seq(D)
    OBVIOUS
  <2>. QED
    BY <1>2, <2>1, SeqDef
<1>6. \A i \in DOMAIN ss : \A x : x \in Range(ss[i]) <=> Names[i] \in D /\ x = Names[i]
  BY DEF Range
<1>7. /\ FlattenSeq(ss) \in Seq(D)
      /\ \A x : x \in Range(FlattenSeq(ss)) <=> \E i \in DOMAIN ss : x \in Range(ss[i])
  BY <1>5, FlattenProperties
<1>8. DOMAIN ss = DOMAIN Names
  OBVIOUS
<1>. HIDE DEF ss
<1>9. \A x : x \in D <=> \E i \in DOMAIN Names : Names[i] \in D /\ x = Names[i]
  BY <1>4 DEF Range
<1>10. \A x : x \in Range(FlattenSeq(ss)) <=> x \in D
  BY <1>6, <1>7, <1>8, <1>9
<1>. QED
  BY <1>3, <1>7, <1>10 DEF D

\* Parameters whose names and values are simple.
Plainly(params) ==
    /\ DOMAIN params \subseteq Range(Names)
    /\ \A name \in DOMAIN params : Simple(name) /\ Simple(params[name])
Pair(params, name) == <<name, "=", params[name], "&">>

\* They are joined pair by pair: no colon among them.
LEMMA PairsProperties ==
    ASSUME NEW params, Plainly(params), NEW T, "=" \in T, "&" \in T,
           \A name \in DOMAIN params : name \in T /\ params[name] \in T
    PROVE  LET ss == [i \in DOMAIN Sorted(params) |-> Pair(params, Sorted(params)[i])]
           IN  /\ ss \in Seq(Seq(T)) /\ \A i \in 1..Len(ss) : Len(ss[i]) = 4
               /\ Pairs(params) = FlattenSeq(ss)
               /\ Pairs(params) \in Seq(T) /\ ":" \notin Range(Pairs(params))
<1>. DEFINE D == DOMAIN params
            list == Sorted(params)
            ss == [i \in DOMAIN list |-> Pair(params, list[i])]
<1>1. list \in Seq(D)
  BY SortedProperties DEF Plainly
<1>2. \A name \in D : /\ Simple(name) /\ Simple(params[name])
                      /\ name \in T /\ params[name] \in T
  BY DEF Plainly
<1>3. Pairs(params) = FlattenSeq([i \in DOMAIN list |->
          spell(list[i]) \o <<"=">> \o spell(params[list[i]]) \o <<"&">>])
  BY DEF Pairs
<1>. HIDE DEF list, D
<1>4. Len(list) \in Nat /\ DOMAIN list = 1..Len(list) /\ \A i \in DOMAIN list : list[i] \in D
  BY <1>1, LenProperties
<1>5. \A name \in D : Pair(params, name) \in Seq(T) /\ Len(Pair(params, name)) = 4
  BY <1>2 DEF Pair
<1>6. ss \in Seq(Seq(T)) /\ \A i \in 1..Len(ss) : Len(ss[i]) = 4
  <2>1. ss \in [1..Len(list) -> Seq(T)]
    BY <1>4, <1>5
  <2>2. ss \in Seq(Seq(T))
    BY <1>4, <2>1, SeqDef
  <2>3. DOMAIN ss = 1..Len(ss)
    BY <2>2, LenProperties
  <2>4. \A i \in DOMAIN ss : Len(ss[i]) = 4
    BY <1>4, <1>5
  <2>. QED
    BY <2>2, <2>3, <2>4
<1>7. Pairs(params) = FlattenSeq(ss)
  <2>1. \A name \in D : spell(name) \o <<"=">> \o spell(params[name]) \o <<"&">> = Pair(params, name)
    <3>1. \A name \in D : spell(name) = <<name>> /\ spell(params[name]) = <<params[name]>>
      BY <1>2, SimpleWords
    <3>2. \A n, v : <<n>> \o <<"=">> \o <<v>> \o <<"&">> = <<n, "=", v, "&">>
      BY JoinedAll, Zenon
    <3>. QED
      BY <3>1, <3>2, Zenon DEF Pair
  <2>2. [i \in DOMAIN list |->
          spell(list[i]) \o <<"=">> \o spell(params[list[i]]) \o <<"&">>] = ss
    BY <1>4, <2>1
  <2>. QED
    BY <1>3, <2>2
<1>8. /\ FlattenSeq(ss) \in Seq(T)
      /\ \A x : x \in Range(FlattenSeq(ss)) <=> \E i \in DOMAIN ss : x \in Range(ss[i])
  BY <1>6, FlattenProperties
<1>9. \A i \in DOMAIN ss : ":" \notin Range(ss[i])
  <2>1. \A n, v : ":" # n /\ ":" # v => ":" \notin Range(<<n, "=", v, "&">>)
    BY DEF Range
  <2>2. \A name \in D : ":" \notin Range(Pair(params, name))
    BY <1>2, <2>1, SimpleWords DEF Pair
  <2>. QED
    BY <1>4, <2>2
<1>. HIDE DEF ss
<1>10. ":" \notin Range(Pairs(params))
  BY <1>7, <1>8, <1>9
<1>. QED
  BY <1>6, <1>7, <1>8, <1>10 DEF ss, list

\* What the pairs are tells the parameters.
LEMMA PairsSame ==
    ASSUME NEW p, NEW q, Plainly(p), Plainly(q), NEW T, "=" \in T, "&" \in T,
           p \in [DOMAIN p -> T], q \in [DOMAIN q -> T], DOMAIN p \subseteq T, DOMAIN q \subseteq T,
           Pairs(p) = Pairs(q)
    PROVE  p = q
<1>. DEFINE pieces(params) == [i \in DOMAIN Sorted(params) |-> Pair(params, Sorted(params)[i])]
            ss == pieces(p)
            tt == pieces(q)
<1>1. ss \in Seq(Seq(T)) /\ (\A i \in 1..Len(ss) : Len(ss[i]) = 4) /\ Pairs(p) = FlattenSeq(ss)
  <2>1. \A name \in DOMAIN p : name \in T /\ p[name] \in T
    OBVIOUS
  <2>. QED
    BY <2>1, PairsProperties
<1>2. tt \in Seq(Seq(T)) /\ (\A i \in 1..Len(tt) : Len(tt[i]) = 4) /\ Pairs(q) = FlattenSeq(tt)
  <2>1. \A name \in DOMAIN q : name \in T /\ q[name] \in T
    OBVIOUS
  <2>. QED
    BY <2>1, PairsProperties
<1>3. ss = tt
  <2>1. 4 \in Nat \ {0}
    OBVIOUS
  <2>. HIDE DEF ss, tt
  <2>2. FlattenSeq(ss) = FlattenSeq(tt)
    BY <1>1, <1>2
  <2>. QED
    BY <1>1, <1>2, <2>1, <2>2, PiecesSame
<1>4. DOMAIN ss = DOMAIN Sorted(p) /\ DOMAIN tt = DOMAIN Sorted(q)
  OBVIOUS
<1>5. /\ \A i \in DOMAIN Sorted(p) : ss[i] = Pair(p, Sorted(p)[i])
      /\ \A i \in DOMAIN Sorted(q) : tt[i] = Pair(q, Sorted(q)[i])
  OBVIOUS
<1>. HIDE DEF ss, tt
<1>6. /\ Range(Sorted(p)) = DOMAIN p
      /\ Range(Sorted(q)) = DOMAIN q
  BY SortedProperties DEF Plainly
<1>7. DOMAIN Sorted(p) = DOMAIN Sorted(q)
  BY <1>3, <1>4
<1>8. \A i \in DOMAIN Sorted(p) : Sorted(p)[i] = Sorted(q)[i] /\ p[Sorted(p)[i]] = q[Sorted(q)[i]]
  <2>1. \A m, n : Pair(p, m) = Pair(q, n) => m = n /\ p[m] = q[n]
    BY DEF Pair
  <2>. QED
    BY <1>3, <1>5, <1>7, <2>1
<1>9. DOMAIN p = DOMAIN q
  <2>1. \A x : x \in Range(Sorted(p)) <=> x \in Range(Sorted(q))
    BY <1>7, <1>8 DEF Range
  <2>. QED
    BY <1>6, <2>1
<1>10. ASSUME NEW name \in DOMAIN p PROVE p[name] = q[name]
  <2>1. PICK i \in DOMAIN Sorted(p) : name = Sorted(p)[i]
    BY <1>6 DEF Range
  <2>. QED
    BY <1>8, <2>1
<1>11. q \in [DOMAIN p -> T] /\ p \in [DOMAIN p -> T]
  BY <1>9
<1>. QED
  BY <1>10, <1>11

\* So does the text of them, which lacks the last "&".
LEMMA QuerySame ==
    ASSUME NEW p, NEW q, Plainly(p), Plainly(q), NEW T, "=" \in T, "&" \in T,
           p \in [DOMAIN p -> T], q \in [DOMAIN q -> T], DOMAIN p \subseteq T, DOMAIN q \subseteq T
    PROVE  /\ normalizeQueryParams(p) \in Seq(T)
           /\ ":" \notin Range(normalizeQueryParams(p))
           /\ normalizeQueryParams(p) = normalizeQueryParams(q) => p = q
<1>1. ASSUME NEW r \in {p, q}
      PROVE  /\ Pairs(r) \in Seq(T) /\ ":" \notin Range(Pairs(r))
             /\ Pairs(r) # << >> => Len(Pairs(r)) >= 4 /\ Last(Pairs(r)) = "&"
  <2>. DEFINE ss == [i \in DOMAIN Sorted(r) |-> Pair(r, Sorted(r)[i])]
  <2>1. Plainly(r) /\ \A name \in DOMAIN r : name \in T /\ r[name] \in T
    OBVIOUS
  <2>2. /\ ss \in Seq(Seq(T)) /\ (\A i \in 1..Len(ss) : Len(ss[i]) = 4) /\ Pairs(r) = FlattenSeq(ss)
        /\ Pairs(r) \in Seq(T) /\ ":" \notin Range(Pairs(r))
    BY <2>1, PairsProperties
  <2>3. \A i \in DOMAIN ss : Last(ss[i]) = "&"
    BY DEF Pair, Last
  <2>. HIDE DEF ss
  <2>4. CASE ss = << >>
    BY <2>2, <2>4 DEF FlattenSeq
  <2>5. CASE ss # << >>
    <3>1. Len(FlattenSeq(ss)) >= 4 /\ Last(FlattenSeq(ss)) = Last(ss[Len(ss)])
      <4>1. 4 \in Nat \ {0}
        OBVIOUS
      <4>. QED
        BY <2>2, <2>5, <4>1, FlattenEnds
    <3>2. Len(ss) \in DOMAIN ss
      BY <2>2, <2>5
    <3>. QED
      BY <2>2, <2>3, <3>1, <3>2
  <2>. QED
    BY <2>4, <2>5
<1>2. ASSUME NEW s \in Seq(T), Len(s) >= 1
      PROVE  /\ Front(s) \in Seq(T) /\ Len(Front(s)) = Len(s) - 1
             /\ \A i \in 1..(Len(s) - 1) : Front(s)[i] = s[i]
  <2>. DEFINE n == Len(s) - 1
  <2>1. n \in Nat /\ n >= 0 /\ \A i \in 1..n : s[i] \in T
    BY <1>2
  <2>2. Front(s) = SubSeq(s, 1, n)
    BY DEF Front
  <2>. HIDE DEF n
  <2>3. /\ SubSeq(s, 1, n) \in Seq(T) /\ Len(SubSeq(s, 1, n)) = IF 1 <= n THEN n - 1 + 1 ELSE 0
        /\ \A i \in 1..(n - 1 + 1) : SubSeq(s, 1, n)[i] = s[1 + i - 1]
    BY <2>1, SubSeqProperties
  <2>4. n - 1 + 1 = n /\ \A i \in 1..n : 1 + i - 1 = i
    BY <2>1
  <2>. QED
    BY <2>1, <2>2, <2>3, <2>4 DEF n
<1>3. \A r \in {p, q} : normalizeQueryParams(r) = IF Pairs(r) = << >> THEN << >> ELSE Front(Pairs(r))
  BY QueryText
<1>4. normalizeQueryParams(p) \in Seq(T) /\ ":" \notin Range(normalizeQueryParams(p))
  <2>1. CASE Pairs(p) = << >>
    BY <1>3, <2>1 DEF Range
  <2>2. CASE Pairs(p) # << >>
    <3>1. /\ Pairs(p) \in Seq(T) /\ Len(Pairs(p)) >= 4 /\ ":" \notin Range(Pairs(p))
      BY <1>1, <2>2
    <3>. DEFINE s == Pairs(p)
                f == Front(s)
    <3>2. /\ f \in Seq(T) /\ Len(f) = Len(s) - 1
          /\ \A i \in 1..(Len(s) - 1) : f[i] = s[i]
      BY <1>2, <3>1
    <3>3. normalizeQueryParams(p) = f
      BY <1>3, <2>2
    <3>. HIDE DEF f, s
    <3>4. s \in Seq(T) /\ Len(s) \in Nat
      BY <3>1 DEF s
    <3>5. DOMAIN s = 1..Len(s) /\ DOMAIN f = 1..Len(f)
      BY <3>2, <3>4, LenProperties
    <3>6. \A x : x \in Range(f) => x \in Range(s)
      BY <3>2, <3>4, <3>5 DEF Range
    <3>. QED
      BY <3>1, <3>2, <3>3, <3>6 DEF s
  <2>. QED
    BY <2>1, <2>2
<1>5. ASSUME normalizeQueryParams(p) = normalizeQueryParams(q) PROVE p = q
  <2>. DEFINE s == Pairs(p)
              t == Pairs(q)
  <2>1. /\ s \in Seq(T) /\ t \in Seq(T)
        /\ s # << >> => Len(s) >= 4 /\ s[Len(s)] = "&"
        /\ t # << >> => Len(t) >= 4 /\ t[Len(t)] = "&"
    BY <1>1 DEF Last
  <2>2. /\ normalizeQueryParams(p) = IF s = << >> THEN << >> ELSE Front(s)
        /\ normalizeQueryParams(q) = IF t = << >> THEN << >> ELSE Front(t)
    BY <1>3
  <2>3. s = t => p = q
    BY PairsSame
  <2>. HIDE DEF s, t
  <2>4. CASE s = << >> \/ t = << >>
    <3>1. \A x \in Seq(T) : Len(x) >= 4 => Front(x) # << >>
      BY <1>2
    <3>. QED
      BY <1>5, <2>1, <2>2, <2>3, <2>4, <3>1
  <2>5. CASE s # << >> /\ t # << >>
    <3>1. Front(s) = Front(t)
      BY <1>5, <2>2, <2>5
    <3>2. Len(s) \in Nat /\ Len(t) \in Nat /\ Len(s) >= 1 /\ Len(t) >= 1
      BY <2>1, <2>5
    <3>3. Len(s) = Len(t)
      BY <1>2, <2>1, <3>1, <3>2
    <3>4. \A i \in 1..(Len(s) - 1) : s[i] = t[i]
      BY <1>2, <2>1, <3>1, <3>2, <3>3
    <3>5. \A i \in 1..Len(s) : i = Len(s) \/ i \in 1..(Len(s) - 1)
      BY <3>2
    <3>6. \A i \in 1..Len(s) : s[i] = t[i]
      BY <2>1, <2>5, <3>3, <3>4, <3>5
    <3>7. s = t
      BY <2>1, <3>3, <3>6, SeqEqual
    <3>. QED
      BY <2>3, <3>7
  <2>. QED
    BY <2>4, <2>5
<1>. QED
  BY <1>4, <1>5

\* Keys of simple words tell the URL, the parameters and the user.
LEMMA KeySame ==
    ASSUME NEW u, NEW v, NEW p, NEW q, NEW x, NEW y, NEW W,
           normalizeUrl(u) \in Seq(W), \A w \in Range(normalizeUrl(u)) : Simple(w),
           normalizeUrl(v) \in Seq(W), \A w \in Range(normalizeUrl(v)) : Simple(w),
           Plainly(p), p \in [DOMAIN p -> W], Plainly(q), q \in [DOMAIN q -> W],
           Simple(x), Simple(y),
           generateHttpRequestKey("GET", u, p, x) = generateHttpRequestKey("GET", v, q, y)
    PROVE  normalizeUrl(u) = normalizeUrl(v) /\ p = q /\ x = y
<1>. DEFINE T == W \cup Separators \cup {"GET", "user", x, y} \cup DOMAIN p \cup DOMAIN q
            H == <<"GET", ":">>
            C == <<":">>
            a == Slashed(normalizeUrl(u))
            b == Slashed(normalizeUrl(v))
            c == normalizeQueryParams(p)
            d == normalizeQueryParams(q)
            e == Ending(x)
            f == Ending(y)
<1>1. ":" \in T /\ "/" \in T /\ "=" \in T /\ "&" \in T /\ "GET" \in T /\ "user" \in T
      /\ x \in T /\ y \in T /\ W \subseteq T /\ DOMAIN p \subseteq T /\ DOMAIN q \subseteq T
  BY DEF Separators
<1>. HIDE DEF T
<1>3. normalizeUrl(u) \in Seq(T) /\ normalizeUrl(v) \in Seq(T)
  BY <1>1, SeqMonotonic
<1>4. /\ a \in Seq(T) /\ ":" \notin Range(a) /\ b \in Seq(T) /\ ":" \notin Range(b)
      /\ a = b => normalizeUrl(u) = normalizeUrl(v)
  BY <1>1, <1>3, SlashedProperties, SlashedSame
<1>5. /\ c \in Seq(T) /\ ":" \notin Range(c) /\ d \in Seq(T) /\ ":" \notin Range(d)
      /\ c = d => p = q
  <2>1. p \in [DOMAIN p -> T] /\ q \in [DOMAIN q -> T]
    BY <1>1
  <2>. QED
    BY <1>1, <2>1, QuerySame
<1>6. ASSUME NEW z \in {x, y}
      PROVE  /\ Ending(z) = IF z = None THEN << >> ELSE <<":", "user", ":", z>>
             /\ Ending(z) \in Seq(T)
  <2>1. spell(z) = <<z>>
    BY SimpleWords
  <2>2. <<":", "user", ":">> \o <<z>> = <<":", "user", ":", z>>
    BY Joined4
  <2>3. Ending(z) = IF z = None THEN << >> ELSE <<":", "user", ":", z>>
    BY <2>1, <2>2, Zenon DEF Ending
  <2>4. <<":", "user", ":", z>> \in Seq(T) /\ << >> \in Seq(T)
    BY <1>1
  <2>. QED
    BY <2>3, <2>4, Zenon
<1>7. H \in Seq(T) /\ C \in Seq(T) /\ C[1] = ":" /\ Len(C) = 1
  BY <1>1
<1>8. e \in Seq(T) /\ f \in Seq(T) /\ (e = << >> \/ e[1] = ":") /\ (f = << >> \/ f[1] = ":")
      /\ (e = f => x = y)
  <2>1. \A z : LET g == <<":", "user", ":", z>> IN g # << >> /\ g[1] = ":" /\ g[4] = z
    OBVIOUS
  <2>2. /\ e = IF x = None THEN << >> ELSE <<":", "user", ":", x>>
        /\ f = IF y = None THEN << >> ELSE <<":", "user", ":", y>>
        /\ e \in Seq(T) /\ f \in Seq(T)
    BY <1>6
  <2>. HIDE DEF e, f
  <2>3. (e = << >> \/ e[1] = ":") /\ (f = << >> \/ f[1] = ":")
    BY <2>1, <2>2
  <2>4. e = f => x = y
    BY <2>1, <2>2
  <2>. QED
    BY <2>2, <2>3, <2>4
<1>9. H \o (a \o (C \o (c \o e))) = H \o (b \o (C \o (d \o f)))
  <2>1. generateHttpRequestKey("GET", u, p, x) = H \o (a \o (C \o (c \o e)))
    <3>1. ":" \in T /\ "GET" \in T /\ a \in Seq(T) /\ c \in Seq(T) /\ e \in Seq(T)
      BY <1>1, <1>4, <1>5, <1>8
    <3>2. generateHttpRequestKey("GET", u, p, x) =
             <<"GET", ":">> \o (Slashed(normalizeUrl(u)) \o
                 (<<":">> \o (normalizeQueryParams(p) \o Ending(x))))
      BY <3>1, KeyText, SMTT(30)
    <3>. QED
      BY <3>2, Zenon
  <2>2. generateHttpRequestKey("GET", v, q, y) = H \o (b \o (C \o (d \o f)))
    <3>1. ":" \in T /\ "GET" \in T /\ b \in Seq(T) /\ d \in Seq(T) /\ f \in Seq(T)
      BY <1>1, <1>4, <1>5, <1>8
    <3>2. generateHttpRequestKey("GET", v, q, y) =
             <<"GET", ":">> \o (Slashed(normalizeUrl(v)) \o
                 (<<":">> \o (normalizeQueryParams(q) \o Ending(y))))
      BY <3>1, KeyText, SMTT(30)
    <3>. QED
      BY <3>2, Zenon
  <2>. QED
    BY <2>1, <2>2, Zenon
<1>. HIDE DEF H, C, a, b, c, d, e, f
<1>10. c \o e \in Seq(T) /\ d \o f \in Seq(T)
  BY <1>5, <1>8, ConcatProperties
<1>. DEFINE k == C \o (c \o e)
            l == C \o (d \o f)
<1>11. k \in Seq(T) /\ l \in Seq(T) /\ k[1] = ":" /\ l[1] = ":"
  <2>1. ASSUME NEW g \in Seq(T) PROVE C \o g \in Seq(T) /\ (C \o g)[1] = ":"
    <3>1. 1 \in 1..(Len(C) + Len(g)) /\ 1 <= Len(C)
      BY <1>7
    <3>. QED
      BY <1>7, <3>1, ConcatProperties
  <2>. QED
    BY <1>10, <2>1
<1>12. a \o k = b \o l
  <2>. DEFINE i == a \o k
              j == b \o l
  <2>1. i \in Seq(T) /\ j \in Seq(T)
    BY <1>4, <1>11, ConcatProperties
  <2>2. H \o i = H \o j
    BY <1>9
  <2>. HIDE DEF i, j
  <2>3. i = j
    BY <1>7, <2>1, <2>2, CancelHead, Zenon
  <2>. QED
    BY <2>3 DEF i, j
<1>. HIDE DEF k, l
<1>13. a = b /\ k = l
  BY <1>1, <1>4, <1>11, <1>12, SplitAt
<1>14. c \o e = d \o f
  BY <1>7, <1>10, <1>13, CancelStart DEF k, l
<1>15. c = d /\ e = f
  BY <1>1, <1>5, <1>8, <1>14, SplitAt
<1>. QED
  BY <1>4, <1>5, <1>8, <1>13, <1>15

\* A request that is queued, or answered from the cache, has no capitals in its
\* first word: the lookup of the routes knows it in lower case alone.
LEMMA FirstWord ==
    ASSUME NEW r \in Requests, Cacheable(r), r.endpoint.path[1] # ":id"
    PROVE  r.first = r.endpoint.path[1]
<1>. DEFINE job == buildJobData(r)
            i == Found(job.method, normalizePath(job.url))
            word == routes[i].path[1]
<1>1. job.method = "GET" /\ job.url = Url(r) /\ resolve(job) # None
  BY DEF Cacheable, isCacheable, buildJobData
<1>2. resolve(job) = Built(i, job)
  BY ResolveBuilds, Zenon
<1>. HIDE DEF job
<1>3. i # 0
  BY <1>1, <1>2 DEF Built
<1>4. /\ routes[i].method = "GET" /\ Reads(routes[i]) /\ i \in DOMAIN routes
      /\ matchPath(routes[i].path, Plain(r))
  BY <1>1, <1>3, FoundProperties, AllRead, PlainUrl
<1>5. 1 \in DOMAIN Plain(r) /\ Plain(r)[1] = r.first
  <2>1. r.endpoint.path \in Seq(Words) /\ r.endpoint.path # << >>
    BY RequestFacts
  <2>2. 1 \in DOMAIN r.endpoint.path
    BY <2>1
  <2>. QED
    BY <2>2 DEF Plain
<1>. HIDE DEF i
<1>6. word = r.first
  BY <1>4, <1>5 DEF matchPath, Reads, Rooted
<1>7. Low(word) = word
  <2>1. toLowerCase(<<word>>) = <<word>>
    BY <1>4, UrlAssumption, Zenon
  <2>2. toLowerCase(<<word>>)[1] = Low(word)
    BY DEF toLowerCase, Low
  <2>. HIDE DEF word
  <2>. QED
    BY <2>1, <2>2
<1>8. Low(r.first) = r.endpoint.path[1]
  BY RequestFacts
<1>. QED
  BY <1>6, <1>7, <1>8

\* Requests whose responses are kept under one key do not differ in what the
\* message is made of.
LEMMA SameKey ==
    ASSUME NEW r \in Requests, NEW q \in Requests, Single(r), Single(q),
           Cacheable(r), Cacheable(q), Separable(r), Separable(q),
           buildCacheKey(buildJobData(r)) = buildCacheKey(buildJobData(q))
    PROVE  Alike(buildJobData(r), buildJobData(q))
<1>. DEFINE a == buildJobData(r)
            b == buildJobData(q)
            u == normalizeUrl(a.url)
            v == normalizeUrl(b.url)
            x == extractQueryParams(a.query)
            y == extractQueryParams(b.query)
            W == Range(u) \cup Range(v) \cup Range(x) \cup Range(y)
<1>1. /\ a.method = r.endpoint.method /\ a.url = Url(r) /\ a.query = r.query
      /\ a.id = IF ":id" \in Range(r.endpoint.path) THEN r.id ELSE None
  BY DEF buildJobData
<1>2. /\ b.method = q.endpoint.method /\ b.url = Url(q) /\ b.query = q.query
      /\ b.id = IF ":id" \in Range(q.endpoint.path) THEN q.id ELSE None
  BY DEF buildJobData
<1>3. a.method = "GET" /\ b.method = "GET"
  BY <1>1, <1>2 DEF Cacheable, isCacheable
<1>4. u = v /\ x = y /\ a.user = b.user
  <2>1. /\ \A w \in Range(u) \cup DOMAIN a.query \cup Range(x) \cup {a.user} : Simple(w)
        /\ \A w \in Range(v) \cup DOMAIN b.query \cup Range(y) \cup {b.user} : Simple(w)
    BY <1>1, <1>2 DEF Separable
  <2>2. generateHttpRequestKey("GET", a.url, x, a.user) = generateHttpRequestKey("GET", b.url, y, b.user)
    BY <1>3 DEF buildCacheKey
  <2>3. /\ u = toLowerCase(Plain(r)) /\ v = toLowerCase(Plain(q))
        /\ DOMAIN a.query \subseteq Range(Names) /\ DOMAIN b.query \subseteq Range(Names)
    BY <1>1, <1>2, PlainUrl, RequestFacts
  <2>4. \E m, n \in Nat : DOMAIN u = 1..m /\ DOMAIN v = 1..n
    <3>1. DOMAIN u = DOMAIN r.endpoint.path /\ DOMAIN v = DOMAIN q.endpoint.path
      BY <2>3 DEF toLowerCase, Plain
    <3>2. r.endpoint.path \in Seq(Words) /\ q.endpoint.path \in Seq(Words)
      BY RequestFacts
    <3>. QED
      BY <3>1, <3>2, LenProperties
  <2>5. u \in [DOMAIN u -> Range(u)] /\ v \in [DOMAIN v -> Range(v)]
    BY <2>3 DEF toLowerCase, Range
  <2>6. /\ x \in [DOMAIN a.query -> Range(x)] /\ DOMAIN x = DOMAIN a.query
        /\ y \in [DOMAIN b.query -> Range(y)] /\ DOMAIN y = DOMAIN b.query
    BY DEF extractQueryParams, Range
  <2>. HIDE DEF a, b, u, v, x, y
  <2>7. u \in Seq(W) /\ v \in Seq(W)
    BY <2>4, <2>5, SeqDef
  <2>8. Plainly(x) /\ Plainly(y)
    <3>1. (\A name \in DOMAIN x : x[name] \in Range(x)) /\ \A name \in DOMAIN y : y[name] \in Range(y)
      BY DEF Range
    <3>. QED
      BY <2>1, <2>3, <2>6, <3>1 DEF Plainly
  <2>9. x \in [DOMAIN x -> W] /\ y \in [DOMAIN y -> W]
    BY <2>6
  <2>. HIDE DEF W
  <2>10. u = normalizeUrl(a.url) /\ v = normalizeUrl(b.url)
    BY DEF u, v
  <2>. QED
    BY <2>1, <2>2, <2>7, <2>8, <2>9, <2>10, KeySame
<1>5. toLowerCase(Plain(r)) = toLowerCase(Plain(q))
  BY <1>1, <1>2, <1>4, PlainUrl
<1>6. extractQueryParams(r.query) = extractQueryParams(q.query)
  BY <1>1, <1>2, <1>4
<1>7. a.user = b.user
  BY <1>4
<1>. HIDE DEF a, b, u, v, x, y, W
<1>8. r.endpoint.path = q.endpoint.path /\ (":id" \in Range(r.endpoint.path) => r.id = q.id)
  BY <1>5, SameUrl
<1>9. a.id = b.id
  BY <1>1, <1>2, <1>8
<1>10. Plain(r) = Plain(q)
  <2>1. \A i \in DOMAIN r.endpoint.path :
           r.endpoint.path[i] = ":id" => ":id" \in Range(r.endpoint.path)
    BY DEF Range
  <2>2. r.endpoint.path[1] # ":id" => r.first = q.first
    BY <1>8, FirstWord
  <2>3. /\ Plain(r) = [i \in DOMAIN r.endpoint.path |-> Plain(r)[i]]
        /\ Plain(q) = [i \in DOMAIN r.endpoint.path |-> Plain(q)[i]]
    BY <1>8 DEF Plain
  <2>4. ASSUME NEW i \in DOMAIN r.endpoint.path PROVE Plain(r)[i] = Plain(q)[i]
    BY <1>8, <2>1, <2>2, PlainAt
  <2>. QED
    BY <2>3, <2>4
<1>11. normalizePath(a.url) = normalizePath(b.url)
  BY <1>1, <1>2, <1>10, PlainUrl
<1>12. a.query = b.query
  BY <1>1, <1>2, <1>6, SameQuery
<1>13. Alike(a, b)
  BY <1>3, <1>7, <1>9, <1>11, <1>12 DEF Alike
<1>. QED
  BY <1>13 DEF a, b

-----------------------------------------------------------------------------
(***************************************************************************)
(* The keys of the cache.                                                  *)
(***************************************************************************)

\* Where a request is under way, it is one of those that may arrive.
Known == request # None => request \in Requests

\* It is so at the start, and every step keeps it.
LEMMA InitKnown == Init => Known
  BY DEF Init, Known

LEMMA NextKnown == Known /\ [Next]_vars => Known'
<1>. SUFFICES ASSUME Known, [Next]_vars PROVE Known'
  OBVIOUS
<1>1. ASSUME NEW r \in Requests, arrive(r) PROVE Known'
  BY <1>1 DEF arrive, Known
<1>2. ASSUME respond PROVE Known'
  BY <1>2 DEF respond, Known
<1>3. ASSUME UNCHANGED request PROVE Known'
  BY <1>3 DEF Known
<1>4. intercept => UNCHANGED request
  BY DEF intercept
<1>5. \A load : getLoad(load) => UNCHANGED request
  BY DEF getLoad
<1>6. handle => UNCHANGED request
  BY DEF handle
<1>7. \A d : createQueue(d) \/ removeQueue(d) => UNCHANGED request
  BY DEF createQueue, removeQueue
<1>8. /\ \A p : addExclusion(p) \/ removeExclusion(p) => UNCHANGED request
      /\ clearCustomExclusions => UNCHANGED request
  BY DEF addExclusion, removeExclusion, clearCustomExclusions
<1>9. UNCHANGED vars => UNCHANGED request
  BY DEF vars
<1>. QED
  BY <1>1, <1>2, <1>3, <1>4, <1>5, <1>6, <1>7, <1>8, <1>9 DEF Next

\* The answers of the cache that are kept under the key of a request.
LEMMA AnswerOfKey ==
    ASSUME NEW r \in Requests, Cacheable(r), Single(r), Separable(r), NEW a \in Answers,
           a.key = buildCacheKey(buildJobData(r))
    PROVE  /\ a.user = buildJobData(r).user
           /\ a.message = resolve(buildJobData(r))
<1>1. PICK q \in Requests :
        /\ Cacheable(q) /\ Single(q) /\ Separable(q)
        /\ a = [key |-> buildCacheKey(buildJobData(q)), user |-> buildJobData(q).user,
                message |-> resolve(buildJobData(q))]
  BY Zenon DEF Answers, CachedJobs
<1>. DEFINE j == buildJobData(q)
            k == buildJobData(r)
<1>2. a.key = buildCacheKey(j) /\ a.user = j.user /\ a.message = resolve(j)
  BY <1>1
<1>3. Alike(j, k)
  BY <1>1, <1>2, SameKey
<1>. HIDE DEF j, k
<1>4. resolve(j) = resolve(k)
  BY <1>3, AllRead, AlikeResolve
<1>5. j.user = k.user
  BY <1>3 DEF Alike
<1>6. a.user = k.user /\ a.message = resolve(k)
  BY <1>2, <1>4, <1>5
<1>. QED
  BY <1>6 DEF k

\* No response is kept under the key of another user's request, or of one that
\* asks the microservices for something else: whatever the endpoints called,
\* the ids and the queries, as long as no part of a key has a separator in it.
THEOREM KeysAreUnique == Spec => []UniqueKey
<1>1. Spec => []Known
  BY InitKnown, NextKnown, PTL DEF Spec
<1>2. ASSUME Known, TypeOK PROVE UniqueKey
  <2>. SUFFICES ASSUME stage = "intercept", Cacheable(request), Single(request), Separable(request),
                       NEW a \in Answers, a.key = buildCacheKey(Job)
                PROVE  a.user = Job.user /\ a.message = resolve(Job)
    BY DEF UniqueKey
  <2>1. request \in Requests
    <3>1. request # None
      BY <1>2 DEF TypeOK
    <3>. QED
      BY <1>2, <3>1 DEF Known
  <2>. QED
    BY <2>1, AnswerOfKey DEF Job
<1>. QED
  BY <1>1, <1>2, TypeCorrect, PTL
=============================================================================
