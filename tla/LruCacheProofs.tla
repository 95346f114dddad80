--------------------------- MODULE LruCacheProofs ---------------------------
(***************************************************************************)
(* Proofs about LruCache, for every set of keys, values and writers and    *)
(* every maxSize: type correctness, the agreement of the two maps, the     *)
(* bound on the overshoot of the capacity and its end, and the             *)
(* implementation of the recency order.                                    *)
(***************************************************************************)
EXTENDS LruCache, FiniteSetTheorems, SequenceTheorems, TLAPS

\* RemoveKeys keeps the types of both maps.
LEMMA RemoveKeysTypes ==
    ASSUME TypeOK, NEW S, RemoveKeys(S)
    PROVE  /\ DOMAIN cache' \subseteq Keys
           /\ cache' \in [DOMAIN cache' -> Entry]
           /\ accessOrder' \in [DOMAIN accessOrder' -> Nat]
  BY DEF TypeOK, RemoveKeys, Restrict

LEMMA TouchTypes ==
    ASSUME TypeOK, NEW k, updateAccessOrder(k)
    PROVE  /\ accessOrder' \in [DOMAIN accessOrder' -> Nat]
           /\ currentTime' \in Nat
  BY DEF TypeOK, updateAccessOrder, Put

\* One turn of the eviction loop keeps the types.
LEMMA EnsureCapacityTypes ==
    ASSUME TypeOK, NEW w \in Writers, ensureCapacity(w)
    PROVE  /\ DOMAIN cache' \subseteq Keys
           /\ cache' \in [DOMAIN cache' -> Entry]
           /\ accessOrder' \in [DOMAIN accessOrder' -> Nat]
           /\ pc' \in [Writers -> Stages]
           /\ \A x \in Writers : x # w => pc'[x] = pc[x]
           /\ pc'[w] # "idle"
  <1>1. CASE Size < MaxSize /\ UNCHANGED <<cache, accessOrder>> /\ pc' = [pc EXCEPT ![w] = "storing"]
    BY <1>1 DEF TypeOK, Stages
  <1>2. CASE evictLRU /\ pc' = [pc EXCEPT ![w] = "evicting"]
    <2>1. PICK k \in DOMAIN accessOrder : RemoveKeys({k})
      BY <1>2 DEF evictLRU
    <2>. QED
      BY <1>2, <2>1, RemoveKeysTypes DEF TypeOK, Stages
  <1>. QED
    BY <1>1, <1>2 DEF ensureCapacity

\* The state is always of the expected type; in particular a set() that is
\* under way always has the entry it is going to store.
THEOREM TypeCorrect == Spec => []TypeOK
<1>1. Init => TypeOK
  <2>. SUFFICES ASSUME Init PROVE TypeOK
    OBVIOUS
  <2>. QED
    BY CacheAssumption DEF Init, TypeOK, Stages, EmptyMap
<1>2. TypeOK /\ [Next]_vars => TypeOK'
  <2>. SUFFICES ASSUME TypeOK, [Next]_vars PROVE TypeOK'
    OBVIOUS
  <2>1. ASSUME NEW k \in Keys, get(k) PROVE TypeOK'
    <3>1. CASE /\ k \in DOMAIN cache
               /\ updateAccessOrder(k)
               /\ reply' = cache[k].value
               /\ UNCHANGED cache
      <4>1. cache[k].value \in Values
        BY <3>1 DEF TypeOK, Entry
      <4>. QED
        BY <2>1, <3>1, <4>1, TouchTypes DEF TypeOK, get, calls
    <3>2. CASE reply' = NULL /\ RemoveKeys({k}) /\ UNCHANGED currentTime
      BY <2>1, <3>2, RemoveKeysTypes DEF TypeOK, get, calls
    <3>. QED
      BY <2>1, <3>1, <3>2 DEF get
  <2>2. ASSUME NEW k \in Keys, delete(k) PROVE TypeOK'
    BY <2>2, RemoveKeysTypes DEF TypeOK, delete, calls
  <2>3. ASSUME NEW k \in Keys, has(k) PROVE TypeOK'
    BY <2>3, RemoveKeysTypes DEF TypeOK, has, calls
  <2>4. ASSUME NEW w \in Writers, NEW k \in Keys, NEW v \in Values,
               NEW ttl \in Ttls, set(w, k, v, ttl)
        PROVE  TypeOK'
    <3>1. [value |-> v, expiry |-> now + ttl] \in Entry
      BY DEF TypeOK, Entry
    <3>2. /\ pending' \in [Writers -> StoreCall \cup {NULL}]
          /\ \A x \in Writers : x # w => pending'[x] = pending[x]
          /\ pending'[w] = [key |-> k, entry |-> [value |-> v, expiry |-> now + ttl]]
      BY <2>4, <3>1 DEF TypeOK, set, StoreCall
    <3>3. [key |-> k, entry |-> [value |-> v, expiry |-> now + ttl]] # NULL
      BY <3>1, CacheAssumption DEF StoreCall
    <3>4. ensureCapacity(w)
      BY <2>4 DEF set
    <3>. QED
      BY <2>4, <3>2, <3>3, <3>4, EnsureCapacityTypes DEF TypeOK, set
  <2>5. ASSUME NEW w \in Writers, resumeEviction(w) PROVE TypeOK'
    <3>1. ensureCapacity(w) /\ ready' \in Seq(Writers) /\ pc[w] # "idle"
      BY <2>5 DEF TypeOK, resumeEviction
    <3>. QED
      BY <2>5, <3>1, EnsureCapacityTypes DEF TypeOK, resumeEviction
  <2>6. ASSUME NEW w \in Writers, resumeStore(w) PROVE TypeOK'
    <3>1. pending[w] \in StoreCall
      BY <2>6 DEF TypeOK, resumeStore
    <3>2. /\ DOMAIN cache' \subseteq Keys
          /\ cache' \in [DOMAIN cache' -> Entry]
      BY <2>6, <3>1 DEF TypeOK, resumeStore, Put, StoreCall
    <3>3. updateAccessOrder(pending[w].key)
      BY <2>6 DEF resumeStore
    <3>. QED
      BY <2>6, <3>2, <3>3, TouchTypes DEF TypeOK, resumeStore, Stages
  <2>7. CASE clearCache
    BY <2>7 DEF TypeOK, clearCache, clear, calls, EmptyMap
  <2>8. CASE cleanupExpired
    BY <2>8, RemoveKeysTypes DEF TypeOK, cleanupExpired, calls
  <2>9. CASE onModuleDestroy
    BY <2>9 DEF TypeOK, onModuleDestroy, clear, calls, EmptyMap
  <2>10. CASE NextTurn
    BY <2>10 DEF TypeOK, NextTurn, store
  <2>11. CASE Tick
    BY <2>11, CacheAssumption DEF TypeOK, Tick, store, calls
  <2>12. CASE UNCHANGED vars
    BY <2>12 DEF TypeOK, vars
  <2>. QED
    BY <2>1, <2>2, <2>3, <2>4, <2>5, <2>6, <2>7, <2>8, <2>9, <2>10, <2>11, <2>12
       DEF Next, Resume
<1>. QED
  BY <1>1, <1>2, PTL DEF Spec

-----------------------------------------------------------------------------
\* Removing keys, and using a key that is or becomes present, keep the two
\* maps in agreement.
LEMMA RemoveKeysAgree ==
    ASSUME TypeOK, MapsAgree, NEW S, RemoveKeys(S), UNCHANGED currentTime
    PROVE  MapsAgree'
  BY DEF TypeOK, MapsAgree, RemoveKeys, Restrict

LEMMA TouchAgree ==
    ASSUME TypeOK, MapsAgree, NEW k, updateAccessOrder(k),
           DOMAIN cache' = (DOMAIN cache) \cup {k}
    PROVE  MapsAgree'
  BY DEF TypeOK, MapsAgree, updateAccessOrder, Put

LEMMA EnsureCapacityAgree ==
    ASSUME TypeOK, MapsAgree, NEW w \in Writers, ensureCapacity(w),
           UNCHANGED currentTime
    PROVE  MapsAgree'
  <1>1. CASE UNCHANGED <<cache, accessOrder>>
    BY <1>1 DEF MapsAgree
  <1>2. CASE evictLRU
    BY <1>2, RemoveKeysAgree DEF evictLRU
  <1>. QED
    BY <1>1, <1>2 DEF ensureCapacity

LEMMA MapsAgreeStep == TypeOK /\ MapsAgree /\ [Next]_vars => MapsAgree'
<1>. SUFFICES ASSUME TypeOK, MapsAgree, [Next]_vars PROVE MapsAgree'
  OBVIOUS
<1>1. ASSUME NEW k \in Keys, get(k) PROVE MapsAgree'
  <2>1. CASE k \in DOMAIN cache /\ updateAccessOrder(k) /\ UNCHANGED cache
    BY <2>1, TouchAgree
  <2>2. CASE RemoveKeys({k}) /\ UNCHANGED currentTime
    BY <2>2, RemoveKeysAgree
  <2>. QED
    BY <1>1, <2>1, <2>2 DEF get
<1>2. ASSUME NEW k \in Keys, delete(k) PROVE MapsAgree'
  BY <1>2, RemoveKeysAgree DEF delete
<1>3. ASSUME NEW k \in Keys, has(k) PROVE MapsAgree'
  BY <1>3, RemoveKeysAgree DEF has
<1>4. ASSUME NEW w \in Writers, NEW k \in Keys, NEW v \in Values,
             NEW ttl \in Ttls, set(w, k, v, ttl)
      PROVE  MapsAgree'
  BY <1>4, EnsureCapacityAgree DEF set
<1>5. ASSUME NEW w \in Writers, resumeEviction(w) PROVE MapsAgree'
  BY <1>5, EnsureCapacityAgree DEF resumeEviction
<1>6. ASSUME NEW w \in Writers, resumeStore(w) PROVE MapsAgree'
  <2>1. /\ updateAccessOrder(pending[w].key)
        /\ DOMAIN cache' = (DOMAIN cache) \cup {pending[w].key}
    BY <1>6 DEF resumeStore, Put
  <2>. QED
    BY <2>1, TouchAgree
<1>7. CASE clear
  BY <1>7 DEF MapsAgree, clear, EmptyMap
<1>8. CASE cleanupExpired
  BY <1>8, RemoveKeysAgree DEF cleanupExpired
<1>9. CASE UNCHANGED store
  BY <1>9 DEF MapsAgree, store
<1>. QED
  BY <1>1, <1>2, <1>3, <1>4, <1>5, <1>6, <1>7, <1>8, <1>9
     DEF Next, Resume, clearCache, onModuleDestroy, NextTurn, Tick, vars, store

\* The two maps hold the same keys and order their uses strictly.
THEOREM MapsAlwaysAgree == Spec => []MapsAgree
<1>1. Init => MapsAgree
  BY DEF Init, MapsAgree, EmptyMap
<1>. QED
  BY <1>1, MapsAgreeStep, TypeCorrect, PTL DEF Spec

-----------------------------------------------------------------------------
\* The cache is finite: TLC needs no such statement, Cardinality does.
Finite == IsFiniteSet(DOMAIN cache)
CapacityInv == Finite /\ OvershootBound

\* Sizes as numbers.
LEMMA Sizes ==
    ASSUME TypeOK, Finite
    PROVE  /\ Size \in Nat
           /\ IsFiniteSet(Storing)
           /\ Cardinality(Storing) \in Nat
           /\ Cardinality(Writers) \in Nat
           /\ Cardinality(Storing) <= Cardinality(Writers)
  <1>1. Storing \subseteq Writers
    BY DEF Storing, At
  <1>. QED
    BY <1>1, CacheAssumption, FS_Subset, FS_CardinalityType DEF Finite, Size

\* A step that adds no key and lets no further set() pass the test keeps the
\* bound.
LEMMA ShrinkingKeepsBound ==
    ASSUME TypeOK, TypeOK', CapacityInv,
           DOMAIN cache' \subseteq DOMAIN cache, Storing' \subseteq Storing
    PROVE  CapacityInv'
  <1>1. IsFiniteSet(DOMAIN cache') /\ Size' <= Size
    BY FS_Subset DEF CapacityInv, Finite, Size
  <1>2. Cardinality(Storing') <= Cardinality(Storing)
    BY Sizes, FS_Subset DEF CapacityInv
  <1>3. /\ Size \in Nat /\ Cardinality(Storing) \in Nat
        /\ Size' \in Nat /\ Cardinality(Storing') \in Nat
        /\ Cardinality(Writers) \in Nat
    BY <1>1, Sizes, FS_Subset, FS_CardinalityType DEF CapacityInv, Finite, Size
  <1>. QED
    BY <1>1, <1>2, <1>3, CacheAssumption DEF CapacityInv, OvershootBound, Finite

\* A set() passes the test only while there is room: then the entries and the
\* sets that passed are at most maxSize - 1 and all the writers.
LEMMA PassingKeepsBound ==
    ASSUME TypeOK, TypeOK', CapacityInv, NEW w \in Writers, ensureCapacity(w)
    PROVE  CapacityInv'
  <1>1. CASE Size < MaxSize /\ UNCHANGED cache
    <2>1. Size' = Size /\ Finite'
      BY <1>1 DEF Size, Finite, CapacityInv
    <2>2. /\ Size \in Nat /\ Cardinality(Storing') \in Nat /\ Cardinality(Writers) \in Nat
          /\ Cardinality(Storing') <= Cardinality(Writers)
      <3>1. Storing' \subseteq Writers
        BY DEF Storing, At
      <3>. QED
        BY <3>1, Sizes, CacheAssumption, FS_Subset, FS_CardinalityType DEF CapacityInv
    <2>. QED
      BY <1>1, <2>1, <2>2, CacheAssumption DEF CapacityInv, OvershootBound
  <1>2. CASE evictLRU /\ pc' = [pc EXCEPT ![w] = "evicting"]
    <2>1. DOMAIN cache' \subseteq DOMAIN cache
      BY <1>2 DEF evictLRU, RemoveKeys, Restrict
    <2>2. Storing' \subseteq Storing
      BY <1>2 DEF Storing, At, TypeOK
    <2>. QED
      BY <2>1, <2>2, ShrinkingKeepsBound
  <1>. QED
    BY <1>1, <1>2 DEF ensureCapacity

\* A store adds at most one entry and takes one set() out of those that passed.
LEMMA StoringKeepsBound ==
    ASSUME TypeOK, TypeOK', CapacityInv, NEW w \in Writers, resumeStore(w)
    PROVE  CapacityInv'
  <1>1. DOMAIN cache' = (DOMAIN cache) \cup {pending[w].key}
    BY DEF resumeStore, Put
  <1>2. IsFiniteSet(DOMAIN cache') /\ Size' <= Size + 1
    <2>1. IsFiniteSet(DOMAIN cache)
      BY DEF CapacityInv, Finite
    <2>2. /\ IsFiniteSet((DOMAIN cache) \cup {pending[w].key})
          /\ \/ Cardinality((DOMAIN cache) \cup {pending[w].key}) = Cardinality(DOMAIN cache)
             \/ Cardinality((DOMAIN cache) \cup {pending[w].key}) = Cardinality(DOMAIN cache) + 1
      BY <2>1, FS_AddElement
    <2>3. Cardinality(DOMAIN cache) \in Nat
      BY <2>1, FS_CardinalityType
    <2>. QED
      BY <1>1, <2>2, <2>3 DEF Size
  <1>3. w \in Storing /\ Storing' = Storing \ {w}
    BY DEF resumeStore, Storing, At, TypeOK
  <1>4. Cardinality(Storing') = Cardinality(Storing) - 1
    BY <1>3, Sizes, FS_RemoveElement DEF CapacityInv
  <1>5. /\ Size \in Nat /\ Cardinality(Storing) \in Nat
        /\ Size' \in Nat /\ Cardinality(Writers) \in Nat
    BY <1>2, Sizes, FS_CardinalityType DEF CapacityInv, Finite, Size
  <1>. QED
    BY <1>2, <1>4, <1>5, CacheAssumption DEF CapacityInv, OvershootBound, Finite

\* The cache is finite and keeps the bound.
LEMMA CapacityKept == Spec => []CapacityInv
<1>1. Init => CapacityInv
  <2>. SUFFICES ASSUME Init PROVE CapacityInv
    OBVIOUS
  <2>1. DOMAIN cache = {} /\ Storing = {}
    BY DEF Init, EmptyMap, Storing, At
  <2>2. /\ Size = 0 /\ Finite /\ Cardinality(Storing) = 0
        /\ Cardinality(Writers) \in Nat
    BY <2>1, CacheAssumption, FS_EmptySet, FS_CardinalityType DEF Size, Finite
  <2>. QED
    BY <2>2, CacheAssumption DEF CapacityInv, OvershootBound
<1>2. TypeOK /\ TypeOK' /\ CapacityInv /\ [Next]_vars => CapacityInv'
  <2>. SUFFICES ASSUME TypeOK, TypeOK', CapacityInv, [Next]_vars PROVE CapacityInv'
    OBVIOUS
  <2>1. ASSUME NEW k \in Keys, get(k) \/ delete(k) \/ has(k) PROVE CapacityInv'
    <3>1. DOMAIN cache' \subseteq DOMAIN cache /\ UNCHANGED pc
      BY <2>1 DEF get, delete, has, RemoveKeys, Restrict, calls
    <3>. QED
      BY <3>1, ShrinkingKeepsBound DEF Storing, At
  <2>2. ASSUME NEW w \in Writers, ensureCapacity(w) PROVE CapacityInv'
    BY <2>2, PassingKeepsBound
  <2>3. ASSUME NEW w \in Writers, resumeStore(w) PROVE CapacityInv'
    BY <2>3, StoringKeepsBound
  <2>4. CASE clear /\ UNCHANGED pc
    <3>1. DOMAIN cache' \subseteq DOMAIN cache
      BY <2>4 DEF clear, EmptyMap
    <3>. QED
      BY <2>4, <3>1, ShrinkingKeepsBound DEF Storing, At
  <2>5. CASE cleanupExpired
    <3>1. DOMAIN cache' \subseteq DOMAIN cache /\ UNCHANGED pc
      BY <2>5 DEF cleanupExpired, RemoveKeys, Restrict, calls
    <3>. QED
      BY <3>1, ShrinkingKeepsBound DEF Storing, At
  <2>6. CASE UNCHANGED <<cache, pc>>
    BY <2>6, ShrinkingKeepsBound DEF Storing, At
  <2>. QED
    BY <2>1, <2>2, <2>3, <2>4, <2>5, <2>6
       DEF Next, Resume, set, resumeEviction, clearCache, onModuleDestroy,
           NextTurn, Tick, vars, store, calls
<1>. QED
  BY <1>1, <1>2, TypeCorrect, PTL DEF Spec

\* However many sets interleave, the cache exceeds maxSize by less than the
\* number of writers.
THEOREM OvershootBounded == Spec => []OvershootBound
<1>1. CapacityInv => OvershootBound
  BY DEF CapacityInv
<1>. QED
  BY <1>1, CapacityKept, PTL

-----------------------------------------------------------------------------
\* A set() that is under way has a continuation waiting, and is one of those
\* called since none was; one that was called alone stores into a cache that
\* has room.
Waits == \A w \in Writers : pc[w] # "idle" => w \in Range(ready) /\ w \in called
RoomForOne == \A w \in Writers : called = {w} /\ pc[w] = "storing" => Size < MaxSize
LoneInv == Waits /\ RoomForOne

\* What two sequences hold together, in the form the proofs below use.
LEMMA JoinedRange ==
    ASSUME NEW T
    PROVE  \A a, b \in Seq(T) : \A x : x \in Range(a \o b) <=> x \in Range(a) \/ x \in Range(b)
  BY RangeConcatenation, SMT

\* What waits after a continuation was taken, or one was added.
LEMMA Queued ==
    ASSUME TypeOK
    PROVE  /\ \A w \in Writers : Range(Append(ready, w)) = Range(ready) \cup {w}
           /\ ready # << >> => /\ Tail(ready) \in Seq(Writers)
                              /\ Range(ready) = Range(Tail(ready)) \cup {Head(ready)}
                              /\ \A w \in Writers :
                                   Range(Append(Tail(ready), w)) = Range(Tail(ready)) \cup {w}
<1>1. ready \in Seq(Writers)
  BY DEF TypeOK
<1>2. ASSUME NEW s \in Seq(Writers), NEW w \in Writers
      PROVE  Range(Append(s, w)) = Range(s) \cup {w}
  <2>. DEFINE one == <<w>>
  <2>1. one \in Seq(Writers) /\ Range(one) = {w} /\ Append(s, w) = s \o one
    BY AppendIsConcat DEF Range
  <2>. DEFINE longer == Append(s, w)
              both == s \o one
  <2>2. longer = both
    BY <2>1
  <2>. HIDE DEF one
  <2>3. \A x : x \in Range(both) <=> x \in Range(s) \/ x \in Range(one)
    BY <2>1, JoinedRange
  <2>. HIDE DEF longer, both
  <2>4. Range(longer) = Range(s) \cup {w}
    BY <2>1, <2>2, <2>3
  <2>. QED
    BY <2>4, Zenon DEF longer
<1>3. ASSUME ready # << >>
      PROVE  /\ Tail(ready) \in Seq(Writers)
             /\ Range(ready) = Range(Tail(ready)) \cup {Head(ready)}
  <2>. DEFINE one == <<Head(ready)>>
              rest == Tail(ready)
  <2>1. Head(ready) \in Writers /\ rest \in Seq(Writers)
    BY <1>1, <1>3, HeadTailProperties
  <2>2. ready = one \o rest /\ one \in Seq(Writers) /\ Range(one) = {Head(ready)}
    BY <1>1, <1>3, <2>1 DEF Range
  <2>. HIDE DEF one, rest
  <2>. DEFINE both == one \o rest
  <2>3. \A x : x \in Range(both) <=> x \in Range(one) \/ x \in Range(rest)
    BY <2>1, <2>2, JoinedRange
  <2>4. ready = both
    BY <2>2
  <2>. HIDE DEF both
  <2>5. Range(ready) = Range(rest) \cup {Head(ready)}
    BY <2>2, <2>3, <2>4
  <2>. QED
    BY <2>1, <2>5, Zenon DEF rest
<1>. QED
  BY <1>1, <1>2, <1>3

\* Room stays while nothing is stored and nobody passes the test.
LEMMA RoomStays ==
    ASSUME TypeOK, Finite, LoneInv, DOMAIN cache' \subseteq DOMAIN cache,
           UNCHANGED <<pc, ready, called>>
    PROVE  LoneInv'
<1>1. Size' <= Size /\ Size \in Nat /\ Size' \in Nat
  BY FS_Subset, FS_CardinalityType DEF Finite, Size
<1>2. RoomForOne'
  BY <1>1, CacheAssumption DEF LoneInv, RoomForOne
<1>3. Waits'
  BY DEF LoneInv, Waits
<1>. QED
  BY <1>2, <1>3 DEF LoneInv

\* Who passes the test alone finds room.
LEMMA TestFindsRoom ==
    ASSUME TypeOK, NEW w \in Writers, ensureCapacity(w)
    PROVE  /\ \A x \in Writers : x # w => pc'[x] = pc[x]
           /\ pc'[w] = "storing" => Size' < MaxSize
<1>1. pc \in [Writers -> Stages]
  BY DEF TypeOK
<1>2. CASE Size < MaxSize /\ UNCHANGED cache /\ pc' = [pc EXCEPT ![w] = "storing"]
  BY <1>1, <1>2 DEF Size
<1>3. CASE pc' = [pc EXCEPT ![w] = "evicting"]
  BY <1>1, <1>3
<1>. QED
  BY <1>2, <1>3 DEF ensureCapacity

\* Every step keeps this.
LEMMA LoneStep == TypeOK /\ Finite /\ LoneInv /\ [Next]_vars => LoneInv'
<1>. SUFFICES ASSUME TypeOK, Finite, LoneInv, [Next]_vars PROVE LoneInv'
  OBVIOUS
<1>1. ASSUME NEW k \in Keys, get(k) \/ delete(k) \/ has(k) PROVE LoneInv'
  <2>1. DOMAIN cache' \subseteq DOMAIN cache /\ UNCHANGED <<pc, ready, called>>
    BY <1>1 DEF get, delete, has, RemoveKeys, Restrict, calls
  <2>. QED
    BY <2>1, RoomStays
<1>2. ASSUME NEW w \in Writers, NEW k \in Keys, NEW v \in Values, NEW ttl \in Ttls,
             set(w, k, v, ttl)
      PROVE  LoneInv'
  <2>1. /\ ensureCapacity(w) /\ w \notin called
        /\ ready' = Append(ready, w) /\ called' = called \cup {w}
    BY <1>2 DEF set
  <2>2. Waits'
    BY <2>1, TestFindsRoom, Queued DEF LoneInv, Waits
  <2>3. RoomForOne'
    BY <2>1, TestFindsRoom DEF RoomForOne
  <2>. QED
    BY <2>2, <2>3 DEF LoneInv
<1>3. ASSUME NEW w \in Writers, resumeEviction(w) PROVE LoneInv'
  <2>1. /\ ensureCapacity(w) /\ w \in called /\ called' = called
        /\ ready # << >> /\ w = Head(ready) /\ ready' = Append(Tail(ready), w)
    BY <1>3 DEF resumeEviction, LoneInv, Waits
  <2>2. Waits'
    BY <2>1, TestFindsRoom, Queued DEF LoneInv, Waits
  <2>3. RoomForOne'
    BY <2>1, TestFindsRoom DEF RoomForOne
  <2>. QED
    BY <2>2, <2>3 DEF LoneInv
<1>4. ASSUME NEW w \in Writers, resumeStore(w) PROVE LoneInv'
  <2>1. /\ w \in called /\ called' = called /\ pc' = [pc EXCEPT ![w] = "idle"]
        /\ ready # << >> /\ w = Head(ready) /\ ready' = Tail(ready)
    BY <1>4 DEF resumeStore, LoneInv, Waits
  <2>2. pc'[w] = "idle" /\ \A x \in Writers : x # w => pc'[x] = pc[x]
    BY <2>1 DEF TypeOK
  <2>3. Waits'
    BY <2>1, <2>2, Queued DEF LoneInv, Waits
  <2>4. RoomForOne'
    BY <2>1, <2>2 DEF RoomForOne
  <2>. QED
    BY <2>3, <2>4 DEF LoneInv
<1>5. ASSUME clear, UNCHANGED calls PROVE LoneInv'
  <2>1. DOMAIN cache' \subseteq DOMAIN cache
    BY <1>5 DEF clear, EmptyMap
  <2>. QED
    BY <1>5, <2>1, RoomStays DEF calls
<1>6. CASE cleanupExpired
  <2>1. DOMAIN cache' \subseteq DOMAIN cache
    BY <1>6 DEF cleanupExpired, RemoveKeys, Restrict
  <2>. QED
    BY <1>6, <2>1, RoomStays DEF cleanupExpired, calls
<1>7. CASE NextTurn
  <2>1. ready = << >> /\ called' = {} /\ UNCHANGED <<pc, ready>>
    BY <1>7 DEF NextTurn
  <2>2. Range(<< >>) = {}
    BY DEF Range
  <2>. QED
    BY <2>1, <2>2 DEF LoneInv, Waits, RoomForOne
<1>8. CASE UNCHANGED <<cache, calls>>
  BY <1>8, RoomStays DEF calls
<1>. QED
  BY <1>1, <1>2, <1>3, <1>4, <1>5, <1>6, <1>7, <1>8
     DEF Next, Resume, clearCache, onModuleDestroy, Tick, vars, store, calls

\* However far the cache had overshot, a set() that runs without another beside
\* it leaves at most maxSize entries (the loop of ensureCapacity).
THEOREM LoneSetRestores == Spec => LoneSetRestoresCapacity
<1>. DEFINE Restores == \A w \in Writers : resumeStore(w) /\ called = {w} => Size' <= MaxSize
<1>1. Init => LoneInv
  BY DEF Init, LoneInv, Waits, RoomForOne
<1>2. ASSUME TypeOK, Finite, LoneInv, NEW w \in Writers, resumeStore(w), called = {w}
      PROVE  Size' <= MaxSize
  <2>1. Size < MaxSize
    BY <1>2 DEF LoneInv, RoomForOne, resumeStore
  <2>2. DOMAIN cache' = (DOMAIN cache) \cup {pending[w].key}
    BY <1>2 DEF resumeStore, Put
  <2>3. /\ \/ Cardinality((DOMAIN cache) \cup {pending[w].key}) = Cardinality(DOMAIN cache)
           \/ Cardinality((DOMAIN cache) \cup {pending[w].key}) = Cardinality(DOMAIN cache) + 1
        /\ Cardinality(DOMAIN cache) \in Nat
    BY <1>2, FS_AddElement, FS_CardinalityType DEF Finite
  <2>. QED
    BY <2>1, <2>2, <2>3, CacheAssumption DEF Size
<1>3. TypeOK /\ Finite /\ LoneInv /\ [Next]_vars => [Restores]_vars
  BY <1>2
<1>4. CapacityInv => Finite
  BY DEF CapacityInv
<1>. QED
  BY <1>1, <1>3, <1>4, LoneStep, TypeCorrect, CapacityKept, PTL DEF Spec, LoneSetRestoresCapacity

-----------------------------------------------------------------------------
\* Removing keys from both maps removes them from the abstract table and order.
LEMMA RemoveRefines ==
    ASSUME TypeOK, MapsAgree, NEW S, RemoveKeys(S)
    PROVE  Recency!Remove(S)
  <1>1. UsedBefore' = Recency!OrderWithout(S)
    BY DEF UsedBefore, Recency!OrderWithout, RemoveKeys, Restrict
  <1>2. cache' = Restrict(cache, Recency!Present \ S)
    BY DEF RemoveKeys, Recency!Present
  <1>. QED
    BY <1>1, <1>2 DEF Recency!Remove, Recency!Restrict, Restrict

\* A new logical time makes the key the most recently used one.
LEMMA TouchRefines ==
    ASSUME TypeOK, MapsAgree, NEW k, updateAccessOrder(k)
    PROVE  UsedBefore' = Recency!OrderTouched(k)
  <1>1. accessOrder' = [j \in (DOMAIN accessOrder) \cup {k} |->
                          IF j = k THEN currentTime + 1 ELSE accessOrder[j]]
    BY DEF updateAccessOrder, Put
  <1>2. \A j \in DOMAIN accessOrder : accessOrder[j] \in Nat /\ accessOrder[j] < currentTime + 1
    BY DEF TypeOK, MapsAgree
  <1>3. currentTime \in Nat
    BY DEF TypeOK
  <1>4. ASSUME NEW p \in ((DOMAIN accessOrder) \cup {k}) \X ((DOMAIN accessOrder) \cup {k})
        PROVE  accessOrder'[p[1]] < accessOrder'[p[2]]
                 <=> \/ p \in UsedBefore /\ p[1] # k /\ p[2] # k
                     \/ p[1] # k /\ p[2] = k
    BY <1>1, <1>2, <1>3 DEF UsedBefore
  <1>5. UsedBefore' = {p \in ((DOMAIN accessOrder) \cup {k}) \X ((DOMAIN accessOrder) \cup {k}) :
                         \/ p \in UsedBefore /\ p[1] # k /\ p[2] # k
                         \/ p[1] # k /\ p[2] = k}
    BY <1>1, <1>4 DEF UsedBefore
  <1>6. Recency!Present = DOMAIN accessOrder
    BY DEF MapsAgree, Recency!Present
  <1>. QED
    BY <1>5, <1>6 DEF Recency!OrderTouched, Recency!OrderWithout, UsedBefore

\* The scan of the access times finds the key no other key was used before.
LEMMA EvictRefines ==
    ASSUME TypeOK, MapsAgree, evictLRU, Size >= MaxSize, UNCHANGED <<now, reply>>
    PROVE  Recency!Evict
  <1>1. PICK k \in DOMAIN accessOrder :
          /\ \A j \in DOMAIN accessOrder : accessOrder[k] <= accessOrder[j]
          /\ RemoveKeys({k})
    BY DEF evictLRU
  <1>2. Recency!Remove({k})
    BY <1>1, RemoveRefines
  <1>3. k \in Recency!Present /\ Recency!Cardinality(Recency!Present) >= MaxSize
    BY DEF MapsAgree, Recency!Present, Size, Cardinality, Recency!Cardinality
  <1>4. \A j \in Recency!Present : <<j, k>> \notin UsedBefore
    BY <1>1 DEF UsedBefore, MapsAgree, TypeOK, Recency!Present
  <1>. QED
    BY <1>2, <1>3, <1>4 DEF Recency!Evict

LEMMA EnsureCapacityRefines ==
    ASSUME TypeOK, MapsAgree, NEW w \in Writers, ensureCapacity(w),
           UNCHANGED <<now, reply>>
    PROVE  [Recency!Next]_(Recency!vars)
  <1>1. CASE UNCHANGED <<cache, accessOrder>>
    BY <1>1 DEF Recency!vars, UsedBefore
  <1>2. CASE evictLRU /\ Size >= MaxSize
    BY <1>2, EvictRefines DEF Recency!Next
  <1>. QED
    BY <1>1, <1>2 DEF ensureCapacity

\* A clear removes every key.
LEMMA ClearRefines ==
    ASSUME TypeOK, MapsAgree, clear, UNCHANGED <<now, reply>>
    PROVE  Recency!Next
  <1>1. /\ cache' = Restrict(cache, Recency!Present \ Recency!Present)
        /\ UsedBefore' = Recency!OrderWithout(Recency!Present)
    BY DEF TypeOK, MapsAgree, clear, EmptyMap, Restrict, UsedBefore,
           Recency!OrderWithout, Recency!Present
  <1>2. Recency!Clear
    BY <1>1 DEF Recency!Clear, Recency!Remove, Recency!Restrict, Restrict
  <1>. QED
    BY <1>2 DEF Recency!Next

\* The logical clock, the two maps and the interleaved sets implement a table
\* with a recency order.
THEOREM CacheImplementsRecency == Spec => ImplementsRecency
<1>1. Init => Recency!Init
  BY DEF Init, EmptyMap, Recency!Init, UsedBefore
<1>2. TypeOK /\ MapsAgree /\ [Next]_vars => [Recency!Next]_(Recency!vars)
  <2>. SUFFICES ASSUME TypeOK, MapsAgree, [Next]_vars PROVE [Recency!Next]_(Recency!vars)
    OBVIOUS
  <2>1. ASSUME NEW k \in Keys, get(k) PROVE Recency!Next
    <3>1. CASE /\ k \in DOMAIN cache /\ ~isExpired(k)
               /\ updateAccessOrder(k)
               /\ reply' = cache[k].value
               /\ UNCHANGED cache
      BY <2>1, <3>1, TouchRefines
         DEF get, Recency!Next, Recency!Lookup, Recency!Present, Recency!Expired, isExpired
    <3>2. CASE /\ k \in DOMAIN cache => isExpired(k)
               /\ reply' = NULL
               /\ RemoveKeys({k})
      BY <2>1, <3>2, RemoveRefines
         DEF get, Recency!Next, Recency!Lookup, Recency!Present, Recency!Expired, isExpired
    <3>. QED
      BY <2>1, <3>1, <3>2 DEF get
  <2>2. ASSUME NEW k \in Keys, delete(k) PROVE Recency!Next
    <3>1. Recency!Delete(k)
      BY <2>2, RemoveRefines DEF delete, Recency!Delete, Recency!Present
    <3>. QED
      BY <3>1 DEF Recency!Next
  <2>3. ASSUME NEW k \in Keys, has(k) PROVE Recency!Next
    <3>1. {j \in {k} \cap DOMAIN cache : isExpired(j)}
            = {j \in {k} \cap Recency!Present : Recency!Expired(j)}
      BY DEF Recency!Present, Recency!Expired, isExpired
    <3>2. Recency!Check(k)
      BY <2>3, <3>1, RemoveRefines
         DEF has, Recency!Check, Recency!Present, Recency!Expired, isExpired
    <3>. QED
      BY <3>2 DEF Recency!Next
  <2>4. ASSUME NEW w \in Writers, ensureCapacity(w), UNCHANGED <<now, reply>>
        PROVE  [Recency!Next]_(Recency!vars)
    BY <2>4, EnsureCapacityRefines
  <2>5. ASSUME NEW w \in Writers, resumeStore(w) PROVE Recency!Next
    <3>1. pending[w].key \in Keys /\ pending[w].entry \in Entry
      BY <2>5 DEF resumeStore, TypeOK, StoreCall
    <3>2. UsedBefore' = Recency!OrderTouched(pending[w].key)
      BY <2>5, TouchRefines DEF resumeStore
    <3>3. Recency!Insert(pending[w].key, pending[w].entry)
      BY <2>5, <3>2 DEF resumeStore, Put, Recency!Insert, Recency!Present
    <3>. QED
      BY <3>1, <3>3 DEF Recency!Next, Recency!Entry, Entry
  <2>6. CASE clearCache \/ onModuleDestroy
    BY <2>6, ClearRefines DEF clearCache, onModuleDestroy
  <2>7. CASE cleanupExpired
    <3>1. {k \in DOMAIN cache : isExpired(k)} = {k \in Recency!Present : Recency!Expired(k)}
      BY DEF Recency!Present, Recency!Expired, isExpired
    <3>2. Recency!Sweep
      BY <2>7, <3>1, RemoveRefines DEF cleanupExpired, Recency!Sweep
    <3>. QED
      BY <3>2 DEF Recency!Next
  <2>8. CASE NextTurn \/ UNCHANGED vars
    BY <2>8 DEF NextTurn, vars, store, Recency!vars, UsedBefore
  <2>9. CASE Tick
    BY <2>9 DEF Tick, store, Recency!Next, Recency!TimePasses, UsedBefore
  <2>. QED
    BY <2>1, <2>2, <2>3, <2>4, <2>5, <2>6, <2>7, <2>8, <2>9
       DEF Next, Resume, set, resumeEviction
<1>. QED
  BY <1>1, <1>2, TypeCorrect, MapsAlwaysAgree, PTL
     DEF Spec, ImplementsRecency, Recency!Spec
=============================================================================
