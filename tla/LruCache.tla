------------------------------ MODULE LruCache ------------------------------
(***************************************************************************)
(* LRUCacheService (common/cache/services/lru-cache.service.ts): the cache *)
(* every worker of the gateway shares.                                     *)
(*                                                                         *)
(* The service runs on one JavaScript thread, but set() awaits its         *)
(* capacity check, so several sets interleave.  A step of this module is   *)
(* the code between two awaits.  `ready` is the queue of continuations     *)
(* (the microtask queue, served in order); `called` holds the writers that *)
(* called set() since that queue was last empty: a worker stores the       *)
(* result of a job that needed network replies, so it calls set() at most  *)
(* once before the queue drains.                                           *)
(***************************************************************************)
EXTENDS Naturals, FiniteSets, Sequences, Functions

CONSTANTS
    Keys,      \* cache keys
    Values,    \* values stored under them
    Writers,   \* workers that may store a result
    Ttls,      \* times to live asked for
    MaxSize,   \* config.maxSize
    MaxNow,    \* bound on wall-clock time
    MaxClock,  \* bound on the logical clock
    NULL       \* no value

Entry == [value: Values, expiry: {t + ttl : t \in 0..MaxNow, ttl \in Ttls}]
StoreCall == [key: Keys, entry: Entry]

ASSUME CacheAssumption ==
    /\ MaxSize \in Nat \ {0}
    /\ MaxNow \in Nat
    /\ MaxClock \in Nat
    /\ Ttls \subseteq Nat
    /\ IsFiniteSet(Writers)
    /\ NULL \notin Values \cup StoreCall

VARIABLES
    cache,        \* key -> entry
    accessOrder,  \* key -> logical time of its last use
    currentTime,  \* the logical clock
    now,          \* Date.now()
    timer,        \* is the periodic cleanup installed?
    pc,           \* writer -> where its set() is
    pending,      \* writer -> the key and entry its set() will store
    ready,        \* continuations waiting for the thread
    called,       \* writers that called set() since `ready` was empty
    reply         \* what the last get(), delete() or has() returned

store == <<cache, accessOrder, currentTime>>
calls == <<pc, pending, ready, called>>
vars == <<cache, accessOrder, currentTime, now, timer, pc, pending, ready,
          called, reply>>

Stages == {"idle", "evicting", "storing"}
At(stage) == {w \in Writers : pc[w] = stage}
Storing == At("storing")
Size == Cardinality(DOMAIN cache)

TypeOK ==
    /\ DOMAIN cache \subseteq Keys
    /\ cache \in [DOMAIN cache -> Entry]
    /\ accessOrder \in [DOMAIN accessOrder -> Nat]
    /\ currentTime \in Nat
    /\ now \in 0..MaxNow
    /\ timer \in BOOLEAN
    /\ pc \in [Writers -> Stages]
    /\ pending \in [Writers -> StoreCall \cup {NULL}]
    /\ \A w \in Writers : pc[w] # "idle" => pending[w] # NULL
    /\ ready \in Seq(Writers)
    /\ called \in SUBSET Writers
    /\ reply \in Values \cup BOOLEAN \cup {NULL}

-----------------------------------------------------------------------------
EmptyMap == [k \in {} |-> NULL]

\* f with k mapped to v.
Put(f, k, v) == [x \in (DOMAIN f) \cup {k} |-> IF x = k THEN v ELSE f[x]]

isExpired(k) == now > cache[k].expiry

\* Mutant: an entry leaves the cache but not the access order.
RemoveKeysMut(S) ==
    /\ cache' = Restrict(cache, DOMAIN cache \ S)
    /\ UNCHANGED accessOrder

\* Every mutation keeps the two maps in step by hand.
RemoveKeys(S) ==
    /\ cache' = Restrict(cache, DOMAIN cache \ S)
    /\ accessOrder' = Restrict(accessOrder, DOMAIN accessOrder \ S)

updateAccessOrder(k) ==
    /\ currentTime' = currentTime + 1
    /\ accessOrder' = Put(accessOrder, k, currentTime + 1)

\* Mutants: the scan keeps the largest time; the scan evicts nothing.
evictLRUMut ==
    \E k \in DOMAIN accessOrder :
        /\ \A j \in DOMAIN accessOrder : accessOrder[k] >= accessOrder[j]
        /\ RemoveKeys({k})
evictLRUMutNoop == UNCHANGED <<cache, accessOrder>>

\* Least recently used entry, found by a scan of the access times.
evictLRU ==
    \E k \in DOMAIN accessOrder :
        /\ \A j \in DOMAIN accessOrder : accessOrder[k] <= accessOrder[j]
        /\ RemoveKeys({k})

\* Mutants: the comparison is off by one; `if` in the place of `while`.
ensureCapacityMut(w) ==
    \/ /\ Size <= MaxSize
       /\ pc' = [pc EXCEPT ![w] = "storing"]
       /\ UNCHANGED <<cache, accessOrder>>
    \/ /\ Size > MaxSize
       /\ evictLRU
       /\ pc' = [pc EXCEPT ![w] = "evicting"]
ensureCapacityMutOnce(w) ==
    /\ pc' = [pc EXCEPT ![w] = "storing"]
    /\ IF Size >= MaxSize THEN evictLRU ELSE UNCHANGED <<cache, accessOrder>>

\* One turn of the loop that evicts while the cache is full: it either finds
\* room and lets set() go on, or evicts one entry and awaits.
ensureCapacity(w) ==
    \/ /\ Size < MaxSize
       /\ pc' = [pc EXCEPT ![w] = "storing"]
       /\ UNCHANGED <<cache, accessOrder>>
    \/ /\ Size >= MaxSize
       /\ evictLRU
       /\ pc' = [pc EXCEPT ![w] = "evicting"]

\* The logical clock stays within its bound when every call under way stores.
ClockHasRoom == currentTime + Len(ready) < MaxClock

-----------------------------------------------------------------------------
Init ==
    /\ cache = EmptyMap
    /\ accessOrder = EmptyMap
    /\ currentTime = 0
    /\ now = 0
    /\ timer = TRUE
    /\ pc = [w \in Writers |-> "idle"]
    /\ pending = [w \in Writers |-> NULL]
    /\ ready = << >>
    /\ called = {}
    /\ reply = NULL

get(k) ==
    /\ \/ /\ k \in DOMAIN cache
          /\ ~isExpired(k)
          /\ ClockHasRoom
          /\ updateAccessOrder(k)
          /\ reply' = cache[k].value
          /\ UNCHANGED cache
       \/ /\ k \in DOMAIN cache => isExpired(k)
          /\ reply' = NULL
          /\ RemoveKeys({k})
          /\ UNCHANGED currentTime
    /\ UNCHANGED <<calls, now, timer>>

\* set() up to its first await: the expiry is fixed here, before the wait.
set(w, k, v, ttl) ==
    /\ pc[w] = "idle"
    /\ w \notin called
    /\ ClockHasRoom
    /\ ensureCapacity(w)
    /\ pending' = [pending EXCEPT ![w] =
          [key |-> k, entry |-> [value |-> v, expiry |-> now + ttl]]]
    /\ ready' = Append(ready, w)
    /\ called' = called \cup {w}
    /\ UNCHANGED <<currentTime, now, timer, reply>>

\* The continuation of `await this.evictLRU()`: test the size again.
resumeEviction(w) ==
    /\ ready # << >> /\ w = Head(ready)
    /\ pc[w] = "evicting"
    /\ ensureCapacity(w)
    /\ ready' = Append(Tail(ready), w)
    /\ UNCHANGED <<currentTime, now, timer, pending, called, reply>>

\* Mutant: the call's entry is dropped while its call stays under way.
resumeStoreMut(w) ==
    /\ ready # << >> /\ w = Head(ready)
    /\ pc[w] = "storing"
    /\ cache' = Put(cache, pending[w].key, pending[w].entry)
    /\ updateAccessOrder(pending[w].key)
    /\ pending' = [pending EXCEPT ![w] = NULL]
    /\ ready' = Tail(ready)
    /\ UNCHANGED <<pc, now, timer, called, reply>>

\* The continuation of `await this.ensureCapacity()`: store without a test.
resumeStore(w) ==
    /\ ready # << >> /\ w = Head(ready)
    /\ pc[w] = "storing"
    /\ cache' = Put(cache, pending[w].key, pending[w].entry)
    /\ updateAccessOrder(pending[w].key)
    /\ pc' = [pc EXCEPT ![w] = "idle"]
    /\ pending' = [pending EXCEPT ![w] = NULL]
    /\ ready' = Tail(ready)
    /\ UNCHANGED <<now, timer, called, reply>>

delete(k) ==
    /\ RemoveKeys({k})
    /\ reply' = (k \in DOMAIN cache)
    /\ UNCHANGED <<currentTime, calls, now, timer>>

\* has() reports presence and, like get(), drops an expired entry; unlike
\* get() it does not count as a use.
has(k) ==
    /\ RemoveKeys({j \in {k} \cap DOMAIN cache : isExpired(j)})
    /\ reply' = (k \in DOMAIN cache /\ ~isExpired(k))
    /\ UNCHANGED <<currentTime, calls, now, timer>>

clear ==
    /\ cache' = EmptyMap
    /\ accessOrder' = EmptyMap
    /\ currentTime' = 0

clearCache ==
    /\ clear
    /\ UNCHANGED <<calls, now, timer, reply>>

\* A timer callback runs only when no continuation is waiting.
cleanupExpired ==
    /\ timer
    /\ ready = << >>
    /\ RemoveKeys({k \in DOMAIN cache : isExpired(k)})
    /\ UNCHANGED <<currentTime, calls, now, timer, reply>>

onModuleDestroy ==
    /\ timer
    /\ timer' = FALSE
    /\ clear
    /\ UNCHANGED <<calls, now, reply>>

\* The queue of continuations is empty: writers may be called again.
NextTurn ==
    /\ ready = << >>
    /\ called # {}
    /\ called' = {}
    /\ UNCHANGED <<store, pc, pending, ready, now, timer, reply>>

Tick ==
    /\ now < MaxNow
    /\ now' = now + 1
    /\ UNCHANGED <<store, calls, timer, reply>>

Resume == \E w \in Writers : resumeEviction(w) \/ resumeStore(w)

Next ==
    \/ \E k \in Keys : get(k) \/ delete(k) \/ has(k)
    \/ \E w \in Writers, k \in Keys, v \in Values, ttl \in Ttls : set(w, k, v, ttl)
    \/ Resume
    \/ clearCache
    \/ cleanupExpired
    \/ onModuleDestroy
    \/ NextTurn
    \/ Tick

Spec == Init /\ [][Next]_vars

\* The runtime always serves a waiting continuation; nothing else is promised.
FairSpec == Spec /\ WF_vars(Resume)

-----------------------------------------------------------------------------
(***************************************************************************)
(* Properties.                                                             *)
(***************************************************************************)

\* The two maps, kept in step by hand over six methods, hold the same keys;
\* no two entries were used at the same logical time, although clear() sets
\* the clock back to zero while sets are under way.
MapsAgree ==
    /\ DOMAIN cache = DOMAIN accessOrder
    /\ \A k \in DOMAIN accessOrder : accessOrder[k] \in 1..currentTime
    /\ \A j, k \in DOMAIN accessOrder : accessOrder[j] = accessOrder[k] => j = k

\* The capacity test and the store are separated by an await, so several sets
\* may pass the test before any of them stores.  The cache exceeds maxSize by
\* at most the number of concurrent sets less one, counting those that have
\* passed the test as if they had stored.
OvershootBound ==
    Size + Cardinality(Storing) <= (MaxSize - 1) + Cardinality(Writers)

\* An overshoot does not last: a set that runs without another set beside it
\* evicts until there is room, however far the cache had overshot.
LoneSetRestoresCapacity ==
    [][\A w \in Writers : resumeStore(w) /\ called = {w} => Size' <= MaxSize]_vars

\* The logical clock implements recency of use: the cache behaves like a table
\* with an order of use, whose evictions take the least recently used entry
\* and whose gets return the last entry stored, while it is not expired.
UsedBefore ==
    {p \in (DOMAIN accessOrder) \X (DOMAIN accessOrder) :
        accessOrder[p[1]] < accessOrder[p[2]]}
Recency == INSTANCE RecencyCache WITH table <- cache, older <- UsedBefore
ImplementsRecency == Recency!Spec

\* Every set() ends: the eviction loop is not kept busy for ever by stores of
\* other workers that slip in between its awaits.
EverySetCompletes == \A w \in Writers : pc[w] # "idle" ~> pc[w] = "idle"
=============================================================================
