---------------------------- MODULE RecencyCache ----------------------------
(***************************************************************************)
(* What the gateway's in-memory cache promises its callers, without its    *)
(* logical clock, its asynchronous capacity check or its callers: a table  *)
(* of entries that expire, a strict order saying which entry was used      *)
(* before which, and an eviction that may only take the entry nobody is    *)
(* older than.  LruCache is shown to implement this module.                *)
(***************************************************************************)
EXTENDS Naturals, Functions, FiniteSets

CONSTANTS
    Keys,      \* cache keys (strings in the code)
    Values,    \* values callers store
    Ttls,      \* times to live callers ask for
    MaxSize,   \* configured number of entries
    MaxNow,    \* bound on wall-clock time
    NULL       \* "no value"

VARIABLES
    table,     \* key -> entry, defined on the keys present
    older,     \* pairs <<a, b>>: a was used before b
    now,       \* wall-clock time
    reply      \* what the last call that reads or deletes returned

vars == <<table, older, now, reply>>

Present == DOMAIN table
Entry == [value: Values, expiry: {t + ttl : t \in 0..MaxNow, ttl \in Ttls}]
Expired(k) == now > table[k].expiry

\* The order after the keys of S left the table.
OrderWithout(S) == {p \in older : p[1] \notin S /\ p[2] \notin S}

\* The order after key k was used: everything else present is older than k.
OrderTouched(k) == OrderWithout({k}) \cup {<<j, k>> : j \in Present \ {k}}

Remove(S) ==
    /\ table' = Restrict(table, Present \ S)
    /\ older' = OrderWithout(S)

Init ==
    /\ table = [k \in {} |-> NULL]
    /\ older = {}
    /\ now = 0
    /\ reply = NULL

\* A get returns the stored value of an unexpired entry and makes the entry
\* the most recently used one; an expired entry leaves the table.
Lookup(k) ==
    /\ \/ /\ k \in Present
          /\ ~Expired(k)
          /\ reply' = table[k].value
          /\ older' = OrderTouched(k)
          /\ UNCHANGED table
       \/ /\ k \in Present => Expired(k)
          /\ reply' = NULL
          /\ Remove({k})
    /\ UNCHANGED now

\* A set takes effect: the key holds the new entry, most recently used.
Insert(k, e) ==
    /\ table' = [j \in Present \cup {k} |-> IF j = k THEN e ELSE table[j]]
    /\ older' = OrderTouched(k)
    /\ UNCHANGED <<now, reply>>

\* A full table loses its least recently used entry, and no other.
Evict ==
    /\ Cardinality(Present) >= MaxSize
    /\ \E k \in Present :
         /\ \A j \in Present : <<j, k>> \notin older
         /\ Remove({k})
    /\ UNCHANGED <<now, reply>>

\* A caller deletes an entry and is told whether there was one.
Delete(k) ==
    /\ Remove({k})
    /\ reply' = (k \in Present)
    /\ UNCHANGED now

\* A caller asks for an entry without using it; an expired one leaves.
Check(k) ==
    /\ Remove({j \in {k} \cap Present : Expired(j)})
    /\ reply' = (k \in Present /\ ~Expired(k))
    /\ UNCHANGED now

\* All entries leave the table, or all expired ones.
Clear ==
    /\ Remove(Present)
    /\ UNCHANGED <<now, reply>>
Sweep ==
    /\ Remove({k \in Present : Expired(k)})
    /\ UNCHANGED <<now, reply>>

TimePasses ==
    /\ now < MaxNow
    /\ now' = now + 1
    /\ UNCHANGED <<table, older, reply>>

Next ==
    \/ \E k \in Keys : Lookup(k) \/ Delete(k) \/ Check(k)
    \/ \E k \in Keys, e \in Entry : Insert(k, e)
    \/ Evict
    \/ Clear
    \/ Sweep
    \/ TimePasses

Spec == Init /\ [][Next]_vars
=============================================================================
