----------------------------- MODULE MCLruCache -----------------------------
(***************************************************************************)
(* Instance of LruCache for TLC.  Three keys over a capacity of two, so    *)
(* that evictions choose between entries; two concurrent writers, so that  *)
(* one may evict while the other passes the capacity test; expiry within   *)
(* one tick or never in the run.                                           *)
(***************************************************************************)
EXTENDS LruCache

MCTtls == {0}
=============================================================================
