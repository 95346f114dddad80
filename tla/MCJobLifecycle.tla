--------------------------- MODULE MCJobLifecycle ---------------------------
(***************************************************************************)
(* Instances of JobLifecycle for TLC.                                      *)
(*                                                                         *)
(* MCJobLifecycle.cfg follows one request, which no cache can answer,      *)
(* through two attempts, a stall too many and crashes: two slots, so that  *)
(* a slot that lost the lock works beside the one that took over.          *)
(*                                                                         *)
(* MCSharedSlots.cfg lets a request for a cacheable resource and an echo   *)
(* of its URL compete for two slots and the cache, through a retry, a      *)
(* stall and a fault; slots are interchangeable.                           *)
(***************************************************************************)
EXTENDS JobLifecycle, TLC

Symmetry == Permutations(Slots)
=============================================================================
