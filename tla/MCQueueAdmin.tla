---------------------------- MODULE MCQueueAdmin ----------------------------
(***************************************************************************)
(* Instance of QueueAdmin for TLC: a queue that starts with two workers of *)
(* at most two, two calls at a time, updates that change each field.       *)
(***************************************************************************)
EXTENDS QueueAdmin, TLC

Def(n, concurrency, enabled) ==
    [workers |-> n, concurrency |-> concurrency, enabled |-> enabled]

MCNewDefs == {Def(1, 1, TRUE)}
MCUpdates == {[workers |-> 1], [concurrency |-> 2], [enabled |-> FALSE]}
MCStartDefs == <<Def(2, 1, TRUE)>>
MCDefaultDefs == <<Def(1, 1, TRUE)>>

Symmetry == Permutations(Calls)
=============================================================================
