---------------------------- MODULE VolumeLocks ----------------------------
(***************************************************************************)
(* The lock table of pkg/vcloud/utils.go.  A lock is a string key in a     *)
(* map: TryAcquire never waits, it fails when the key is there.  The mutex *)
(* inside makes each of the two operations one atomic step.  One table     *)
(* serves the whole driver, so volume names, volume ids, snapshot names    *)
(* and snapshot ids are keys of the same map.                              *)
(*                                                                         *)
(* A call takes one key or none at all: the operators take the set of the  *)
(* keys it wants, {k} or {}.                                               *)
(***************************************************************************)
VARIABLE locks     \* the keys present in the map

\* NewVolumeLocks: the table lives in memory, so a restarted process starts
\* with an empty one.
NewVolumeLocks == locks' = {}

\* TryAcquire would return true.
Acquirable(keys) == keys \cap locks = {}

\* TryAcquire that returns true.
Acquire(keys) == Acquirable(keys) /\ locks' = locks \cup keys

\* Defect, which a run must notice: a handler forgets to release.
ReleaseForgotten(keys) == UNCHANGED locks

\* Release, deferred by every handler that acquired a key.
Release(keys) == locks' = locks \ keys
=============================================================================
