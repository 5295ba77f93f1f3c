------------------------------ MODULE MCLocks ------------------------------
(* Three keys on two lock positions: k1 and k3 share a position. Either all  *)
(* three goroutines lock the keys k1 and k2, or two of them lock all keys.   *)
EXTENDS Locks
CONSTANTS k1, k2, k3, p3

MCHashKey == [k \in Key |-> CASE k = k1 -> 4 [] k = k2 -> 7 [] k = k3 -> 2]

VARIABLE crowd

MCInit == LocksInit /\ crowd \in BOOLEAN

MCNext ==
  /\ LocksNext /\ UNCHANGED crowd
  /\ IF crowd THEN \A p \in Proc : k3 \notin keys'[p] ELSE pc'[p3] = "idle"

MCSpec == MCInit /\ [][MCNext]_<<lockVars, crowd>> /\ LocksFairness
=============================================================================
