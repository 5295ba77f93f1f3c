------------------------------ MODULE KeyLocks ------------------------------
(***************************************************************************)
(* What pkg/memdb/dblock.go promises to the command handlers: a goroutine  *)
(* takes the locks of a set of keys in one step, for reading or for        *)
(* writing, and two goroutines are inside with a key in common only as     *)
(* readers. Module Locks implements this specification; the keyspace       *)
(* (module MemDb) is built on it.                                          *)
(***************************************************************************)
CONSTANTS
  Proc,   \* goroutines that execute commands
  Key     \* keys of the database

VARIABLES
  heldKeys,   \* heldKeys[p]: the keys whose locks p holds
  heldMode    \* heldMode[p]: "none", "r" or "w"

keyLockVars == <<heldKeys, heldMode>>

KeyLocksInit ==
  /\ heldKeys = [p \in Proc |-> {}]
  /\ heldMode = [p \in Proc |-> "none"]

\* No goroutine is inside with a key of ks in a conflicting mode.
CanAcquire(p, ks, m) ==
  \A q \in Proc \ {p} :
    ks \cap heldKeys[q] # {} => m = "r" /\ heldMode[q] = "r"

Acquire(p, ks, m) ==
  /\ heldMode[p] = "none"
  /\ heldMode' = [heldMode EXCEPT ![p] = m]
  /\ heldKeys' = [heldKeys EXCEPT ![p] = ks]
  /\ CanAcquire(p, ks, m)

Release(p) ==
  /\ heldMode[p] # "none"
  /\ heldKeys' = [heldKeys EXCEPT ![p] = {}]
  /\ heldMode' = [heldMode EXCEPT ![p] = "none"]

KeyLocksNext ==
  \E p \in Proc :
    \/ Release(p)
    \/ \E ks \in SUBSET Key, m \in {"r", "w"} : Acquire(p, ks, m)

KeyLocksSpec == KeyLocksInit /\ [][KeyLocksNext]_keyLockVars
=============================================================================
