------------------------------- MODULE Locks -------------------------------
(***************************************************************************)
(* The striped key locks of pkg/memdb/dblock.go: a fixed array of          *)
(* sync.RWMutex, a key mapped to a position by its hash, and calls that    *)
(* take the locks of one key or of several keys in ascending position.     *)
(*                                                                         *)
(* sync.RWMutex itself is external code; it is modelled from its use here  *)
(* with the behaviour Go documents: a writer first excludes other writers, *)
(* then waits for the readers inside to leave, and while it waits every    *)
(* new reader queues behind it; its Unlock admits all queued readers.      *)
(***************************************************************************)
EXTENDS Integers

CONSTANTS
  Proc,       \* goroutines that execute commands
  Key,        \* keys of the database
  NumLocks,   \* len(l.locks), config.Configures.ShardNum * 2
  HashKey     \* util.HashKey, a non-negative integer for every key

ASSUME NumLocksAssumption == NumLocks \in Nat \ {0}
ASSUME HashKeyAssumption  == HashKey \in [Key -> Nat]

VARIABLES
  pc,         \* pc[p]: where p is in its use of the locks
  mode,       \* mode[p]: "w" for Lock and LockMulti, "r" for RLock and RLockMulti
  keys,       \* keys[p]: the keys p passed to the call
  poses,      \* poses[p]: positions the loop of the call has still to visit
  writer,     \* writer[pos]: the goroutine inside Lock/Unlock (at most one)
  pending,    \* pending[pos]: the writer that waits for readers (at most one)
  readers,    \* readers[pos]: goroutines inside RLock/RUnlock
  waiting     \* waiting[pos]: readers queued behind a writer

lockVars == <<pc, mode, keys, poses, writer, pending, readers, waiting>>

Pos == 0 .. NumLocks - 1

\* Both branches of the code (mask for a power of two, remainder otherwise)
\* compute the remainder.
GetKeyPos(k) == HashKey[k] % NumLocks

\* The set of positions that sortedLockPoses collects; NextPos is its order.
LockPoses(ks) == {GetKeyPos(k) : k \in ks}

\* Where the loop of the code begins, for the variants that end it there.
FirstPos(ks) == {pos \in LockPoses(ks) : \A q \in LockPoses(ks) : pos <= q}

\* Wrong: a loop over positions as they come out of the map, not sorted: different
\* calls visit the same positions in different orders.
UnsortedNextPos(p) ==
  IF mode[p] = "w"
  THEN CHOOSE pos \in poses[p] : \A q \in poses[p] : q <= pos
  ELSE CHOOSE pos \in poses[p] : \A q \in poses[p] : pos <= q

NextPos(p) == CHOOSE pos \in poses[p] : \A q \in poses[p] : pos <= q

LocksTypeOK ==
  /\ pc \in [Proc -> {"idle", "locking", "locked", "unlocking"}]
  /\ mode \in [Proc -> {"r", "w"}]
  /\ keys \in [Proc -> SUBSET Key]
  /\ poses \in [Proc -> SUBSET Pos]
  /\ writer \in [Pos -> SUBSET Proc]
  /\ pending \in [Pos -> SUBSET Proc]
  /\ readers \in [Pos -> SUBSET Proc]
  /\ waiting \in [Pos -> SUBSET Proc]

LocksInit ==
  /\ pc = [p \in Proc |-> "idle"]
  /\ mode = [p \in Proc |-> "r"]
  /\ keys = [p \in Proc |-> {}]
  /\ poses = [p \in Proc |-> {}]
  /\ writer = [pos \in Pos |-> {}]
  /\ pending = [pos \in Pos |-> {}]
  /\ readers = [pos \in Pos |-> {}]
  /\ waiting = [pos \in Pos |-> {}]

-----------------------------------------------------------------------------
(* The calls *)

\* Wrong: a call that visits the first of its positions only.
CallFirstOnly(p, ks, m) ==
  /\ pc[p] = "idle"
  /\ pc' = [pc EXCEPT ![p] = "locking"]
  /\ mode' = [mode EXCEPT ![p] = m]
  /\ keys' = [keys EXCEPT ![p] = ks]
  /\ poses' = [poses EXCEPT ![p] = FirstPos(ks)]
  /\ UNCHANGED <<writer, pending, readers, waiting>>

\* A goroutine holds no key lock when it calls Lock, RLock, LockMulti or
\* RLockMulti: no handler nests one call in another.
Call(p, ks, m) ==
  /\ pc[p] = "idle"
  /\ pc' = [pc EXCEPT ![p] = "locking"]
  /\ mode' = [mode EXCEPT ![p] = m]
  /\ keys' = [keys EXCEPT ![p] = ks]
  /\ poses' = [poses EXCEPT ![p] = LockPoses(ks)]
  /\ UNCHANGED <<writer, pending, readers, waiting>>

Lock(p, k) == Call(p, {k}, "w")

RLock(p, k) == Call(p, {k}, "r")

LockMulti(p, ks) == Call(p, ks, "w")

RLockMulti(p, ks) == Call(p, ks, "r")

\* The loop of the locking call is finished.
CallReturns(p) ==
  /\ pc[p] = "locking"
  /\ poses[p] = {}
  /\ pc' = [pc EXCEPT ![p] = "locked"]
  /\ UNCHANGED <<mode, keys, poses, writer, pending, readers, waiting>>

\* Wrong: an unlock that visits the first of its positions only.
UnLockFirstOnly(p) ==
  /\ pc[p] = "locked"
  /\ pc' = [pc EXCEPT ![p] = "unlocking"]
  /\ poses' = [poses EXCEPT ![p] = FirstPos(keys[p])]
  /\ UNCHANGED <<mode, keys, writer, pending, readers, waiting>>

\* UnLock, RUnLock, UnLockMulti, RUnLockMulti: the positions are computed
\* again from the same keys.
UnLock(p) ==
  /\ pc[p] = "locked"
  /\ pc' = [pc EXCEPT ![p] = "unlocking"]
  /\ poses' = [poses EXCEPT ![p] = LockPoses(keys[p])]
  /\ UNCHANGED <<mode, keys, writer, pending, readers, waiting>>

UnLockReturns(p) ==
  /\ pc[p] = "unlocking"
  /\ poses[p] = {}
  /\ pc' = [pc EXCEPT ![p] = "idle"]
  /\ UNCHANGED <<mode, keys, poses, writer, pending, readers, waiting>>

-----------------------------------------------------------------------------
(* sync.RWMutex, one step of the loop at position NextPos(p) *)

Visiting(p, phase, m) ==
  /\ pc[p] = phase
  /\ mode[p] = m
  /\ poses[p] # {}

\* Lock, first half: exclude the other writers and announce the writer.
WriterAnnounces(p) ==
  /\ Visiting(p, "locking", "w")
  /\ LET pos == NextPos(p) IN
       /\ writer[pos] = {} /\ pending[pos] = {}
       /\ pending' = [pending EXCEPT ![pos] = {p}]
  /\ UNCHANGED <<pc, mode, keys, poses, writer, readers, waiting>>

\* Lock, second half: the readers that were inside have left.
WriterEnters(p) ==
  /\ Visiting(p, "locking", "w")
  /\ LET pos == NextPos(p) IN
       /\ pending[pos] = {p}
       /\ readers[pos] = {}
       /\ pending' = [pending EXCEPT ![pos] = {}]
       /\ writer' = [writer EXCEPT ![pos] = {p}]
       /\ poses' = [poses EXCEPT ![p] = @ \ {pos}]
  /\ UNCHANGED <<pc, mode, keys, readers, waiting>>

\* RLock with no writer announced.
ReaderEnters(p) ==
  /\ Visiting(p, "locking", "r")
  /\ LET pos == NextPos(p) IN
       /\ writer[pos] = {} /\ pending[pos] = {} /\ p \notin waiting[pos]
       /\ readers' = [readers EXCEPT ![pos] = @ \cup {p}]
       /\ poses' = [poses EXCEPT ![p] = @ \ {pos}]
  /\ UNCHANGED <<pc, mode, keys, writer, pending, waiting>>

\* RLock behind an announced writer.
ReaderQueues(p) ==
  /\ Visiting(p, "locking", "r")
  /\ LET pos == NextPos(p) IN
       /\ writer[pos] # {} \/ pending[pos] # {}
       /\ p \notin waiting[pos]
       /\ waiting' = [waiting EXCEPT ![pos] = @ \cup {p}]
  /\ UNCHANGED <<pc, mode, keys, poses, writer, pending, readers>>

\* Unlock: every queued reader is admitted, then the next writer may announce.
WriterLeaves(p) ==
  /\ Visiting(p, "unlocking", "w")
  /\ LET pos == NextPos(p) IN
       /\ writer' = [writer EXCEPT ![pos] = {}]
       /\ readers' = [readers EXCEPT ![pos] = @ \cup waiting[pos]]
       /\ waiting' = [waiting EXCEPT ![pos] = {}]
       /\ poses' = [q \in Proc |-> IF q = p \/ q \in waiting[pos]
                                   THEN poses[q] \ {pos} ELSE poses[q]]
  /\ UNCHANGED <<pc, mode, keys, pending>>

\* RUnlock.
ReaderLeaves(p) ==
  /\ Visiting(p, "unlocking", "r")
  /\ LET pos == NextPos(p) IN
       /\ readers' = [readers EXCEPT ![pos] = @ \ {p}]
       /\ poses' = [poses EXCEPT ![p] = @ \ {pos}]
  /\ UNCHANGED <<pc, mode, keys, writer, pending, waiting>>

-----------------------------------------------------------------------------

\* The steps of p inside the lock code.
LockStep(p) ==
  \/ CallReturns(p)
  \/ UnLockReturns(p)
  \/ WriterAnnounces(p)
  \/ WriterEnters(p)
  \/ ReaderEnters(p)
  \/ ReaderQueues(p)
  \/ WriterLeaves(p)
  \/ ReaderLeaves(p)

LockCall(p) ==
  \/ \E k \in Key : Lock(p, k) \/ RLock(p, k)
  \/ \E ks \in SUBSET Key : LockMulti(p, ks) \/ RLockMulti(p, ks)

LocksNext == \E p \in Proc : LockCall(p) \/ UnLock(p) \/ LockStep(p)

LocksSpec == LocksInit /\ [][LocksNext]_lockVars

(***************************************************************************)
(* Goroutines are scheduled, a command body ends, and the mutex inside an  *)
(* RWMutex hands over to a waiter that has waited long enough (starvation  *)
(* mode of sync.Mutex), which is strong fairness of WriterAnnounces.       *)
(***************************************************************************)
LocksFairness ==
  \A p \in Proc : /\ WF_lockVars(LockStep(p) \/ UnLock(p))
                  /\ SF_lockVars(WriterAnnounces(p))

LocksFairSpec == LocksSpec /\ LocksFairness

-----------------------------------------------------------------------------
(* Properties *)

Holds(p, pos) == p \in writer[pos] \cup readers[pos]

Awaits(p) == pc[p] = "locking" /\ poses[p] # {}

\* Two commands are between the lock and the unlock of one key only when both
\* took the read lock: the promise "locks is used to lock a key for db to
\* ensure some atomic operations" of MemDb rests on, also for keys that share
\* a position and for keys named twice in a LockMulti.
KeyExclusion ==
  \A p, q \in Proc :
    /\ p # q
    /\ pc[p] = "locked" /\ pc[q] = "locked"
    /\ keys[p] \cap keys[q] # {}
    => mode[p] = "r" /\ mode[q] = "r"

\* The goroutines p waits for at its next position.
BlockedBy(p) ==
  IF ~Awaits(p) THEN {}
  ELSE IF p \in pending[NextPos(p)] THEN readers[NextPos(p)]
  ELSE writer[NextPos(p)] \cup pending[NextPos(p)]

\* No group of goroutines waits on itself: in every group one member is
\* blocked by nobody of the group. This is what the sorting in
\* sortedLockPoses is for, with pending writers that hold back readers.
NoCircularWait ==
  \A S \in SUBSET Proc :
    S # {} => \E p \in S : BlockedBy(p) \cap S = {}

\* A writer is alone at its position and at most one writer is announced.
WriterAlone ==
  \A pos \in Pos : \A p, q \in Proc :
    /\ p \in writer[pos] /\ q \in writer[pos] \cup readers[pos] \cup pending[pos]
         => p = q
    /\ p \in pending[pos] /\ q \in pending[pos] => p = q
    /\ p \in writer[pos] => p \notin pending[pos]

\* Each goroutine appears in a lock only in the mode it asked for, and queued
\* or announced only at the position its loop visits next.
QueuedAtNext ==
  \A pos \in Pos : \A p \in Proc :
    /\ p \in writer[pos] \cup pending[pos] => mode[p] = "w"
    /\ p \in readers[pos] \cup waiting[pos] => mode[p] = "r"
    /\ p \in pending[pos] \cup waiting[pos] =>
         pc[p] = "locking" /\ pos \in poses[p] /\ \A q \in poses[p] : pos <= q
    /\ p \in waiting[pos] => writer[pos] \cup pending[pos] # {}

\* What a goroutine owns follows from how far its loop has come.
Ownership ==
  \A pos \in Pos : \A p \in Proc :
    /\ pc[p] = "idle" => ~Holds(p, pos)
    /\ pc[p] = "locking" => (Holds(p, pos) <=> pos \in LockPoses(keys[p]) \ poses[p])
    /\ pc[p] = "locked" => (Holds(p, pos) <=> pos \in LockPoses(keys[p]))
    /\ pc[p] = "unlocking" => (Holds(p, pos) <=> pos \in poses[p])

\* The locking loop visits the positions of its keys in ascending order.
AscendingLoop ==
  \A p \in Proc :
    /\ pc[p] \in {"idle", "locked"} => poses[p] = {}
    /\ pc[p] = "locking" =>
         /\ poses[p] \subseteq LockPoses(keys[p])
         /\ \A x \in LockPoses(keys[p]) \ poses[p] : \A y \in poses[p] : x < y

\* The inductive invariant behind KeyExclusion and NoCircularWait: what the
\* mutexes of dblock.go record about a goroutine agrees with its loop.
LocksInv == WriterAlone /\ QueuedAtNext /\ Ownership /\ AscendingLoop

\* Every lock call returns: no goroutine waits for a key lock forever.
EveryCallReturns == \A p \in Proc : pc[p] = "locking" ~> pc[p] = "locked"

-----------------------------------------------------------------------------
(* The abstract lock that the command handlers see *)

KL == INSTANCE KeyLocks WITH
  heldKeys <- [p \in Proc |-> IF pc[p] = "locked" THEN keys[p] ELSE {}],
  heldMode <- [p \in Proc |-> IF pc[p] = "locked" THEN mode[p] ELSE "none"]

\* Taking RWMutexes one by one in ascending order looks to the handlers like
\* taking the locks of all their keys in one step (Lock, LockMulti, RLock,
\* RLockMulti as used by the handlers).
ImplementsKeyLocks == KL!KeyLocksSpec
=============================================================================
