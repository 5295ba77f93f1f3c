---------------------------- MODULE LocksProofs ----------------------------
(***************************************************************************)
(* Machine-checked proofs about Locks, for every set of goroutines, every  *)
(* set of keys, every number of locks and every hash function.             *)
(***************************************************************************)
EXTENDS Locks, WellFoundedInduction, TLAPS

\* A key is mapped to one of the positions of the lock array (GetKeyPos).
LEMMA GetKeyPosType == \A k \in Key : GetKeyPos(k) \in Pos
  BY NumLocksAssumption, HashKeyAssumption DEF GetKeyPos, Pos

\* The positions of a set of keys are positions of the lock array.
LEMMA LockPosesType == \A ks \in SUBSET Key : LockPoses(ks) \subseteq Pos
  BY GetKeyPosType, Zenon DEF LockPoses

\* The naturals are well ordered: a non-empty set of positions has a least
\* element.
LEMMA LeastNatural ==
  ASSUME NEW T \in SUBSET Nat, T # {}
  PROVE  \E x \in T : \A y \in T : x <= y
  <1> DEFINE R == {ss \in Nat \X Nat : ss[1] < ss[2]}
  <1>1. IsWellFoundedOn(R, Nat)
    BY NatLessThanWellFounded, Zenon DEF OpToRel
  <1> HIDE DEF R
  <1>2. \E x \in T : \A y \in T : ~(<<y, x>> \in R)
    BY <1>1, WFMin, Zenon
  <1>3. \A x, y \in T : ~(<<y, x>> \in R) => x <= y
    BY DEF R
  <1>4. QED
    BY <1>2, <1>3, Zenon

\* The loop of a lock call has a next position, the least one left to visit
\* (sort.Ints in sortedLockPoses).
LEMMA NextPosLeast ==
  ASSUME LocksTypeOK, NEW p \in Proc, poses[p] # {}
  PROVE  /\ NextPos(p) \in poses[p]
         /\ NextPos(p) \in Pos
         /\ \A q \in poses[p] : NextPos(p) <= q
  <1>1. poses[p] \in SUBSET Nat /\ poses[p] \in SUBSET Pos
    BY NumLocksAssumption DEF LocksTypeOK, Pos
  <1>2. \E pos \in poses[p] : \A q \in poses[p] : pos <= q
    BY <1>1, LeastNatural, Zenon
  <1>3. QED
    BY <1>1, <1>2, Zenon DEF NextPos

\* Type correctness of the lock table and of the goroutines that use it.
THEOREM LocksTypeCorrect == LocksSpec => []LocksTypeOK
  <1>1. LocksInit => LocksTypeOK
    BY DEF LocksInit, LocksTypeOK
  <1>2. LocksTypeOK /\ [LocksNext]_lockVars => LocksTypeOK'
    <2> SUFFICES ASSUME LocksTypeOK, [LocksNext]_lockVars
                 PROVE  LocksTypeOK'
      BY Zenon
    <2>1. ASSUME NEW p \in Proc, NEW ks \in SUBSET Key, NEW m \in {"r", "w"},
                 Call(p, ks, m)
          PROVE  LocksTypeOK'
      BY <2>1, LockPosesType, Zenon DEF Call, LocksTypeOK
    <2>2. ASSUME NEW p \in Proc, LockCall(p)
          PROVE  LocksTypeOK'
      BY <2>1, <2>2, Zenon DEF LockCall, Lock, RLock, LockMulti, RLockMulti
    <2>3. ASSUME NEW p \in Proc, UnLock(p)
          PROVE  LocksTypeOK'
      BY <2>3, LockPosesType, Zenon DEF UnLock, LocksTypeOK
    <2>4. ASSUME NEW p \in Proc, CallReturns(p) \/ UnLockReturns(p)
          PROVE  LocksTypeOK'
      BY <2>4, Zenon DEF CallReturns, UnLockReturns, LocksTypeOK
    <2>5. ASSUME NEW p \in Proc, WriterAnnounces(p)
          PROVE  LocksTypeOK'
      BY <2>5, Zenon DEF WriterAnnounces, LocksTypeOK
    <2>6. ASSUME NEW p \in Proc, WriterEnters(p)
          PROVE  LocksTypeOK'
      BY <2>6, Zenon DEF WriterEnters, LocksTypeOK
    <2>7. ASSUME NEW p \in Proc, ReaderEnters(p) \/ ReaderQueues(p)
          PROVE  LocksTypeOK'
      BY <2>7 DEF ReaderEnters, ReaderQueues, LocksTypeOK
    <2>8. ASSUME NEW p \in Proc, WriterLeaves(p)
          PROVE  LocksTypeOK'
      <3> DEFINE pos == NextPos(p)
      <3>1. pos \in Pos
        BY <2>8, NextPosLeast, Zenon DEF WriterLeaves, Visiting
      <3>2. waiting[pos] \subseteq Proc
        BY <3>1, Zenon DEF LocksTypeOK
      <3> HIDE DEF pos
      <3>3. QED
        BY <2>8, <3>1, <3>2, Zenon DEF WriterLeaves, LocksTypeOK, pos
    <2>9. ASSUME NEW p \in Proc, ReaderLeaves(p)
          PROVE  LocksTypeOK'
      BY <2>9, Zenon DEF ReaderLeaves, LocksTypeOK
    <2>10. CASE UNCHANGED lockVars
      BY <2>10, Zenon DEF lockVars, LocksTypeOK
    <2>11. QED
      BY <2>2, <2>3, <2>4, <2>5, <2>6, <2>7, <2>8, <2>9, <2>10, Zenon
         DEF LocksNext, LockStep
  <1>3. QED
    BY <1>1, <1>2, PTL DEF LocksSpec

-----------------------------------------------------------------------------
(* Preservation of the inductive invariant, one lemma per kind of step *)

\* A call that starts changes nothing but the caller's own loop.
LEMMA CallKeepsInv ==
  ASSUME LocksTypeOK, LocksInv, NEW p \in Proc, NEW ks \in SUBSET Key,
         NEW m \in {"r", "w"}, Call(p, ks, m)
  PROVE  LocksInv'
  <1> USE LockPosesType DEF LocksTypeOK
  <1>1. WriterAlone'
    BY Zenon DEF Call, LocksInv, WriterAlone
  <1>2. QueuedAtNext'
    BY DEF Call, LocksInv, QueuedAtNext, Ownership, Holds
  <1>3. Ownership'
    BY Zenon DEF Call, LocksInv, Ownership, Holds, LockPoses
  <1>4. AscendingLoop'
    BY Zenon DEF Call, LocksInv, AscendingLoop, LockPoses
  <1>5. QED
    BY <1>1, <1>2, <1>3, <1>4, Zenon DEF LocksInv

\* Starting to unlock and returning from a call keep every ownership.
LEMMA ReturnKeepsInv ==
  ASSUME LocksTypeOK, LocksInv, NEW p \in Proc,
         UnLock(p) \/ CallReturns(p) \/ UnLockReturns(p)
  PROVE  LocksInv'
  <1> USE LockPosesType DEF LocksTypeOK, UnLock, CallReturns, UnLockReturns
  <1>1. WriterAlone'
    BY Zenon DEF LocksInv, WriterAlone
  <1>2. QueuedAtNext'
    BY DEF LocksInv, QueuedAtNext
  <1>3. Ownership'
    BY DEF LocksInv, Ownership, Holds, LockPoses
  <1>4. AscendingLoop'
    BY DEF LocksInv, AscendingLoop, LockPoses
  <1>5. QED
    BY <1>1, <1>2, <1>3, <1>4, Zenon DEF LocksInv

\* A writer announces itself or enters at the next position of its loop.
LEMMA WriterLocksKeepsInv ==
  ASSUME LocksTypeOK, LocksInv, NEW p \in Proc,
         WriterAnnounces(p) \/ WriterEnters(p)
  PROVE  LocksInv'
  <1> DEFINE pos == NextPos(p)
  <1>1. /\ pos \in poses[p] /\ pos \in Pos /\ \A q \in poses[p] : pos <= q
        /\ pc[p] = "locking" /\ mode[p] = "w"
    BY NextPosLeast, Zenon DEF WriterAnnounces, WriterEnters, Visiting
  <1>2. CASE WriterAnnounces(p)
    <2>1. /\ writer[pos] = {} /\ pending[pos] = {}
          /\ pending' = [pending EXCEPT ![pos] = {p}]
          /\ UNCHANGED <<pc, mode, keys, poses, writer, readers, waiting>>
      BY <1>2, Zenon DEF WriterAnnounces
    <2> HIDE DEF pos
    <2> USE <1>1, <2>1 DEF LocksTypeOK
    <2>2. WriterAlone'
      BY Zenon DEF LocksInv, WriterAlone
    <2>3. QueuedAtNext'
      BY DEF LocksInv, QueuedAtNext
    <2>4. Ownership'
      BY Zenon DEF LocksInv, Ownership, Holds, LockPoses
    <2>5. AscendingLoop'
      BY Zenon DEF LocksInv, AscendingLoop, LockPoses
    <2>6. QED
      BY <2>2, <2>3, <2>4, <2>5, Zenon DEF LocksInv
  <1>3. CASE WriterEnters(p)
    <2>1. /\ pending[pos] = {p} /\ readers[pos] = {}
          /\ pending' = [pending EXCEPT ![pos] = {}]
          /\ writer' = [writer EXCEPT ![pos] = {p}]
          /\ poses' = [poses EXCEPT ![p] = @ \ {pos}]
          /\ UNCHANGED <<pc, mode, keys, readers, waiting>>
      BY <1>3, Zenon DEF WriterEnters
    <2> HIDE DEF pos
    <2> USE <1>1, <2>1 DEF LocksTypeOK
    <2>2. WriterAlone'
      BY ZenonT(60) DEF LocksInv, WriterAlone
    <2>3. QueuedAtNext'
      BY DEF LocksInv, QueuedAtNext
    <2>4. Ownership'
      BY DEF LocksInv, Ownership, AscendingLoop, WriterAlone, Holds, LockPoses
    <2>5. AscendingLoop'
      BY DEF LocksInv, AscendingLoop, LockPoses, Pos
    <2>6. QED
      BY <2>2, <2>3, <2>4, <2>5, Zenon DEF LocksInv
  <1>4. QED
    BY <1>2, <1>3, Zenon

\* A reader enters or queues at the next position of its loop.
LEMMA ReaderLocksKeepsInv ==
  ASSUME LocksTypeOK, LocksInv, NEW p \in Proc,
         ReaderEnters(p) \/ ReaderQueues(p)
  PROVE  LocksInv'
  <1> DEFINE pos == NextPos(p)
  <1>1. /\ pos \in poses[p] /\ pos \in Pos /\ \A q \in poses[p] : pos <= q
        /\ pc[p] = "locking" /\ mode[p] = "r"
    BY NextPosLeast, Zenon DEF ReaderEnters, ReaderQueues, Visiting
  <1>2. CASE ReaderEnters(p)
    <2>1. /\ writer[pos] = {} /\ pending[pos] = {}
          /\ readers' = [readers EXCEPT ![pos] = @ \cup {p}]
          /\ poses' = [poses EXCEPT ![p] = @ \ {pos}]
          /\ UNCHANGED <<pc, mode, keys, writer, pending, waiting>>
      BY <1>2, Zenon DEF ReaderEnters
    <2> HIDE DEF pos
    <2> USE <1>1, <2>1 DEF LocksTypeOK
    <2>2. WriterAlone'
      BY Zenon DEF LocksInv, WriterAlone
    <2>3. QueuedAtNext'
      BY DEF LocksInv, QueuedAtNext
    <2>4. Ownership'
      BY DEF LocksInv, Ownership, AscendingLoop, Holds, LockPoses
    <2>5. AscendingLoop'
      BY DEF LocksInv, AscendingLoop, LockPoses, Pos
    <2>6. QED
      BY <2>2, <2>3, <2>4, <2>5, Zenon DEF LocksInv
  <1>3. CASE ReaderQueues(p)
    <2>1. /\ writer[pos] # {} \/ pending[pos] # {}
          /\ waiting' = [waiting EXCEPT ![pos] = @ \cup {p}]
          /\ UNCHANGED <<pc, mode, keys, poses, writer, pending, readers>>
      BY <1>3, Zenon DEF ReaderQueues
    <2> HIDE DEF pos
    <2> USE <1>1, <2>1 DEF LocksTypeOK
    <2>2. WriterAlone'
      BY Zenon DEF LocksInv, WriterAlone
    <2>3. QueuedAtNext'
      BY DEF LocksInv, QueuedAtNext
    <2>4. Ownership'
      BY Zenon DEF LocksInv, Ownership, Holds, LockPoses
    <2>5. AscendingLoop'
      BY Zenon DEF LocksInv, AscendingLoop, LockPoses
    <2>6. QED
      BY <2>2, <2>3, <2>4, <2>5, Zenon DEF LocksInv
  <1>4. QED
    BY <1>2, <1>3, Zenon

\* A writer leaves and admits the readers queued behind it.
LEMMA WriterLeavesKeepsInv ==
  ASSUME LocksTypeOK, LocksInv, NEW p \in Proc, WriterLeaves(p)
  PROVE  LocksInv'
  <1> DEFINE pos == NextPos(p)
  <1>1. /\ pos \in poses[p] /\ pos \in Pos
        /\ pc[p] = "unlocking" /\ mode[p] = "w"
    BY NextPosLeast, Zenon DEF WriterLeaves, Visiting
  <1>2. /\ writer' = [writer EXCEPT ![pos] = {}]
        /\ readers' = [readers EXCEPT ![pos] = @ \cup waiting[pos]]
        /\ waiting' = [waiting EXCEPT ![pos] = {}]
        /\ poses' = [q \in Proc |-> IF q = p \/ q \in waiting[pos]
                                    THEN poses[q] \ {pos} ELSE poses[q]]
        /\ UNCHANGED <<pc, mode, keys, pending>>
    BY Zenon DEF WriterLeaves
  <1> HIDE DEF pos
  <1> USE DEF LocksTypeOK
  <1>3. p \in writer[pos]
    BY <1>1, Zenon DEF LocksInv, Ownership, QueuedAtNext, Holds
  <1>4. readers[pos] = {} /\ pending[pos] = {} /\ writer[pos] = {p}
    BY <1>1, <1>3 DEF LocksInv, WriterAlone, QueuedAtNext
  <1>5. \A q \in waiting[pos] :
          /\ q \in Proc /\ q # p /\ pc[q] = "locking" /\ mode[q] = "r"
          /\ pos \in poses[q] /\ \A x \in poses[q] : pos <= x
    BY <1>1, Zenon DEF LocksInv, QueuedAtNext
  <1>6. WriterAlone'
    BY <1>1, <1>2, <1>4, Zenon DEF LocksInv, WriterAlone
  <1>7. QueuedAtNext'
    <2> SUFFICES ASSUME NEW r \in Pos, NEW q \in Proc
                 PROVE  QueuedAtNext!(r)!(q)'
      BY Zenon DEF QueuedAtNext
    <2>1. CASE r = pos
      BY <2>1, <1>1, <1>2, <1>4, <1>5 DEF LocksInv, QueuedAtNext
    <2>2. CASE r # pos
      <3>1. /\ writer'[r] = writer[r] /\ pending'[r] = pending[r]
            /\ readers'[r] = readers[r] /\ waiting'[r] = waiting[r]
        BY <2>2, <1>2, Zenon
      <3>2. q \in pending[r] \cup waiting[r] => q # p /\ q \notin waiting[pos]
        BY <2>2, <1>1, <1>5 DEF LocksInv, QueuedAtNext, Pos
      <3>3. QED
        BY <3>1, <3>2, <1>2, ZenonT(60) DEF LocksInv, QueuedAtNext
    <2>3. QED
      BY <2>1, <2>2, Zenon
  <1>8. Ownership'
    BY <1>1, <1>2, <1>4, <1>5 DEF LocksInv, Ownership, AscendingLoop, Holds, LockPoses
  <1>9. AscendingLoop'
    <2> SUFFICES ASSUME NEW q \in Proc
                 PROVE  AscendingLoop!(q)'
      BY Zenon DEF AscendingLoop
    <2>1. pc'[q] = pc[q] /\ LockPoses(keys[q])' = LockPoses(keys[q])
      BY <1>2, Zenon DEF LockPoses
    <2>2. CASE q \in waiting[pos]
      <3>1. poses'[q] = poses[q] \ {pos} /\ poses[q] \subseteq Int /\ pos \in Int
        BY <1>1, <1>2, <2>2 DEF Pos
      <3>2. QED
        BY <1>5, <2>1, <2>2, <3>1 DEF LocksInv, AscendingLoop
    <2>3. CASE q \notin waiting[pos]
      BY <1>1, <1>2, <2>1, <2>3, Zenon DEF LocksInv, AscendingLoop
    <2>4. QED
      BY <2>2, <2>3, Zenon
  <1>10. QED
    BY <1>6, <1>7, <1>8, <1>9, Zenon DEF LocksInv

\* A reader leaves.
LEMMA ReaderLeavesKeepsInv ==
  ASSUME LocksTypeOK, LocksInv, NEW p \in Proc, ReaderLeaves(p)
  PROVE  LocksInv'
  <1> DEFINE pos == NextPos(p)
  <1>1. /\ pos \in poses[p] /\ pos \in Pos
        /\ pc[p] = "unlocking" /\ mode[p] = "r"
    BY NextPosLeast, Zenon DEF ReaderLeaves, Visiting
  <1>2. /\ readers' = [readers EXCEPT ![pos] = @ \ {p}]
        /\ poses' = [poses EXCEPT ![p] = @ \ {pos}]
        /\ UNCHANGED <<pc, mode, keys, writer, pending, waiting>>
    BY Zenon DEF ReaderLeaves
  <1> HIDE DEF pos
  <1> USE <1>1, <1>2 DEF LocksTypeOK
  <1>3. WriterAlone'
    BY Zenon DEF LocksInv, WriterAlone
  <1>4. QueuedAtNext'
    BY DEF LocksInv, QueuedAtNext
  <1>5. Ownership'
    BY DEF LocksInv, Ownership, QueuedAtNext, Holds, LockPoses
  <1>6. AscendingLoop'
    BY Zenon DEF LocksInv, AscendingLoop, LockPoses
  <1>7. QED
    BY <1>3, <1>4, <1>5, <1>6, Zenon DEF LocksInv

-----------------------------------------------------------------------------

\* The inductive invariant holds in every reachable state of the lock code.
THEOREM LocksInvariant == LocksSpec => []LocksInv
  <1>1. LocksInit => LocksInv
    BY Zenon DEF LocksInit, LocksInv, WriterAlone, QueuedAtNext, Ownership, Holds,
           AscendingLoop
  <1>2. LocksTypeOK /\ LocksInv /\ [LocksNext]_lockVars => LocksInv'
    <2> SUFFICES ASSUME LocksTypeOK, LocksInv, [LocksNext]_lockVars
                 PROVE  LocksInv'
      BY Zenon
    <2>1. ASSUME NEW p \in Proc, LockCall(p)
          PROVE  LocksInv'
      BY <2>1, CallKeepsInv, Zenon DEF LockCall, Lock, RLock, LockMulti, RLockMulti
    <2>2. ASSUME NEW p \in Proc, UnLock(p)
          PROVE  LocksInv'
      BY <2>2, ReturnKeepsInv, Zenon
    <2>3. ASSUME NEW p \in Proc, LockStep(p)
          PROVE  LocksInv'
      BY <2>3, ReturnKeepsInv, WriterLocksKeepsInv, ReaderLocksKeepsInv,
         WriterLeavesKeepsInv, ReaderLeavesKeepsInv, Zenon DEF LockStep
    <2>4. CASE UNCHANGED lockVars
      BY <2>4 DEF lockVars, LocksInv, WriterAlone, QueuedAtNext, Ownership,
                  Holds, AscendingLoop, LockPoses
    <2>5. QED
      BY <2>1, <2>2, <2>3, <2>4, Zenon DEF LocksNext
  <1>3. QED
    BY <1>1, <1>2, LocksTypeCorrect, PTL DEF LocksSpec

\* Two commands hold the lock of one key together only as readers, whatever
\* the hash function and however many keys share a position.
THEOREM LocksKeyExclusion == LocksSpec => []KeyExclusion
  <1>1. LocksTypeOK /\ LocksInv => KeyExclusion
    <2> SUFFICES ASSUME LocksTypeOK, LocksInv, NEW p \in Proc, NEW q \in Proc,
                        p # q, pc[p] = "locked", pc[q] = "locked",
                        NEW k \in keys[p] \cap keys[q]
                 PROVE  mode[p] = "r" /\ mode[q] = "r"
      BY Zenon DEF KeyExclusion
    <2> DEFINE pos == GetKeyPos(k)
    <2>1. pos \in Pos /\ pos \in LockPoses(keys[p]) /\ pos \in LockPoses(keys[q])
      BY GetKeyPosType, Zenon DEF LocksTypeOK, LockPoses
    <2> HIDE DEF pos
    <2>2. Holds(p, pos) /\ Holds(q, pos)
      BY <2>1, Zenon DEF LocksInv, Ownership
    <2>3. QED
      BY <2>1, <2>2, Zenon DEF LocksInv, WriterAlone, QueuedAtNext, Holds
  <1>2. QED
    BY <1>1, LocksTypeCorrect, LocksInvariant, PTL

\* Among the goroutines of a group that wait, one waits at the greatest
\* position.
LEMMA GreatestAwaited ==
  ASSUME LocksTypeOK, NEW S \in SUBSET Proc, \A p \in S : Awaits(p), S # {}
  PROVE  \E p \in S : \A q \in S : NextPos(q) <= NextPos(p)
  <1> DEFINE T == {NumLocks - 1 - NextPos(p) : p \in S}
  <1>1. \A p \in S : NextPos(p) \in Pos
    BY NextPosLeast, Zenon DEF Awaits
  <1>2. T \in SUBSET Nat /\ T # {}
    BY <1>1, NumLocksAssumption DEF Pos
  <1>3. PICK x \in T : \A y \in T : x <= y
    BY <1>2, LeastNatural, Zenon
  <1>4. PICK p \in S : x = NumLocks - 1 - NextPos(p)
    BY Zenon
  <1>5. \A q \in S : NumLocks - 1 - NextPos(p) <= NumLocks - 1 - NextPos(q)
    BY <1>3, <1>4, Zenon
  <1>6. QED
    BY <1>1, <1>5, NumLocksAssumption DEF Pos

\* No set of commands can wait on itself for key locks: the ascending order
\* of sortedLockPoses excludes deadlock for any number of goroutines, keys
\* and locks, also when a pending writer holds readers back.
THEOREM LocksNoCircularWait == LocksSpec => []NoCircularWait
  <1>1. LocksTypeOK /\ LocksInv => NoCircularWait
    <2> SUFFICES ASSUME LocksTypeOK, LocksInv, NEW S \in SUBSET Proc, S # {},
                        \A p \in S : BlockedBy(p) \cap S # {}
                 PROVE  FALSE
      BY Zenon DEF NoCircularWait
    <2>1. \A p \in S : Awaits(p)
      BY Zenon DEF BlockedBy
    <2>2. PICK p \in S : \A q \in S : NextPos(q) <= NextPos(p)
      BY <2>1, GreatestAwaited, Zenon
    <2> DEFINE pos == NextPos(p)
    <2>3. \A q \in S : NextPos(q) \in Pos /\ NextPos(q) \in poses[q]
      BY <2>1, NextPosLeast, Zenon DEF Awaits
    <2>4. ASSUME NEW q \in S, Holds(q, pos)
          PROVE  FALSE
      <3>1. pc[q] = "locking"
        BY <2>1, Zenon DEF Awaits
      <3>2. pos \in LockPoses(keys[q]) \ poses[q]
        BY <2>3, <2>4, <3>1, Zenon DEF LocksInv, Ownership
      <3>3. pos < NextPos(q)
        BY <2>3, <3>1, <3>2, Zenon DEF LocksInv, AscendingLoop
      <3>4. QED
        BY <2>2, <2>3, <3>3 DEF Pos
    <2>5. ASSUME NEW q \in S, q \in pending[pos]
          PROVE  FALSE
      <3>1. NextPos(q) = pos
        BY <2>2, <2>3, <2>5 DEF LocksInv, QueuedAtNext, Pos
      <3>2. BlockedBy(q) = readers[pos]
        BY <2>1, <2>5, <3>1, Zenon DEF BlockedBy
      <3>3. QED
        BY <2>4, <3>2, Zenon DEF Holds
    <2>6. BlockedBy(p) \subseteq readers[pos] \cup writer[pos] \cup pending[pos]
      BY <2>1, Zenon DEF BlockedBy
    <2>7. QED
      BY <2>4, <2>5, <2>6, Zenon DEF Holds
  <1>2. QED
    BY <1>1, LocksTypeCorrect, LocksInvariant, PTL

-----------------------------------------------------------------------------

\* The striped RWMutexes implement the abstract key lock: a locking call that
\* returns is an atomic acquisition, the start of an unlock is the release,
\* and every other step of the lock code is invisible.
THEOREM LocksImplementKeyLocks == LocksSpec => ImplementsKeyLocks
  <1> DEFINE hk == [p \in Proc |-> IF pc[p] = "locked" THEN keys[p] ELSE {}]
             hm == [p \in Proc |-> IF pc[p] = "locked" THEN mode[p] ELSE "none"]
  <1>1. LocksInit => KL!KeyLocksInit
    BY Zenon DEF LocksInit, KL!KeyLocksInit
  <1>2. /\ LocksTypeOK /\ KeyExclusion' /\ [LocksNext]_lockVars
        => [KL!KeyLocksNext]_(KL!keyLockVars)
    <2> SUFFICES ASSUME LocksTypeOK, KeyExclusion', [LocksNext]_lockVars
                 PROVE  KL!KeyLocksNext \/ (hk' = hk /\ hm' = hm)
      BY Zenon DEF KL!keyLockVars
    <2>1. ASSUME NEW p \in Proc, CallReturns(p)
          PROVE  KL!KeyLocksNext
      <3>1. /\ pc[p] = "locking" /\ pc' = [pc EXCEPT ![p] = "locked"]
            /\ keys' = keys /\ mode' = mode
        BY <2>1, Zenon DEF CallReturns
      <3>2. PICK ks \in SUBSET Key, m \in {"r", "w"} : ks = keys[p] /\ m = mode[p]
        BY Zenon DEF LocksTypeOK
      <3>3. /\ hk' = [hk EXCEPT ![p] = ks]
            /\ hm' = [hm EXCEPT ![p] = m]
        BY <3>1, <3>2, Zenon DEF LocksTypeOK
      <3>4. hm[p] = "none"
        BY <3>1, Zenon
      <3>5. KL!CanAcquire(p, ks, m)
        BY <3>1, <3>2, Zenon DEF KeyExclusion, KL!CanAcquire, LocksTypeOK
      <3>6. KL!Acquire(p, ks, m)
        BY <3>3, <3>4, <3>5, Zenon DEF KL!Acquire
      <3>7. QED
        BY <3>6, Zenon DEF KL!KeyLocksNext
    <2>2. ASSUME NEW p \in Proc, UnLock(p)
          PROVE  KL!KeyLocksNext
      <3>1. /\ pc[p] = "locked" /\ pc' = [pc EXCEPT ![p] = "unlocking"]
            /\ keys' = keys /\ mode' = mode
        BY <2>2, Zenon DEF UnLock
      <3>2. /\ hk' = [hk EXCEPT ![p] = {}]
            /\ hm' = [hm EXCEPT ![p] = "none"]
        BY <3>1, Zenon DEF LocksTypeOK
      <3>3. KL!Release(p)
        BY <3>1, <3>2, Zenon DEF KL!Release, LocksTypeOK
      <3>4. QED
        BY <3>3, Zenon DEF KL!KeyLocksNext
    <2>3. ASSUME NEW p \in Proc, LockCall(p)
          PROVE  hk' = hk /\ hm' = hm
      <3>1. PICK ks, m : Call(p, ks, m)
        BY <2>3, Zenon DEF LockCall, Lock, RLock, LockMulti, RLockMulti
      <3>2. /\ pc[p] = "idle" /\ pc' = [pc EXCEPT ![p] = "locking"]
            /\ \A q \in Proc \ {p} : keys'[q] = keys[q] /\ mode'[q] = mode[q]
        BY <3>1, Zenon DEF Call, LocksTypeOK
      <3>3. \A q \in Proc : pc'[q] = "locked" <=> pc[q] = "locked" /\ q # p
        BY <3>2, Zenon DEF LocksTypeOK
      <3>4. QED
        BY <3>2, <3>3, Zenon
    <2>4. ASSUME NEW p \in Proc, LockStep(p), ~CallReturns(p)
          PROVE  hk' = hk /\ hm' = hm
      BY <2>4 DEF LockStep, UnLockReturns, WriterAnnounces, WriterEnters,
                  ReaderEnters, ReaderQueues, WriterLeaves, ReaderLeaves, LocksTypeOK
    <2>5. CASE UNCHANGED lockVars
      BY <2>5, Zenon DEF lockVars
    <2>6. QED
      BY <2>1, <2>2, <2>3, <2>4, <2>5, Zenon DEF LocksNext
  <1>3. QED
    BY <1>1, <1>2, LocksTypeCorrect, LocksKeyExclusion, PTL
       DEF LocksSpec, ImplementsKeyLocks, KL!KeyLocksSpec
=============================================================================
