---------------------------- MODULE CollectionDb ----------------------------
(***************************************************************************)
(* The commands on lists, hashes and sorted sets (list.go, hash.go, zset.go *)
(* of pkg/memdb) executed by concurrent clients, with the lazy check for   *)
(* expired keys, the key locks and the background deletion of db.go. What  *)
(* a handler computes is in modules ListOps, HashOps and ZSetOps. A step   *)
(* is one access to the map or to the index of deadlines; a collection is  *)
(* changed in place in the step that finds it, which nobody sees without   *)
(* its lock. As in module SetDb, due holds the keys whose deadline has     *)
(* passed and is still in the index.                                       *)
(***************************************************************************)
EXTENDS KeyLocks, Collections
LOCAL INSTANCE FiniteSetsExt

CONSTANTS
  Command,     \* records [op, keys, args, i, j, opt]
  NoCommand,   \* no command is being executed
  MaxDue,      \* bound: the deadlines of so many keys pass, each once
  MaxElems,    \* bound: no push is sent when the lists have this many elements,
               \* and no increment of a field when a hash counts more than that
  MaxNumber    \* bound: nor a ZINCRBY or HINCRBYFLOAT when a number is this large

ASSUME CollectionCommandAssumption ==
  /\ NoCommand \notin Command
  /\ MaxDue \in Nat /\ MaxElems \in Nat /\ MaxNumber \in Nat
  /\ \A command \in Command : command.keys \in Seq(Key) \ {<<>>}

VARIABLES
  db,      \* db[k]: the value of k
  due,     \* keys whose deadline has passed and is still in the index
  doomed,  \* keys the background goroutine has taken out of the index
  passed,  \* history: keys whose deadline has passed
  miscounted,  \* history: hashes of which a blank field was incremented
  pc,      \* pc[c]: where the goroutine of client c is
  cmd,     \* cmd[c]: its command
  idx,     \* idx[c]: the number of the key to check
  todo,    \* todo[c]: accesses left under the key locks
  reply    \* reply[c]: <<>> or the reply

collectionVars ==
  <<db, due, doomed, passed, miscounted, pc, cmd, idx, todo, reply, heldKeys, heldMode>>

Set(k, v) == [do |-> "set", k |-> k, v |-> v]
Delete(k) == [do |-> "delete", k |-> k, v |-> None]
DelTTL(k) == [do |-> "delttl", k |-> k, v |-> None]

CollectionInit ==
  /\ db = [k \in Key |-> None]
  /\ due = {} /\ doomed = {} /\ passed = {} /\ miscounted = {}
  /\ pc = [c \in Proc |-> "idle"] /\ cmd = [c \in Proc |-> NoCommand]
  /\ idx = [c \in Proc |-> 1] /\ todo = [c \in Proc |-> <<>>]
  /\ reply = [c \in Proc |-> <<>>]
  /\ KeyLocksInit

Goto(c, label) == pc' = [pc EXCEPT ![c] = label]

Numbers(v) ==
  IF IsHash(v) THEN {v.table[f].h : f \in Fields(v)}
  ELSE IF IsZSet(v) THEN {v.z.score[x] : x \in DOMAIN v.z.score} ELSE {}

\* The history of miscounted hashes; new is the one added by this step.
Track(new) == miscounted' = {k \in miscounted \cup new : IsHash(db'[k])}

\* A command arrives; every handler starts with CheckTTL of its first key.
ExecCommand(c, command) ==
  /\ pc[c] = "idle"
  /\ command.op \in PushOps => MapThenSumSet(LAMBDA k : Len(db[k].s), Key) < MaxElems
  /\ command.op \in {"hincrby", "hincrbyfloat"} =>
       \A k \in Key : IsHash(db[k]) => db[k].size <= MaxElems
  /\ command.op \in {"zincrby", "hincrbyfloat"} =>
       \A k \in Key : \A n \in Numbers(db[k]) : n < MaxNumber
  /\ Goto(c, "check")
  /\ cmd' = [cmd EXCEPT ![c] = command] /\ idx' = [idx EXCEPT ![c] = 1]
  /\ UNCHANGED <<db, due, doomed, passed, miscounted, todo, reply, keyLockVars>>

Return(c) ==
  /\ pc[c] = "done"
  /\ Goto(c, "idle")
  /\ cmd' = [cmd EXCEPT ![c] = NoCommand] /\ reply' = [reply EXCEPT ![c] = <<>>]
  /\ UNCHANGED <<db, due, doomed, passed, miscounted, idx, todo, keyLockVars>>

-----------------------------------------------------------------------------
(* Deadlines *)

DeadlinePasses(k) ==
  /\ Cardinality(passed) < MaxDue /\ db[k] # None /\ k \notin passed
  /\ due' = due \cup {k} /\ passed' = passed \cup {k}
  /\ UNCHANGED <<db, doomed, miscounted, pc, cmd, idx, todo, reply, keyLockVars>>

\* The background goroutine takes k out of the index and deletes it later.
Collect(k) ==
  /\ k \in due
  /\ due' = due \ {k} /\ doomed' = doomed \cup {k}
  /\ UNCHANGED <<db, passed, miscounted, pc, cmd, idx, todo, reply, keyLockVars>>

CleanupDelete(k) ==
  /\ k \in doomed
  /\ db' = [db EXCEPT ![k] = None] /\ doomed' = doomed \ {k} /\ Track({})
  /\ UNCHANGED <<due, passed, pc, cmd, idx, todo, reply, keyLockVars>>

Checked(c) == cmd[c].keys[idx[c]]

\* The handlers that make a new collection do not care whether the key was
\* expired, nor does LMOVE for its destination. The others answer as for an
\* absent key.
AfterCheck(c, alive) ==
  LET last    == idx[c] = Len(cmd[c].keys)
      ignored == cmd[c].op \in UnconcernedOps \/ idx[c] = 2
      absent  == (CHOOSE o \in Outcomes([k \in Key |-> None], cmd[c]) : TRUE).reply
  IN IF alive \/ ignored
     THEN /\ Goto(c, IF last THEN "body" ELSE "check")
          /\ idx' = [idx EXCEPT ![c] = IF last THEN @ ELSE @ + 1] /\ UNCHANGED reply
     ELSE Goto(c, "done") /\ reply' = [reply EXCEPT ![c] = <<absent>>] /\ UNCHANGED idx

\* TTLManager.CheckTTL: an expired key leaves the index.
CheckTTL(c) ==
  /\ pc[c] = "check"
  /\ \/ /\ Checked(c) \in due
        /\ due' = due \ {Checked(c)} /\ Goto(c, "expired") /\ UNCHANGED <<idx, reply>>
     \/ Checked(c) \notin due /\ AfterCheck(c, TRUE) /\ UNCHANGED due
  /\ UNCHANGED <<db, doomed, passed, miscounted, cmd, todo, keyLockVars>>

\* MemDb.CheckTTL deletes it, with the lock of the key.
DeleteExpired(c) ==
  /\ pc[c] = "expired"
  /\ CanAcquire(c, {Checked(c)}, "w")
  /\ db' = [db EXCEPT ![Checked(c)] = None]
  /\ Track({}) /\ AfterCheck(c, FALSE)
  /\ UNCHANGED <<due, doomed, passed, cmd, todo, keyLockVars>>

-----------------------------------------------------------------------------
(* Handlers *)

\* Wrong: LMOVE locks its source only.
LockedSource(c) == {cmd[c].keys[1]}

\* The keys whose locks the handler takes.
Locked(c) == Elements(cmd[c].keys)

LockMode(c) == IF cmd[c].op \in ReadOps THEN "r" ELSE "w"

\* Wrong: the emptied list is not deleted.
LaterKeeps(c, m) ==
  LET new == {k \in Locked(c) : db[k] = None /\ m[k] # None} IN
  IF new = {} THEN <<>> ELSE LET k == CHOOSE k \in new : TRUE IN <<Set(k, m[k])>>

\* The accesses that follow when the handler is to turn the map into m: a new
\* collection or string is put into the map, then an emptied one is deleted
\* with its deadline (deferred). The code puts a new collection empty and fills
\* it under the same lock; as nobody looks into it before, it is put filled
\* here. SET removes the deadline too, and so does DEL, which has deleted its
\* key in the first step.
Later(c, m) ==
  LET k == cmd[c].keys[1]
      d == cmd[c].keys[Len(cmd[c].keys)]
      put    == IF db[d] = None /\ m[d] # None THEN <<Set(d, m[d])>> ELSE <<>>
      delete == IF IsCollection(db[k]) /\ m[k] = None THEN <<Delete(k), DelTTL(k)>> ELSE <<>>
  IN CASE cmd[c].op = "del" -> <<DelTTL(k)>>
       [] cmd[c].op = "set" -> IF m[k] = Str THEN <<Set(k, Str), DelTTL(k)>> ELSE <<>>
       [] OTHER -> put \o delete

\* Collections are changed in place; an emptied one is in the map until deleted.
InPlace(c, m) ==
  [k \in Key |-> IF cmd[c].op = "del" THEN m[k]
                 ELSE IF ~IsCollection(db[k]) THEN db[k]
                 ELSE IF m[k] = None THEN Emptied(db[k]) ELSE m[k]]

\* HINCRBY or HINCRBYFLOAT is about to count a blank field once more.
CountsAgain(c) ==
  LET k == cmd[c].keys[1] IN
  {x \in {k} : /\ cmd[c].op \in {"hincrby", "hincrbyfloat"} /\ IsHash(db[x])
               /\ cmd[c].args[1] \in Fields(db[x]) /\ db[x].table[cmd[c].args[1]] = Blank}

Body(c) ==
  /\ pc[c] = "body"
  /\ CanAcquire(c, Locked(c), LockMode(c))
  /\ \E o \in Outcomes(db, cmd[c]) :
       LET later == Later(c, o.map) IN
       /\ db' = InPlace(c, o.map)
       /\ reply' = [reply EXCEPT ![c] = <<o.reply>>]
       /\ todo' = [todo EXCEPT ![c] = later]
       /\ \/ later = <<>> /\ Goto(c, "done") /\ UNCHANGED keyLockVars
          \/ later # <<>> /\ Goto(c, "run") /\ Acquire(c, Locked(c), LockMode(c))
  /\ Track(CountsAgain(c))
  /\ UNCHANGED <<due, doomed, passed, cmd, idx>>

\* The handler does not come to an outcome: it keeps the lock and turns for ever.
Spin(c) ==
  /\ \/ /\ pc[c] = "body" /\ Outcomes(db, cmd[c]) = {}
        /\ Goto(c, "spin") /\ Acquire(c, Locked(c), LockMode(c))
     \/ pc[c] = "spin" /\ UNCHANGED <<pc, keyLockVars>>
  /\ UNCHANGED <<db, due, doomed, passed, miscounted, cmd, idx, todo, reply>>

\* One more access under the locks; the last one releases them.
RunAccess(c) ==
  /\ pc[c] = "run"
  /\ LET a == Head(todo[c]) IN
       /\ db' = IF a.do = "delttl" THEN db ELSE [db EXCEPT ![a.k] = a.v]
       /\ due' = IF a.do = "delttl" THEN due \ {a.k} ELSE due
  /\ Track({}) /\ todo' = [todo EXCEPT ![c] = Tail(@)]
  /\ \/ Len(todo[c]) = 1 /\ Goto(c, "done") /\ Release(c)
     \/ Len(todo[c]) > 1 /\ UNCHANGED <<pc, keyLockVars>>
  /\ UNCHANGED <<doomed, passed, cmd, idx, reply>>

CollectionNext ==
  \/ \E c \in Proc :
       \/ CheckTTL(c) \/ DeleteExpired(c) \/ Body(c) \/ Spin(c) \/ RunAccess(c)
       \/ Return(c)
       \/ \E command \in Command : ExecCommand(c, command)
  \/ \E k \in Key : DeadlinePasses(k) \/ Collect(k) \/ CleanupDelete(k)

CollectionSpec == CollectionInit /\ [][CollectionNext]_collectionVars

-----------------------------------------------------------------------------
(* Properties *)

\* The handlers that can empty a list or a hash (LPOP, RPOP, LREM, LTRIM, LMOVE,
\* HDEL) delete it before they release its lock: the next client with the lock of
\* the key never meets an empty one, also when keys expire and are deleted
\* meanwhile. Hashes of which HINCRBY or HINCRBYFLOAT has incremented a blank
\* field are excepted; sorted sets are never deleted by their handlers.
NoEmptyCollections ==
  \A k \in Key :
    (IsList(db[k]) /\ db[k].s = <<>>) \/ (IsHash(db[k]) /\ Fields(db[k]) = {}) =>
      \/ k \in miscounted
      \/ \E c \in Proc : heldMode[c] = "w" /\ Delete(k) \in Elements(todo[c])

\* The size of a hash is the number of its fields, and when a blank field was
\* incremented, which counts it twice, it is larger: HDEL, which deletes a hash
\* of size 0, never deletes fields that it was not told to delete, and HLEN is
\* right for all other hashes. HRANDFIELD with a negative count, which goes on
\* until it has enough, returns for all other hashes.
HashSizesRight ==
  /\ \A k \in Key : IsHash(db[k]) =>
       /\ db[k].size >= Cardinality(Fields(db[k]))
       /\ db[k].size > Cardinality(Fields(db[k])) => k \in miscounted
  /\ \A c \in Proc : pc[c] = "body" /\ Outcomes(db, cmd[c]) = {} => cmd[c].keys[1] \in miscounted

\* The map as it will be when the accesses begun under the locks are done.
Settled ==
  [k \in Key |->
     LET pending(c) == {a \in Elements(todo[c]) : a.k = k /\ a.do # "delttl"}
         writers == {c \in Proc : pending(c) # {}}
     IN  IF writers = {} THEN db[k]
         ELSE (CHOOSE a \in pending(CHOOSE c \in writers : TRUE) : TRUE).v]

Atomic == INSTANCE AtomicCollections WITH
  store <- Settled, call <- cmd, answer <- reply, passed <- passed

\* Every command on lists, hashes and sorted sets takes effect in one step
\* between its call and its return; in particular no client sees the element
\* that LMOVE moves in neither or in both of the lists, or some of the fields of
\* an HSET. CheckTTL and the background goroutine only ever make keys vanish
\* whose deadline has passed, and never undo a part of what a handler does to
\* several keys.
ImplementsAtomicCollections == Atomic!AtomicSpec
=============================================================================
