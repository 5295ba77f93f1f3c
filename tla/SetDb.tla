------------------------------- MODULE SetDb -------------------------------
(***************************************************************************)
(* The set commands of pkg/memdb/set.go executed by concurrent clients,    *)
(* with the lazy check for expired keys, the key locks and the background  *)
(* deletion of db.go. What a handler computes is module SetOps; here is    *)
(* when it reads and writes the map, and which locks it holds then.        *)
(*                                                                         *)
(* A step is one access to the map or to the index of deadlines. A handler *)
(* changes the members of a set in place in the step that finds the set:   *)
(* nobody can look into the set without its lock. Putting a new set into   *)
(* the map and deleting an emptied one are later steps of their own.       *)
(*                                                                         *)
(* Of the deadlines only those that have passed matter here: due holds the *)
(* keys with such an entry in the index (see MemDb for the clock).         *)
(***************************************************************************)
EXTENDS KeyLocks, SetOps

CONSTANTS
  Command,     \* records [op, keys, args, n]; a STORE has its destination first
  NoCommand,   \* no command is being executed
  MaxDue       \* bound: how many deadlines pass

VARIABLES
  db,      \* db[k]: the value of k
  due,     \* keys whose deadline has passed and is still in the index
  doomed,  \* keys the background goroutine has taken out of the index
  passed,  \* how many deadlines have passed
  loose,   \* whether SUNIONSTORE has released a lock in front of its store
  pc,      \* pc[c]: where the goroutine of client c is
  cmd,     \* cmd[c]: its command
  idx,     \* idx[c]: how many keys are checked
  kept,    \* kept[c]: the keys to read, without those found expired
  vals,    \* vals[c]: values read so far by a command on several keys
  result,  \* result[c]: the set a STORE command has computed
  todo,    \* todo[c]: accesses left under the key locks
  reply    \* reply[c]: <<>> or the reply

setVars == <<db, due, doomed, passed, loose, pc, cmd, idx, kept, vals, result, todo, reply,
             heldKeys, heldMode>>

StoreOps == {"sunionstore", "sinterstore", "sdiffstore"}
MultiOps == {"sunion", "sinter", "sdiff"} \cup StoreOps

\* The checks of len(cmd) at the start of the handlers: a STORE has a source,
\* SADD a member.
ASSUME SetCommandAssumption ==
  /\ NoCommand \notin Command
  /\ MaxDue \in Nat
  /\ \A command \in Command :
       /\ command.keys \in Seq(Key)
       /\ Len(command.keys) >= IF command.op \in StoreOps THEN 2 ELSE 1
       /\ command.op = "smove" => Len(command.keys) = 2
       /\ command.op \notin MultiOps \cup {"smove"} => Len(command.keys) = 1
       /\ command.op = "sadd" => command.args # {}

\* Expired keys are left out by these ...
DropOps == {"sunion"} \cup StoreOps

\* ... and answered at once by these (SMOVE only for its source).
StopOps == {"srem", "spop", "scard", "sismember", "smembers", "srandmember", "smove", "del"}

ExpiredReply(op) ==
  CASE op \in {"srem", "scard", "sismember", "smove", "del"} -> Number(0)
    [] op \in {"spop", "srandmember"} -> Nil
    [] op = "smembers" -> Members({})

Set(k, v) == [do |-> "set", k |-> k, v |-> v]
Delete(k) == [do |-> "delete", k |-> k, v |-> None]
DelTTL(k) == [do |-> "delttl", k |-> k, v |-> None]

KeySet(s) == {s[i] : i \in DOMAIN s}

-----------------------------------------------------------------------------

SetDbInit ==
  /\ db = [k \in Key |-> None]
  /\ due = {} /\ doomed = {} /\ passed = 0 /\ loose = FALSE
  /\ pc = [c \in Proc |-> "idle"] /\ cmd = [c \in Proc |-> NoCommand]
  /\ idx = [c \in Proc |-> 1] /\ kept = [c \in Proc |-> <<>>]
  /\ vals = [c \in Proc |-> <<>>] /\ result = [c \in Proc |-> {}]
  /\ todo = [c \in Proc |-> <<>>] /\ reply = [c \in Proc |-> <<>>]
  /\ KeyLocksInit

Goto(c, label) == pc' = [pc EXCEPT ![c] = label]

Answer(c, r) == Goto(c, "done") /\ reply' = [reply EXCEPT ![c] = <<r>>]

\* A command arrives; every handler starts with CheckTTL of a key. SMOVE checks
\* its destination first.
ExecCommand(c, command) ==
  /\ pc[c] = "idle"
  /\ Goto(c, "check")
  /\ cmd' = [cmd EXCEPT ![c] = command]
  /\ idx' = [idx EXCEPT ![c] = 1]
  /\ UNCHANGED <<db, due, doomed, passed, loose, kept, vals, result, todo, reply, keyLockVars>>

Return(c) ==
  /\ pc[c] = "done"
  /\ Goto(c, "idle")
  /\ cmd' = [cmd EXCEPT ![c] = NoCommand] /\ reply' = [reply EXCEPT ![c] = <<>>]
  /\ kept' = [kept EXCEPT ![c] = <<>>] /\ vals' = [vals EXCEPT ![c] = <<>>]
  /\ result' = [result EXCEPT ![c] = {}]
  /\ UNCHANGED <<db, due, doomed, passed, loose, idx, todo, keyLockVars>>

-----------------------------------------------------------------------------
(* Deadlines *)

\* The deadline of a key passes.
DeadlinePasses(k) ==
  /\ passed < MaxDue /\ db[k] # None /\ k \notin due
  /\ due' = due \cup {k} /\ passed' = passed + 1
  /\ UNCHANGED <<db, doomed, loose, pc, cmd, idx, kept, vals, result, todo, reply, keyLockVars>>

\* The background goroutine takes k out of the index and deletes it later.
Collect(k) ==
  /\ k \in due
  /\ due' = due \ {k} /\ doomed' = doomed \cup {k}
  /\ UNCHANGED <<db, passed, loose, pc, cmd, idx, kept, vals, result, todo, reply, keyLockVars>>

CleanupDelete(k) ==
  /\ k \in doomed
  /\ db' = [db EXCEPT ![k] = None] /\ doomed' = doomed \ {k}
  /\ UNCHANGED <<due, passed, loose, pc, cmd, idx, kept, vals, result, todo, reply, keyLockVars>>

\* The key the handler checks next.
Checked(c) ==
  IF cmd[c].op = "smove" THEN cmd[c].keys[3 - idx[c]] ELSE cmd[c].keys[idx[c]]

\* What follows the check of key number idx, with the key found alive or not.
\* The destination of a STORE is only looked at; the other keys of a command
\* on several sets are collected.
AfterCheck(c, alive) ==
  LET command == cmd[c]
      store   == command.op \in StoreOps
      source  == command.op \in MultiOps /\ ~(store /\ idx[c] = 1)
      last    == idx[c] = Len(command.keys)
  IN /\ kept' = IF source /\ (alive \/ command.op \notin DropOps)
                THEN [kept EXCEPT ![c] = Append(@, Checked(c))] ELSE kept
     /\ IF store /\ idx[c] = 1 THEN Goto(c, "peek") /\ UNCHANGED <<idx, reply>>
        ELSE IF ~alive /\ last /\ command.op \in StopOps
        THEN Answer(c, ExpiredReply(command.op)) /\ UNCHANGED idx
        ELSE /\ Goto(c, IF last THEN "body" ELSE "check")
             /\ idx' = [idx EXCEPT ![c] = IF last THEN @ ELSE @ + 1]
             /\ UNCHANGED reply

\* TTLManager.CheckTTL: an expired key leaves the index.
CheckTTL(c) ==
  /\ pc[c] = "check"
  /\ LET k == Checked(c) IN
       \/ k \in due /\ due' = due \ {k} /\ Goto(c, "expired") /\ UNCHANGED <<idx, kept, reply>>
       \/ k \notin due /\ AfterCheck(c, TRUE) /\ UNCHANGED due
  /\ UNCHANGED <<db, doomed, passed, loose, cmd, vals, result, todo, keyLockVars>>

\* MemDb.CheckTTL deletes it, with the lock of the key.
DeleteExpired(c) ==
  /\ pc[c] = "expired"
  /\ CanAcquire(c, {Checked(c)}, "w")
  /\ db' = [db EXCEPT ![Checked(c)] = None]
  /\ AfterCheck(c, FALSE)
  /\ UNCHANGED <<due, doomed, passed, loose, cmd, vals, result, todo, keyLockVars>>

-----------------------------------------------------------------------------
(* Commands on one key, and SMOVE *)

\* The keys whose locks the handler takes.
Locked(c) == KeySet(cmd[c].keys)

LockMode(c) ==
  IF cmd[c].op \in {"scard", "sismember", "smembers", "srandmember"} THEN "r" ELSE "w"

\* The accesses that follow when the handler is to turn the map into m: new
\* sets and strings are put (SET then removes the deadline), emptied sets are
\* deleted with their deadline. SADD puts a new set empty and fills it under
\* the same lock; as nobody looks into it before, it is put filled here. DEL
\* has deleted its key in the first step.
Later(c, m) ==
  LET ks == cmd[c].keys
      k  == ks[Len(ks)]   \* the only key, or the destination of SMOVE
  IN IF cmd[c].op = "del" THEN <<DelTTL(k)>>
     ELSE IF m[k] = Str /\ cmd[c].op = "set" THEN <<Set(k, Str), DelTTL(k)>>
     ELSE IF db[k] # None /\ m[k] = None THEN <<Delete(k), DelTTL(k)>>
     ELSE IF db[k] = None /\ m[k] # None THEN <<Set(k, m[k])>>
     ELSE <<>>

\* Members are changed in place; an emptied set is in the map until deleted.
InPlace(c, m) ==
  [k \in Key |-> IF cmd[c].op = "del" THEN m[k]
                 ELSE IF ~IsSet(db[k]) THEN db[k]
                 ELSE IF m[k] = None THEN SetVal({}) ELSE m[k]]

Body(c) ==
  /\ pc[c] = "body" /\ cmd[c].op \notin MultiOps
  /\ CanAcquire(c, Locked(c), LockMode(c))
  /\ \E o \in Outcomes(db, cmd[c]) :
       /\ db' = InPlace(c, o.map)
       /\ reply' = [reply EXCEPT ![c] = <<o.reply>>]
       /\ LET later == Later(c, o.map) IN
            /\ todo' = [todo EXCEPT ![c] = later]
            /\ \/ later = <<>> /\ Goto(c, "done") /\ UNCHANGED keyLockVars
               \/ later # <<>> /\ Goto(c, "run") /\ Acquire(c, Locked(c), LockMode(c))
  /\ UNCHANGED <<due, doomed, passed, loose, cmd, idx, kept, vals, result>>

\* One more access under the locks; the last one releases them.
RunAccess(c) ==
  /\ pc[c] = "run"
  /\ LET a == Head(todo[c]) IN
       /\ db' = IF a.do = "delttl" THEN db ELSE [db EXCEPT ![a.k] = a.v]
       /\ due' = IF a.do = "delttl" THEN due \ {a.k} ELSE due
  /\ todo' = [todo EXCEPT ![c] = Tail(@)]
  /\ \/ Len(todo[c]) = 1 /\ Goto(c, "done") /\ Release(c)
     \/ Len(todo[c]) > 1 /\ UNCHANGED <<pc, keyLockVars>>
  /\ UNCHANGED <<doomed, passed, loose, cmd, idx, kept, vals, result, reply>>

-----------------------------------------------------------------------------
(* Commands on several sets *)

\* STORE: a first look at the destination, without a lock.
Peek(c) ==
  /\ pc[c] = "peek"
  /\ IF db[cmd[c].keys[1]] = Str THEN Answer(c, WrongType) /\ UNCHANGED idx
     ELSE Goto(c, "check") /\ idx' = [idx EXCEPT ![c] = 2] /\ UNCHANGED reply
  /\ UNCHANGED <<db, due, doomed, passed, loose, cmd, kept, vals, result, todo, keyLockVars>>

\* No key is left to read.
NothingKept(c) ==
  /\ pc[c] = "body" /\ cmd[c].op \in MultiOps /\ kept[c] = <<>>
  /\ Answer(c, IF cmd[c].op = "sunion" THEN Members({}) ELSE Number(0))
  /\ UNCHANGED <<db, due, doomed, passed, loose, cmd, idx, kept, vals, result, todo, keyLockVars>>

\* Wrong: no RLockMulti.
StartGatherUnlocked(c) ==
  /\ pc[c] = "body" /\ cmd[c].op \in MultiOps /\ kept[c] # <<>>
  /\ Acquire(c, {}, "r")
  /\ Goto(c, "gather")
  /\ UNCHANGED <<db, due, doomed, passed, loose, cmd, idx, kept, vals, result, todo, reply>>

\* RLockMulti of the keys.
StartGather(c) ==
  /\ pc[c] = "body" /\ cmd[c].op \in MultiOps /\ kept[c] # <<>>
  /\ Acquire(c, KeySet(kept[c]), "r")
  /\ Goto(c, "gather")
  /\ UNCHANGED <<db, due, doomed, passed, loose, cmd, idx, kept, vals, result, todo, reply>>

\* The keys are read one after the other.
Gather(c) ==
  /\ pc[c] = "gather" /\ Len(vals[c]) < Len(kept[c])
  /\ vals' = [vals EXCEPT ![c] = Append(@, db[kept[c][Len(@) + 1]])]
  /\ UNCHANGED <<db, due, doomed, passed, loose, pc, cmd, idx, kept, result, todo, reply, keyLockVars>>

Computed(c) ==
  CASE cmd[c].op \in {"sunion", "sunionstore"} -> SUnion(vals[c])
    [] cmd[c].op \in {"sinter", "sinterstore"} -> SInter(vals[c])
    [] cmd[c].op \in {"sdiff", "sdiffstore"}   -> SDiff(vals[c])

\* Wrong: the return with an error forgets RUnLockMulti.
ReadUnlockNotOnError(c, r) ==
  IF r \in {Panic, WrongType} THEN UNCHANGED keyLockVars ELSE Release(c)

\* RUnLockMulti on every way out. When the handler panics, SINTER has deferred
\* the unlock, SINTERSTORE has not.
ReadUnlock(c, r) ==
  IF r = Panic /\ cmd[c].op = "sinterstore" THEN UNCHANGED keyLockVars ELSE Release(c)

\* All read: compute and RUnLockMulti. SUNIONSTORE of no set at all ends here.
\* A panic ends the goroutine.
EndGather(c) ==
  /\ pc[c] = "gather" /\ Len(vals[c]) = Len(kept[c])
  /\ LET r == Computed(c) IN
       /\ result' = [result EXCEPT ![c] = r.set]
       /\ \/ /\ r.reply = Panic
             /\ Goto(c, "dead") /\ UNCHANGED reply
          \/ /\ \/ r.reply = WrongType \/ cmd[c].op \notin StoreOps
                \/ cmd[c].op = "sunionstore" /\ SetsOf(vals[c]) = <<>>
             /\ r.reply # Panic
             /\ Answer(c, r.reply)
          \/ /\ r.reply \notin {Panic, WrongType} /\ cmd[c].op \in StoreOps
             /\ cmd[c].op = "sunionstore" => SetsOf(vals[c]) # <<>>
             /\ Goto(c, "recheck") /\ UNCHANGED reply
       /\ ReadUnlock(c, r.reply)
  /\ UNCHANGED <<db, due, doomed, passed, loose, cmd, idx, kept, vals, todo>>

-----------------------------------------------------------------------------
(* STORE: the destination *)

Dest(c) == cmd[c].keys[1]

\* CheckTTL of the destination, once more.
Recheck(c) ==
  /\ pc[c] = "recheck"
  /\ due' = due \ {Dest(c)}
  /\ Goto(c, IF Dest(c) \in due THEN "redelete" ELSE "store")
  /\ UNCHANGED <<db, doomed, passed, loose, cmd, idx, kept, vals, result, todo, reply, keyLockVars>>

Redelete(c) ==
  /\ pc[c] = "redelete"
  /\ CanAcquire(c, {Dest(c)}, "w")
  /\ db' = [db EXCEPT ![Dest(c)] = None]
  /\ Goto(c, "store")
  /\ UNCHANGED <<due, doomed, passed, loose, cmd, idx, kept, vals, result, todo, reply, keyLockVars>>

\* The type check of the destination and, if there is something to store, the
\* Set in a later step: next says what it takes to get there.
StoreChecked(c, next) ==
  LET size == Number(Cardinality(result[c])) IN
  \/ /\ db[Dest(c)] = Str
     /\ Answer(c, WrongType) /\ UNCHANGED <<todo, keyLockVars>>
  \/ /\ db[Dest(c)] # Str /\ result[c] = {}
     /\ Answer(c, size) /\ UNCHANGED <<todo, keyLockVars>>
  \/ /\ db[Dest(c)] # Str /\ result[c] # {}
     /\ reply' = [reply EXCEPT ![c] = <<size>>]
     /\ next

\* Wrong: the lock of the destination is released before the Set.
StoreUnlocked(c) ==
  /\ pc[c] = "store" /\ cmd[c].op \in {"sinterstore", "sdiffstore"}
  /\ CanAcquire(c, {Dest(c)}, "w")
  /\ StoreChecked(c, Goto(c, "overwrite") /\ UNCHANGED <<todo, keyLockVars>>)
  /\ UNCHANGED <<db, due, doomed, passed, loose, cmd, idx, kept, vals, result>>

\* SINTERSTORE and SDIFFSTORE, with the lock of the destination.
Store(c) ==
  /\ pc[c] = "store" /\ cmd[c].op \in {"sinterstore", "sdiffstore"}
  /\ CanAcquire(c, {Dest(c)}, "w")
  /\ StoreChecked(c, /\ Goto(c, "run") /\ Acquire(c, {Dest(c)}, "w")
                     /\ todo' = [todo EXCEPT ![c] = <<Set(Dest(c), SetVal(result[c]))>>])
  /\ UNCHANGED <<db, due, doomed, passed, loose, cmd, idx, kept, vals, result>>

\* SUNIONSTORE takes the lock and releases it at once ...
LockUnLock(c) ==
  /\ pc[c] = "store" /\ cmd[c].op = "sunionstore"
  /\ CanAcquire(c, {Dest(c)}, "w")
  /\ Goto(c, "unlocked") /\ loose' = TRUE
  /\ UNCHANGED <<db, due, doomed, passed, cmd, idx, kept, vals, result, todo, reply, keyLockVars>>

\* ... looks at the destination and sets it without the lock.
UnionStore(c) ==
  /\ pc[c] = "unlocked"
  /\ StoreChecked(c, Goto(c, "overwrite") /\ UNCHANGED <<todo, keyLockVars>>)
  /\ UNCHANGED <<db, due, doomed, passed, loose, cmd, idx, kept, vals, result>>

Overwrite(c) ==
  /\ pc[c] = "overwrite"
  /\ db' = [db EXCEPT ![Dest(c)] = SetVal(result[c])]
  /\ Goto(c, "done")
  /\ UNCHANGED <<due, doomed, passed, loose, cmd, idx, kept, vals, result, todo, reply, keyLockVars>>

-----------------------------------------------------------------------------

SetStep(c) ==
  \/ CheckTTL(c) \/ DeleteExpired(c) \/ Body(c) \/ RunAccess(c)
  \/ Peek(c) \/ NothingKept(c) \/ StartGather(c) \/ Gather(c) \/ EndGather(c)
  \/ Recheck(c) \/ Redelete(c) \/ Store(c) \/ LockUnLock(c) \/ UnionStore(c) \/ Overwrite(c)
  \/ Return(c)

SetDbNext ==
  \/ \E c \in Proc : SetStep(c) \/ \E command \in Command : ExecCommand(c, command)
  \/ \E k \in Key : DeadlinePasses(k) \/ Collect(k) \/ CleanupDelete(k)

SetDbSpec == SetDbInit /\ [][SetDbNext]_setVars

-----------------------------------------------------------------------------
(* Properties *)

\* A goroutine that is not executing a handler holds no key locks, however the
\* handler ended: each of them unlocks on every return (set.go).
LocksReleased ==
  \A c \in Proc : pc[c] \in {"idle", "done", "dead"} => heldMode[c] = "none"

\* A goroutine holds key locks only inside a section; the exception is the
\* handler of SINTERSTORE, which may panic with the read locks of its sources.
LocksReleasedElsewhere ==
  \A c \in Proc : heldMode[c] # "none" =>
    pc[c] \in {"run", "gather"} \/ (pc[c] = "dead" /\ cmd[c].op = "sinterstore")

\* k holds an empty set that nobody is about to delete.
LeftEmpty(k) ==
  /\ db[k] = SetVal({})
  /\ \A c \in Proc : heldMode[c] = "w" => Delete(k) \notin KeySet(todo[c])

\* SREM and SPOP delete the set they empty before they release its lock, and a
\* STORE command never stores an empty set. Only SMOVE, which does not delete
\* its source, leaves an empty set to the clients that lock the key next.
EmptySetsOnlyFromSMove ==
  [][\A k \in Key : LeftEmpty(k)' /\ ~LeftEmpty(k) =>
       \E c \in Proc : pc[c] = "body" /\ cmd[c].op = "smove" /\ cmd[c].keys[1] = k]_setVars

\* A set never takes the place of a string: SADD, SMOVE and the STORE commands
\* answer WRONGTYPE when their destination is a string, also when another
\* client has put it there meanwhile ("have to check again, because the key
\* may be set by other goroutine"). SUNIONSTORE checks again after it has
\* released the lock, so it may overwrite a string.
StringsKept ==
  [][\A k \in Key : db[k] = Str /\ IsSet(db'[k]) =>
       \E c \in Proc : pc[c] = "overwrite" /\ cmd[c].op = "sunionstore" /\ Dest(c) = k]_setVars

-----------------------------------------------------------------------------
(* Refinement of AtomicSets *)

\* The map as it will be when the accesses begun under the locks are done.
Settled ==
  [k \in Key |->
     LET writers == {c \in Proc : \E a \in KeySet(todo[c]) : a.k = k /\ a.do # "delttl"}
         access(c) == CHOOSE a \in KeySet(todo[c]) : a.k = k /\ a.do # "delttl"
     IN  IF writers = {} THEN db[k] ELSE access(CHOOSE c \in writers : TRUE).v]

\* The sets that STORE commands have computed and not yet stored.
Drafts ==
  [c \in Proc |-> IF pc[c] \in {"recheck", "redelete", "store", "unlocked"}
                 THEN <<result[c]>> ELSE <<>>]

Answers == [c \in Proc |-> IF pc[c] = "dead" THEN <<Panic>> ELSE reply[c]]

Atomic == INSTANCE AtomicSets WITH
  store <- Settled, call <- cmd, draft <- Drafts, answer <- Answers

\* While no deadline has passed, every set command takes effect in one step
\* between its call and its return, and a STORE in two: it reads all its sources
\* in one step and checks and sets its destination in another. SUNIONSTORE does
\* not, once it has released its lock in front of the second.
SetCommandsAtomic ==
  /\ Atomic!SetsInit
  /\ [][passed' = 0 /\ ~loose' => [Atomic!SetsNext]_(Atomic!setsVars)]_setVars
=============================================================================
