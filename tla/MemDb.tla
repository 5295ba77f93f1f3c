------------------------------- MODULE MemDb -------------------------------
(***************************************************************************)
(* The keyspace of pkg/memdb: the map db, the index ttl of deadlines, the  *)
(* handlers of the string and key commands (string.go, keys.go) running in *)
(* one goroutine per client connection, and the background goroutine that  *)
(* removes expired keys (db.go).                                           *)
(*                                                                         *)
(* A step is one access to db, to the ttl index or to the clock. The key   *)
(* locks are the ones of module KeyLocks, which dblock.go implements       *)
(* (module Locks): taking them is part of the first step of the section    *)
(* they protect and releasing them is part of its last step. db and ttl    *)
(* have their own short locks, so each access is atomic; neither the       *)
(* check for an expired key nor the background goroutine holds the lock    *)
(* of a key while it looks at ttl.                                         *)
(***************************************************************************)
EXTENDS KeyLocks, Values, Sequences

CONSTANTS
  Command,    \* the commands that clients send
  NoCommand,  \* no command is being executed
  NoTTL,      \* no entry in the index
  MaxTime,    \* bound: the clock stops here
  NumShards,  \* len(tm.shards)
  ShardFor    \* ShardFor[k]: the shard of the index that holds k, from 1

\* A command has an op (its name), the keys and the string values among its
\* arguments, its options and an integer argument.
ASSUME CommandAssumption ==
  /\ NoCommand \notin Command
  /\ \A c \in Command :
       /\ c.keys \in Seq(Key) /\ Len(c.keys) >= 1
       /\ c.vals \in Seq({v \in Value : IsBytes(v)})
       /\ c.arg \in Int
       /\ c.op = "rename" => Len(c.keys) = 2
       /\ c.op = "mset" => Len(c.vals) = Len(c.keys)
       /\ c.op \in {"set", "setnx", "setex", "append", "setrange"} => Len(c.vals) >= 1
       /\ "ex" \in c.opt => c.op = "set"

ASSUME NoTTLAssumption == NoTTL \notin Int
ASSUME TimeAssumption  == MaxTime \in Nat
ASSUME ShardAssumption ==
  /\ NumShards \in Nat \ {0}
  /\ ShardFor \in [Key -> 1 .. NumShards]

VARIABLES
  db,       \* db[k]: the value of k, or None
  ttl,      \* ttl[k]: the deadline of k in the index, or NoTTL
  now,      \* time.Now().Unix()
  pc,       \* pc[c]: where the goroutine of client c is
  cmd,      \* cmd[c]: the command it executes
  idx,      \* idx[c]: which of the command's keys it is at
  clk,      \* clk[c]: the clock value read by CheckTTL
  at,       \* at[c]: the deadline computed for SetTTL
  todo,     \* todo[c]: accesses left to do under the key locks
  res,      \* res[c]: replies so far, one for each key handled
  cpc,      \* where the background goroutine is
  cnow,     \* the clock value cleanup works with
  cshard,   \* the shard it is at
  doomed,   \* keys taken out of the index and not deleted yet
  volatile  \* history: keys a command that sets a deadline was sent for

clientVars == <<pc, cmd, idx, clk, at, todo, res>>
cleanVars  == <<cpc, cnow, cshard, doomed>>
vars == <<db, ttl, now, clientVars, cleanVars, volatile, heldKeys, heldMode>>

-----------------------------------------------------------------------------
(* Commands *)

\* Handlers that go through their keys one by one, each with its own lock.
LoopOps == {"del", "exists", "mget"}

\* Handlers that do not call CheckTTL.
UncheckedOps == {"mset", "setex", "ttl"}

\* Handlers that take an expired key for an absent one and stop there.
StopOps == {"get", "mget", "exists", "del", "expire", "persist", "type", "rename"}

ExpiredReply(op) ==
  CASE op \in {"get", "mget"} -> Nil
    [] op \in {"del", "exists", "expire", "persist"} -> Number(0)
    [] op = "type" -> TypeName("none")
    [] op = "rename" -> Error

SetsDeadline(c) == c.op \in {"expire", "setex"} \/ "ex" \in c.opt

KeysOf(c) == {c.keys[i] : i \in DOMAIN c.keys}

DeadlineKeys(c) == IF SetsDeadline(c) THEN KeysOf(c) ELSE {}

CurrentKey(c) == cmd[c].keys[idx[c]]

-----------------------------------------------------------------------------
(* Accesses under the key locks that are left for later steps *)

SetDb(k, v) == [do |-> "set", k |-> k, v |-> v]        \* m.db.Set
DeleteDb(k) == [do |-> "delete", k |-> k, v |-> None]  \* m.db.Delete
RemoveTTL(k) == [do |-> "removettl", k |-> k, v |-> None]
GetForTTL(k) == [do |-> "getforttl", k |-> k, v |-> None]  \* m.db.Get in SetTTL
PutTTL(k)   == [do |-> "putttl", k |-> k, v |-> None]  \* m.ttl.SetTTL
ReadTTL(k)  == [do |-> "readttl", k |-> k, v |-> None] \* m.ttl.ExpireAt in TTL

SetTTL(k) == <<GetForTTL(k), PutTTL(k)>>

\* Accesses that write db.
IsWrite(a) == a.do \in {"set", "delete"}

-----------------------------------------------------------------------------

Access ==
  [do : {"set", "delete", "removettl", "getforttl", "putttl", "readttl"},
   k : Key, v : Value]

MemDbTypeOK ==
  /\ db \in [Key -> Value]
  /\ ttl \in [Key -> Int \cup {NoTTL}]
  /\ now \in 0 .. MaxTime
  /\ pc \in [Proc -> {"idle", "check", "expired", "body", "run", "done"}]
  /\ cmd \in [Proc -> Command \cup {NoCommand}]
  /\ idx \in [Proc -> Nat]
  /\ clk \in [Proc -> 0 .. MaxTime]
  /\ at \in [Proc -> Int]
  /\ todo \in [Proc -> Seq(Access)]
  /\ res \in [Proc -> Seq(Reply)]
  /\ \A c \in Proc :
       IF pc[c] = "idle" THEN idx[c] = 1
       ELSE cmd[c] \in Command /\ idx[c] \in 1 .. Len(cmd[c].keys)
  /\ cpc \in {"sleep", "collect", "delete"}
  /\ cnow \in 0 .. MaxTime
  /\ cshard \in 1 .. NumShards
  /\ doomed \in SUBSET Key
  /\ volatile \in SUBSET Key
  /\ heldKeys \in [Proc -> SUBSET Key]
  /\ heldMode \in [Proc -> {"none", "r", "w"}]

MemDbInit ==
  /\ db = [k \in Key |-> None]
  /\ ttl = [k \in Key |-> NoTTL]
  /\ now = 0
  /\ pc = [c \in Proc |-> "idle"]
  /\ cmd = [c \in Proc |-> NoCommand]
  /\ idx = [c \in Proc |-> 1]
  /\ clk = [c \in Proc |-> 0]
  /\ at = [c \in Proc |-> 0]
  /\ todo = [c \in Proc |-> <<>>]
  /\ res = [c \in Proc |-> <<>>]
  /\ cpc = "sleep" /\ cnow = 0 /\ cshard = 1 /\ doomed = {}
  /\ volatile = {}
  /\ KeyLocksInit

Tick ==
  /\ now < MaxTime
  /\ now' = now + 1
  /\ UNCHANGED <<db, ttl, clientVars, cleanVars, volatile, keyLockVars>>

-----------------------------------------------------------------------------
(* A client's goroutine outside the key locks *)

\* handler.go hands the command to ExecCommand. The handlers of EXPIRE and
\* SETEX compute the deadline at once; CheckTTL starts by reading the clock.
ExecCommand(c, command) ==
  /\ pc[c] = "idle"
  /\ LET checked == command.op \notin UncheckedOps IN
       /\ pc' = [pc EXCEPT ![c] = IF checked THEN "check" ELSE "body"]
       /\ clk' = [clk EXCEPT ![c] = IF checked THEN now ELSE 0]
  /\ cmd' = [cmd EXCEPT ![c] = command]
  /\ at' = [at EXCEPT ![c] = IF command.op \in {"expire", "setex"}
                             THEN now + command.arg ELSE 0]
  /\ volatile' = volatile \cup DeadlineKeys(command)
  /\ UNCHANGED <<db, ttl, now, idx, todo, res, cleanVars, keyLockVars>>

\* The reply goes to the client.
Return(c) ==
  /\ pc[c] = "done"
  /\ pc' = [pc EXCEPT ![c] = "idle"]
  /\ cmd' = [cmd EXCEPT ![c] = NoCommand]
  /\ idx' = [idx EXCEPT ![c] = 1]
  /\ at' = [at EXCEPT ![c] = 0]
  /\ res' = [res EXCEPT ![c] = <<>>]
  /\ UNCHANGED <<db, ttl, now, clk, todo, cleanVars, volatile, keyLockVars>>

\* Wrong: TTLManager.CheckTTL that takes a missing entry for a deadline of 0.
CheckTTLNoEntry(c) ==
  /\ pc[c] = "check"
  /\ LET k == CurrentKey(c)
         expired == ttl[k] = NoTTL \/ ttl[k] <= clk[c] IN
       /\ pc' = [pc EXCEPT ![c] = IF expired THEN "expired" ELSE "body"]
       /\ ttl' = IF expired THEN [ttl EXCEPT ![k] = NoTTL] ELSE ttl
  /\ clk' = [clk EXCEPT ![c] = 0]
  /\ UNCHANGED <<db, now, cmd, idx, at, todo, res, cleanVars, volatile, keyLockVars>>

\* TTLManager.CheckTTL: an expired key leaves the index here and the map later.
CheckTTL(c) ==
  /\ pc[c] = "check"
  /\ LET k == CurrentKey(c)
         expired == ttl[k] # NoTTL /\ ttl[k] <= clk[c] IN
       /\ pc' = [pc EXCEPT ![c] = IF expired THEN "expired" ELSE "body"]
       /\ ttl' = IF expired THEN [ttl EXCEPT ![k] = NoTTL] ELSE ttl
  /\ clk' = [clk EXCEPT ![c] = 0]
  /\ UNCHANGED <<db, now, cmd, idx, at, todo, res, cleanVars, volatile, keyLockVars>>

\* The handler is finished with the current key: a loop goes on to the next.
NextKey(c) ==
  LET again == cmd[c].op \in LoopOps /\ idx[c] < Len(cmd[c].keys) IN
    /\ pc' = [pc EXCEPT ![c] = IF again THEN "check" ELSE "done"]
    /\ idx' = [idx EXCEPT ![c] = IF again THEN @ + 1 ELSE @]
    /\ clk' = [clk EXCEPT ![c] = IF again THEN now ELSE 0]

\* MemDb.CheckTTL after an expired key was found: Lock, Delete, UnLock. The
\* lock is free again in the same step.
DeleteExpired(c) ==
  /\ pc[c] = "expired"
  /\ CanAcquire(c, {CurrentKey(c)}, "w")
  /\ db' = [db EXCEPT ![CurrentKey(c)] = None]
  /\ \/ /\ cmd[c].op \in StopOps
        /\ res' = [res EXCEPT ![c] = Append(@, ExpiredReply(cmd[c].op))]
        /\ NextKey(c)
     \/ /\ cmd[c].op \notin StopOps
        /\ pc' = [pc EXCEPT ![c] = "body"]
        /\ UNCHANGED <<idx, clk, res>>
  /\ UNCHANGED <<ttl, now, cmd, at, todo, cleanVars, volatile, keyLockVars>>

-----------------------------------------------------------------------------
(* The handlers, from the lock on *)

InBody(c, op) == pc[c] = "body" /\ cmd[c].op = op

\* The section of a handler: take the locks of ks, answer r (a sequence of at
\* most one reply) and leave the accesses rest for later steps. With no access
\* left the locks are released in the same step.
Section(c, ks, m, r, rest) ==
  /\ res' = [res EXCEPT ![c] = @ \o r]
  /\ todo' = [todo EXCEPT ![c] = rest]
  /\ \/ /\ rest = <<>>
        /\ CanAcquire(c, ks, m)
        /\ NextKey(c)
        /\ UNCHANGED keyLockVars
     \/ /\ rest # <<>>
        /\ Acquire(c, ks, m)
        /\ pc' = [pc EXCEPT ![c] = "run"]
        /\ UNCHANGED <<idx, clk>>
  /\ UNCHANGED <<now, cmd, at, cleanVars, volatile>>

\* Sections that read the value v of the current key in their first step.
ReadSection(c, reply) ==
  /\ Section(c, {CurrentKey(c)}, "r", <<reply>>, <<>>)
  /\ UNCHANGED <<db, ttl>>

UpdateSection(c, reply, rest) ==
  /\ Section(c, {CurrentKey(c)}, "w", <<reply>>, rest)
  /\ UNCHANGED <<db, ttl>>

GetString(c) ==
  /\ InBody(c, "get")
  /\ LET v == db[CurrentKey(c)] IN
       ReadSection(c, IF v = None THEN Nil ELSE IF IsBytes(v) THEN v ELSE WrongType)

\* The loop of MGET: a value of another type reads as nil.
MGetString(c) ==
  /\ InBody(c, "mget")
  /\ LET v == db[CurrentKey(c)] IN ReadSection(c, IF IsBytes(v) THEN v ELSE Nil)

StrLenString(c) ==
  /\ InBody(c, "strlen")
  /\ LET v == db[CurrentKey(c)] IN
       ReadSection(c, IF v = None THEN Nil
                      ELSE IF IsBytes(v) THEN Number(Length(v)) ELSE WrongType)

ExistsKey(c) ==
  /\ InBody(c, "exists")
  /\ ReadSection(c, Number(IF db[CurrentKey(c)] = None THEN 0 ELSE 1))

TypeKey(c) ==
  /\ InBody(c, "type")
  /\ LET v == db[CurrentKey(c)] IN
       ReadSection(c, TypeName(IF IsBytes(v) THEN "string" ELSE v.t))

\* TTL reads the map, then the index, under one read lock.
TtlKey(c) ==
  /\ InBody(c, "ttl")
  /\ LET k == CurrentKey(c) IN
       IF db[k] = None THEN ReadSection(c, Number(-2))
       ELSE /\ Section(c, {k}, "r", <<>>, <<ReadTTL(k)>>)
            /\ UNCHANGED <<db, ttl>>

\* SET with its options; a conflict of options is found before the lock.
SetString(c) ==
  /\ InBody(c, "set")
  /\ LET k        == CurrentKey(c)
         opt      == cmd[c].opt
         old      == db[k]
         conflict == {"nx", "xx"} \subseteq opt \/ {"ex", "keepttl"} \subseteq opt
         write    == /\ "nx" \in opt => old = None
                     /\ "xx" \in opt => old # None
         reply    == IF "get" \in opt THEN IF old = None THEN Nil ELSE old
                     ELSE IF write THEN Ok ELSE Nil
         rest     == (IF write THEN <<SetDb(k, cmd[c].vals[1])>> ELSE <<>>)
                     \o (IF "keepttl" \in opt THEN <<>> ELSE <<RemoveTTL(k)>>)
                     \o (IF "ex" \in opt THEN SetTTL(k) ELSE <<>>)
     IN \/ /\ conflict
           /\ res' = [res EXCEPT ![c] = <<Error>>]
           /\ NextKey(c)
           /\ UNCHANGED <<db, ttl, now, cmd, at, todo, cleanVars, volatile, keyLockVars>>
        \/ /\ ~conflict
           /\ old = None \/ IsBytes(old)
           /\ UpdateSection(c, reply, rest)
        \/ /\ ~conflict
           /\ old # None /\ ~IsBytes(old)
           /\ UpdateSection(c, WrongType, <<>>)

\* SetIfNotExist is one access.
SetNxString(c) ==
  /\ InBody(c, "setnx")
  /\ LET k == CurrentKey(c) IN
       /\ db' = IF db[k] = None THEN [db EXCEPT ![k] = cmd[c].vals[1]] ELSE db
       /\ Section(c, {k}, "w", <<Number(IF db[k] = None THEN 1 ELSE 0)>>, <<>>)
  /\ UNCHANGED ttl

SetExString(c) ==
  /\ InBody(c, "setex")
  /\ LET k == CurrentKey(c) IN
       UpdateSection(c, Ok, <<SetDb(k, cmd[c].vals[1])>> \o SetTTL(k))

\* Wrong: MSET that locks one key only, the first.
MSetFirstLocked(c) ==
  /\ InBody(c, "mset")
  /\ LET keys == cmd[c].keys
         rest == [j \in 1 .. 2 * Len(keys) |->
                    IF j % 2 = 1 THEN RemoveTTL(keys[(j + 1) \div 2])
                    ELSE SetDb(keys[j \div 2], cmd[c].vals[j \div 2])]
     IN Section(c, {keys[1]}, "w", <<Ok>>, rest)
  /\ UNCHANGED <<db, ttl>>

MSetString(c) ==
  /\ InBody(c, "mset")
  /\ LET keys == cmd[c].keys
         rest == [j \in 1 .. 2 * Len(keys) |->
                    IF j % 2 = 1 THEN RemoveTTL(keys[(j + 1) \div 2])
                    ELSE SetDb(keys[j \div 2], cmd[c].vals[j \div 2])]
     IN Section(c, KeysOf(cmd[c]), "w", <<Ok>>, rest)
  /\ UNCHANGED <<db, ttl>>

\* INCR, INCRBY, DECR, DECRBY: read, add with wrap-around, write back. The
\* code is the same four times, an absent key counts as 0.
AddTo(c, delta) ==
  LET k == CurrentKey(c)
      v == db[k]
      sum == AddInt64(IF v = None THEN 0 ELSE v.n, delta)
  IN \/ /\ v = None \/ v.t = "int"
        /\ UpdateSection(c, Number(sum), <<SetDb(k, IntVal(sum))>>)
     \/ /\ v.t = "text"
        /\ UpdateSection(c, Error, <<>>)
     \/ /\ v # None /\ ~IsBytes(v)
        /\ UpdateSection(c, WrongType, <<>>)

IncrString(c)   == InBody(c, "incr") /\ AddTo(c, 1)

IncrByString(c) == InBody(c, "incrby") /\ AddTo(c, cmd[c].arg)

DecrString(c)   == InBody(c, "decr") /\ AddTo(c, -1)

DecrByString(c) == InBody(c, "decrby") /\ AddTo(c, -cmd[c].arg)

\* APPEND and SETRANGE with a text that is not numeric: neither is the result,
\* which has n bytes.
BuildText(c, n) ==
  LET k == CurrentKey(c)
      v == db[k]
  IN \/ /\ v = None \/ IsBytes(v)
        /\ UpdateSection(c, Number(Text(n).n), <<SetDb(k, Text(n))>>)
     \/ /\ v # None /\ ~IsBytes(v)
        /\ UpdateSection(c, WrongType, <<>>)

AppendString(c) ==
  /\ InBody(c, "append")
  /\ BuildText(c, Length(db[CurrentKey(c)]) + Length(cmd[c].vals[1]))

SetRangeString(c) ==
  /\ InBody(c, "setrange")
  /\ LET old      == Length(db[CurrentKey(c)])
         required == cmd[c].arg + Length(cmd[c].vals[1])
     IN BuildText(c, IF required < old THEN old ELSE required)

\* SADD of one member, the same in every command: the set is created when the
\* key is absent and changed in place when it is there.
SAddSet(c) ==
  /\ InBody(c, "sadd")
  /\ LET k == CurrentKey(c) IN
       \/ /\ db[k] = None
          /\ UpdateSection(c, Number(1), <<SetDb(k, Coll)>>)
       \/ /\ db[k] = Coll
          /\ UpdateSection(c, Number(0), <<>>)
       \/ /\ IsBytes(db[k])
          /\ UpdateSection(c, WrongType, <<>>)

DelKey(c) ==
  /\ InBody(c, "del")
  /\ LET k == CurrentKey(c) IN
       /\ db' = [db EXCEPT ![k] = None]
       /\ Section(c, {k}, "w", <<Number(IF db[k] = None THEN 0 ELSE 1)>>, <<RemoveTTL(k)>>)
  /\ UNCHANGED ttl

\* EXPIRE reads the index and decides; the answer comes from SetTTL.
ExpireKey(c) ==
  /\ InBody(c, "expire")
  /\ LET k      == CurrentKey(c)
         opt    == cmd[c].opt
         hasTTL == ttl[k] # NoTTL
         decide == /\ "nx" \in opt => ~hasTTL
                   /\ "xx" \in opt => hasTTL
                   /\ "gt" \in opt => hasTTL /\ at[c] > ttl[k]
                   /\ "lt" \in opt => hasTTL /\ at[c] < ttl[k]
     IN \/ /\ opt \subseteq {"nx", "xx", "gt", "lt"} /\ decide
           /\ Section(c, {k}, "w", <<>>, SetTTL(k))
           /\ UNCHANGED <<db, ttl>>
        \/ /\ opt \subseteq {"nx", "xx", "gt", "lt"} /\ ~decide
           /\ UpdateSection(c, Number(0), <<>>)
        \/ /\ ~(opt \subseteq {"nx", "xx", "gt", "lt"})
           /\ UpdateSection(c, Error, <<>>)

\* PERSIST answers 1 whether or not there was a deadline.
PersistKey(c) ==
  /\ InBody(c, "persist")
  /\ LET k == CurrentKey(c) IN
       /\ ttl' = [ttl EXCEPT ![k] = NoTTL]
       /\ Section(c, {k}, "w", <<Number(1)>>, <<>>)
  /\ UNCHANGED db

\* Wrong: RENAME that locks the old name only.
RenameOldLocked(c) ==
  /\ InBody(c, "rename")
  /\ LET old  == cmd[c].keys[1]
         new  == cmd[c].keys[2]
         rest == IF db[old] = None THEN <<>>
                 ELSE <<DeleteDb(old), RemoveTTL(old), DeleteDb(new), RemoveTTL(new),
                        SetDb(new, db[old])>>
     IN Section(c, {old}, "w", <<IF db[old] = None THEN Error ELSE Ok>>, rest)
  /\ UNCHANGED <<db, ttl>>

RenameKey(c) ==
  /\ InBody(c, "rename")
  /\ LET old  == cmd[c].keys[1]
         new  == cmd[c].keys[2]
         rest == IF db[old] = None THEN <<>>
                 ELSE <<DeleteDb(old), RemoveTTL(old), DeleteDb(new), RemoveTTL(new),
                        SetDb(new, db[old])>>
     IN Section(c, {old, new}, "w", <<IF db[old] = None THEN Error ELSE Ok>>, rest)
  /\ UNCHANGED <<db, ttl>>

-----------------------------------------------------------------------------
(* One more access of a section; the last one releases the locks *)

\* The accesses left after the first of todo[c] found the state as it is: SetTTL
\* stops at an absent key.
Rest(c) ==
  LET a == Head(todo[c]) IN
    IF a.do = "getforttl" /\ db[a.k] = None THEN <<>> ELSE Tail(todo[c])

\* The reply that an access gives, if it gives one.
AccessReply(c) ==
  LET a == Head(todo[c]) IN
    IF a.do = "readttl"
    THEN <<Number(IF ttl[a.k] = NoTTL THEN -1 ELSE ttl[a.k] - now)>>
    ELSE IF a.do = "getforttl" /\ cmd[c].op = "expire"
    THEN <<Number(IF db[a.k] = None THEN 0 ELSE 1)>>
    ELSE <<>>

\* Wrong: a section whose last access does not release the locks.
RunAccessKeepsLocks(c) ==
  /\ pc[c] = "run"
  /\ LET a == Head(todo[c]) IN
       /\ db' = IF IsWrite(a) THEN [db EXCEPT ![a.k] = a.v] ELSE db
       /\ ttl' = IF a.do = "removettl" THEN [ttl EXCEPT ![a.k] = NoTTL]
                 ELSE IF a.do = "putttl" THEN [ttl EXCEPT ![a.k] = at[c]] ELSE ttl
       /\ at' = IF a.do = "getforttl" /\ cmd[c].op = "set"
                THEN [at EXCEPT ![c] = now + cmd[c].arg] ELSE at
  /\ res' = [res EXCEPT ![c] = @ \o AccessReply(c)]
  /\ todo' = [todo EXCEPT ![c] = Rest(c)]
  /\ \/ Rest(c) = <<>> /\ NextKey(c) /\ UNCHANGED keyLockVars
     \/ Rest(c) # <<>> /\ UNCHANGED <<pc, idx, clk, keyLockVars>>
  /\ UNCHANGED <<now, cmd, cleanVars, volatile>>

\* The next access of the section.
RunAccess(c) ==
  /\ pc[c] = "run"
  /\ LET a == Head(todo[c]) IN
       /\ db' = IF IsWrite(a) THEN [db EXCEPT ![a.k] = a.v] ELSE db
       /\ ttl' = IF a.do = "removettl" THEN [ttl EXCEPT ![a.k] = NoTTL]
                 ELSE IF a.do = "putttl" THEN [ttl EXCEPT ![a.k] = at[c]] ELSE ttl
       \* SET ... EX reads the clock when it calls SetTTL.
       /\ at' = IF a.do = "getforttl" /\ cmd[c].op = "set"
                THEN [at EXCEPT ![c] = now + cmd[c].arg] ELSE at
  /\ res' = [res EXCEPT ![c] = @ \o AccessReply(c)]
  /\ todo' = [todo EXCEPT ![c] = Rest(c)]
  /\ \/ Rest(c) = <<>> /\ Release(c) /\ NextKey(c)
     \/ Rest(c) # <<>> /\ UNCHANGED <<pc, idx, clk, keyLockVars>>
  /\ UNCHANGED <<now, cmd, cleanVars, volatile>>

-----------------------------------------------------------------------------
(* The background goroutine *)

\* The timer fires: cleanup reads the clock once for all shards.
CleanupStart ==
  /\ cpc = "sleep"
  /\ cpc' = "collect" /\ cnow' = now /\ cshard' = 1
  /\ UNCHANGED <<db, ttl, now, clientVars, doomed, volatile, keyLockVars>>

\* Wrong: collectExpiredAndNext that keeps an item whose deadline is just reached.
CollectPassed ==
  /\ cpc = "collect"
  /\ LET expired == {k \in Key : ShardFor[k] = cshard /\ ttl[k] # NoTTL /\ ttl[k] < cnow}
     IN /\ doomed' = expired
        /\ ttl' = [k \in Key |-> IF k \in expired THEN NoTTL ELSE ttl[k]]
  /\ cpc' = "delete"
  /\ UNCHANGED <<db, now, clientVars, cnow, cshard, volatile, keyLockVars>>

\* collectExpiredAndNext: the expired items of one shard leave the index.
CollectExpired ==
  /\ cpc = "collect"
  /\ LET expired == {k \in Key : ShardFor[k] = cshard /\ ttl[k] # NoTTL /\ ttl[k] <= cnow}
     IN /\ doomed' = expired
        /\ ttl' = [k \in Key |-> IF k \in expired THEN NoTTL ELSE ttl[k]]
  /\ cpc' = "delete"
  /\ UNCHANGED <<db, now, clientVars, cnow, cshard, volatile, keyLockVars>>

\* tm.db.Delete of a collected key, with no key lock.
CleanupDelete ==
  /\ cpc = "delete"
  /\ \E k \in doomed :
       /\ db' = [db EXCEPT ![k] = None]
       /\ doomed' = doomed \ {k}
  /\ UNCHANGED <<ttl, now, clientVars, cpc, cnow, cshard, volatile, keyLockVars>>

\* On to the next shard, or back to the timer after the last one.
CleanupNext ==
  /\ cpc = "delete" /\ doomed = {}
  /\ IF cshard < NumShards
     THEN cpc' = "collect" /\ cshard' = cshard + 1 /\ UNCHANGED cnow
     ELSE cpc' = "sleep" /\ cshard' = 1 /\ cnow' = 0
  /\ UNCHANGED <<db, ttl, now, clientVars, doomed, volatile, keyLockVars>>

-----------------------------------------------------------------------------

Handler(c) ==
  \/ GetString(c) \/ MGetString(c) \/ StrLenString(c)
  \/ ExistsKey(c) \/ TypeKey(c) \/ TtlKey(c)
  \/ SetString(c) \/ SetNxString(c) \/ SetExString(c) \/ MSetString(c)
  \/ IncrString(c) \/ IncrByString(c) \/ DecrString(c) \/ DecrByString(c)
  \/ AppendString(c) \/ SetRangeString(c) \/ SAddSet(c)
  \/ DelKey(c) \/ ExpireKey(c) \/ PersistKey(c) \/ RenameKey(c)

ClientStep(c) == CheckTTL(c) \/ DeleteExpired(c) \/ Handler(c) \/ RunAccess(c) \/ Return(c)

Cleanup == CleanupStart \/ CollectExpired \/ CleanupDelete \/ CleanupNext

MemDbNext ==
  \/ Tick
  \/ \E c \in Proc : ClientStep(c) \/ \E command \in Command : ExecCommand(c, command)
  \/ Cleanup

MemDbSpec == MemDbInit /\ [][MemDbNext]_vars

(***************************************************************************)
(* Goroutines are scheduled and the timer of the background goroutine      *)
(* fires again and again. A handler gets the key locks it waits for even   *)
(* when others take them in between (EveryCallReturns of module Locks),    *)
(* which is strong fairness of the steps that take them. No client has to  *)
(* send commands and the clock need not move.                              *)
(***************************************************************************)
MemDbFairness ==
  /\ WF_vars(Cleanup)
  /\ \A c \in Proc : /\ WF_vars(ClientStep(c))
                    /\ SF_vars(DeleteExpired(c) \/ Handler(c))

MemDbFairSpec == MemDbSpec /\ MemDbFairness

-----------------------------------------------------------------------------
(* Properties *)

\* A section of a handler touches only keys whose locks its goroutine holds,
\* for writing unless it only reads the index (TTL), and no other goroutine is
\* inside a section with one of these keys unless both only read. A goroutine
\* holds locks exactly while it has something left to do under them.
SectionsExclusive ==
  \A c \in Proc :
    /\ pc[c] = "run" <=> todo[c] # <<>>
    /\ pc[c] = "run" <=> heldMode[c] # "none"
    /\ heldMode[c] = "none" => heldKeys[c] = {}
    /\ \A i \in DOMAIN todo[c] :
         /\ todo[c][i].k \in heldKeys[c]
         /\ todo[c][i].do = "readttl" \/ heldMode[c] = "w"
    /\ \A d \in Proc \ {c} :
         heldKeys[c] \cap heldKeys[d] # {} => heldMode[c] = "r" /\ heldMode[d] = "r"

\* Everything that can make a key vanish goes back to a command that set a
\* deadline for that key: entries of the index and entries about to be made,
\* goroutines that found the key expired, keys the cleanup has collected. The
\* rest of a section deletes a key only for RENAME.
OnlyVolatileExpire ==
  /\ doomed \subseteq volatile
  /\ \A k \in Key : ttl[k] # NoTTL => k \in volatile
  /\ \A c \in Proc :
       /\ pc[c] = "expired" => CurrentKey(c) \in volatile
       /\ pc[c] # "idle" => DeadlineKeys(cmd[c]) \subseteq volatile
       /\ \A i \in DOMAIN todo[c] :
            /\ todo[c][i].do \in {"getforttl", "putttl"} => todo[c][i].k \in volatile
            /\ todo[c][i].do = "delete" =>
                 cmd[c].op = "rename" /\ todo[c][i].k \in KeysOf(cmd[c])
            /\ todo[c][i].do = "set" => todo[c][i].v # None

\* c is inside a handler that removes k on request.
Removes(c, k) ==
  /\ pc[c] \in {"body", "run"}
  /\ cmd[c].op \in {"del", "rename"}
  /\ k \in KeysOf(cmd[c])

\* A key that no command gave a deadline leaves the map only through a DEL or
\* RENAME of that key: neither CheckTTL nor the background goroutine of db.go
\* ever deletes it.
PersistentKeysStay ==
  [][\A k \in Key \ volatile' :
       db[k] # None /\ db'[k] = None => \E c \in Proc : Removes(c, k)]_vars

\* Every command is answered, whatever the other clients and the background
\* goroutine do: no handler waits for a key lock forever.
EveryCommandAnswered == \A c \in Proc : pc[c] # "idle" ~> pc[c] = "idle"

\* Nothing is under way to remove k: its deadline is ahead, or it has none
\* and nobody who found it expired has still to delete it.
Settled(k) ==
  \/ ttl[k] # NoTTL /\ ttl[k] > now
  \/ /\ ttl[k] = NoTTL
     /\ k \notin doomed
     /\ \A c \in Proc : pc[c] = "expired" => CurrentKey(c) # k

\* An expired key does not stay in the map for good when no command touches
\* it: once its deadline is reached, the background goroutine deletes it
\* unless a command gives it a new deadline or a new value first.
ExpiredKeysGo ==
  \A k \in Key :
    (ttl[k] # NoTTL /\ ttl[k] <= now) ~> (db[k] = None \/ Settled(k))
=============================================================================
