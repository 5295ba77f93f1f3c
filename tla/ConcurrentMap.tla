--------------------------- MODULE ConcurrentMap ---------------------------
(***************************************************************************)
(* The sharded map of pkg/memdb/concurrentmap.go. Every shard is a linked  *)
(* list that becomes a red-black tree when it grows to TreeifyThreshold    *)
(* and a list again when it shrinks to UntreeifyThreshold; a reader-writer *)
(* mutex protects it. The number of keys of all shards is one atomic       *)
(* counter that Len and Keys read without a lock.                          *)
(*                                                                         *)
(* A step is what one goroutine does between two points where another one  *)
(* can see the difference: a whole read under a read lock, and the change  *)
(* of the shard, the change of the counter and the conversion with the     *)
(* unlock under a write lock. The red-black tree is a library (gods); it   *)
(* is the sequence of its entries in ascending key order.                  *)
(***************************************************************************)
EXTENDS Integers, FiniteSets, Sequences

CONSTANTS
  Proc,     \* goroutines that use the map
  Key,      \* keys, integers for the order of the tree
  Val,      \* values
  NoVal,    \* no value
  NoCall,   \* a goroutine is outside the map
  NumShards,           \* len(m.shards)
  ShardOf,             \* ShardOf[k]: getKeyPos, from 1
  TreeifyThreshold,
  UntreeifyThreshold

Calls ==
  [op : {"set", "get", "delete", "setifexist", "setifnotexist"}, key : Key, val : Val]

Scan == [op |-> "keys"]

ASSUME MapAssumption ==
  /\ Key \subseteq Int
  /\ NumShards \in Nat \ {0}
  /\ ShardOf \in [Key -> 1 .. NumShards]
  /\ UntreeifyThreshold \in Nat /\ TreeifyThreshold \in Nat
  /\ UntreeifyThreshold < TreeifyThreshold
  /\ NoVal \notin Val
  /\ NoCall # Scan /\ NoCall \notin Calls

VARIABLES
  kind,     \* kind[s]: "list" or "tree"
  data,     \* data[s]: the entries, head of the list or least key first
  writer,   \* writer[s]: goroutines holding the write lock of s (at most one)
  count,    \* m.count
  pc,       \* pc[p]: where p is
  call,     \* call[p]: its call [op, key, val], or NoCall
  ret,      \* ret[p]: the result so far, <<>> or a sequence of one
  diff,     \* diff[p]: what p has still to add to count
  at,       \* at[p]: the shard that Keys visits next
  keys,     \* keys[p]: what Keys has collected
  stay,     \* history: keys in the map since p called Keys
  seen      \* history: keys in the map at some time since then

shardVars == <<kind, data, writer>>
scanVars  == <<at, keys, stay, seen>>
vars == <<shardVars, count, pc, call, ret, diff, scanVars>>

Shard == 1 .. NumShards

Entry == [key : Key, val : Val]

-----------------------------------------------------------------------------
(* The two data structures *)

Has(s, k) == \E i \in DOMAIN s : s[i].key = k

\* The first node with key k.
NodeOf(s, k) == CHOOSE i \in DOMAIN s :
                  s[i].key = k /\ \A j \in DOMAIN s : s[j].key = k => i <= j

Lookup(s, k) == IF Has(s, k) THEN s[NodeOf(s, k)].val ELSE NoVal

\* linkedList.Put: in place, or a new head.
ListPut(s, e) == IF Has(s, e.key) THEN [s EXCEPT ![NodeOf(s, e.key)] = e] ELSE <<e>> \o s

\* The first place with a key that is not less than k, or the one behind the end.
PlaceOf(s, k) == CHOOSE n \in 1 .. Len(s) + 1 :
                   /\ n <= Len(s) => s[n].key >= k
                   /\ \A i \in 1 .. n - 1 : s[i].key < k

\* treeWrapper.Put: in place, or inserted in order.
TreePut(s, e) ==
  LET n == PlaceOf(s, e.key)
  IN  IF Has(s, e.key) THEN [s EXCEPT ![NodeOf(s, e.key)] = e]
      ELSE SubSeq(s, 1, n - 1) \o <<e>> \o SubSeq(s, n, Len(s))

\* Put of dataStructure.
PutInto(to, s, e) == IF to = "list" THEN ListPut(s, e) ELSE TreePut(s, e)

Put(s, k, v) == PutInto(kind[s], data[s], [key |-> k, val |-> v])

\* Remove of either structure.
RemoveKey(s, k) ==
  LET old == data[s]
      n   == NodeOf(old, k)
  IN  IF Has(old, k) THEN SubSeq(old, 1, n - 1) \o SubSeq(old, n + 1, Len(old)) ELSE old

\* A new structure, with the entries of s put into it one by one.
Refilled(to, s) ==
  LET new[n \in 0 .. Len(s)] == IF n = 0 THEN <<>> ELSE PutInto(to, new[n - 1], s[n])
  IN  new[Len(s)]

\* From the head of the list on.
DrainIntoTree(s) == Refilled("tree", s)

\* Delete's way back goes through the tree in order and puts each entry at
\* the head of a list.
IntoList(s) == Refilled("list", s)

-----------------------------------------------------------------------------

Present == UNION {{data[s][i].key : i \in DOMAIN data[s]} : s \in Shard}

MapInit ==
  /\ kind = [s \in Shard |-> "list"] /\ data = [s \in Shard |-> <<>>]
  /\ writer = [s \in Shard |-> {}]
  /\ count = 0
  /\ pc = [p \in Proc |-> "idle"] /\ call = [p \in Proc |-> NoCall]
  /\ ret = [p \in Proc |-> <<>>] /\ diff = [p \in Proc |-> 0]
  /\ at = [p \in Proc |-> 1] /\ keys = [p \in Proc |-> <<>>]
  /\ stay = [p \in Proc |-> {}] /\ seen = [p \in Proc |-> {}]

Goto(p, label) == pc' = [pc EXCEPT ![p] = label]

Call(p, c) ==
  /\ pc[p] = "idle"
  /\ Goto(p, "called")
  /\ call' = [call EXCEPT ![p] = c]
  /\ UNCHANGED <<shardVars, count, ret, diff, scanVars>>

Return(p) ==
  /\ pc[p] = "done"
  /\ Goto(p, "idle")
  /\ call' = [call EXCEPT ![p] = NoCall]
  /\ ret' = [ret EXCEPT ![p] = <<>>]
  /\ at' = [at EXCEPT ![p] = 1] /\ keys' = [keys EXCEPT ![p] = <<>>]
  /\ stay' = [stay EXCEPT ![p] = {}] /\ seen' = [seen EXCEPT ![p] = {}]
  /\ UNCHANGED <<shardVars, count, diff>>

\* p is to start its call op on shard s.
Starts(p, ops, label) == pc[p] = label /\ call[p] # Scan /\ call[p].op \in ops

\* RLock succeeds: no writer is inside.
Readable(s) == writer[s] = {}

Finish(p, result) ==
  /\ Goto(p, "done")
  /\ ret' = [ret EXCEPT ![p] = <<result>>]

-----------------------------------------------------------------------------
(* Reads of one shard *)

Get(p) ==
  /\ Starts(p, {"get"}, "called")
  /\ LET s == ShardOf[call[p].key] IN
       /\ Readable(s)
       /\ Finish(p, Lookup(data[s], call[p].key))
  /\ UNCHANGED <<shardVars, count, call, diff, scanVars>>

\* SetIfNotExist looks with the read lock first.
CheckFirst(p) ==
  /\ Starts(p, {"setifnotexist"}, "called")
  /\ LET s == ShardOf[call[p].key] IN
       /\ Readable(s)
       /\ IF Has(data[s], call[p].key) THEN Finish(p, 0)
          ELSE Goto(p, "recheck") /\ UNCHANGED ret
  /\ UNCHANGED <<shardVars, count, call, diff, scanVars>>

-----------------------------------------------------------------------------
(* Writes: the shard, the counter, the conversion *)

\* The shard s changes to new and p answers result. With a key more or less
\* the write lock is kept for the counter (change # 0), otherwise it is free
\* again at the end of the step. Scans learn about keys that come and go.
Change(p, s, new, change, result) ==
  /\ Readable(s)
  /\ data' = [data EXCEPT ![s] = new]
  /\ ret' = [ret EXCEPT ![p] = <<result>>]
  /\ IF change = 0 THEN Goto(p, "done") /\ UNCHANGED <<writer, diff>>
     ELSE /\ Goto(p, "count")
          /\ writer' = [writer EXCEPT ![s] = {p}]
          /\ diff' = [diff EXCEPT ![p] = change]
  /\ stay' = [q \in Proc |-> IF change = -1 THEN stay[q] \ {call[p].key} ELSE stay[q]]
  /\ seen' = [q \in Proc |-> IF change = 1 /\ pc[q] = "scan"
                             THEN seen[q] \cup {call[p].key} ELSE seen[q]]
  /\ UNCHANGED <<kind, count, call, at, keys>>

Set(p) ==
  /\ Starts(p, {"set"}, "called")
  /\ LET k == call[p].key
         s == ShardOf[k]
         isNew == ~Has(data[s], k)
     IN Change(p, s, Put(s, k, call[p].val), IF isNew THEN 1 ELSE 0, IF isNew THEN 1 ELSE 0)

SetIfExist(p) ==
  /\ Starts(p, {"setifexist"}, "called")
  /\ LET k == call[p].key
         s == ShardOf[k]
     IN \/ Has(data[s], k) /\ Change(p, s, Put(s, k, call[p].val), 0, 1)
        \/ ~Has(data[s], k) /\ Change(p, s, data[s], 0, 0)

\* Wrong: SetIfNotExist that trusts its first look.
NoSecondLook(p) ==
  /\ Starts(p, {"setifnotexist"}, "recheck")
  /\ LET k == call[p].key
         s == ShardOf[k]
     IN Change(p, s, Put(s, k, call[p].val), IF Has(data[s], k) THEN 0 ELSE 1, 1)

\* The second look of SetIfNotExist, with the write lock.
SetIfNotExist(p) ==
  /\ Starts(p, {"setifnotexist"}, "recheck")
  /\ LET k == call[p].key
         s == ShardOf[k]
     IN \/ ~Has(data[s], k) /\ Change(p, s, Put(s, k, call[p].val), 1, 1)
        \/ Has(data[s], k) /\ Change(p, s, data[s], 0, 0)

Delete(p) ==
  /\ Starts(p, {"delete"}, "called")
  /\ LET k == call[p].key
         s == ShardOf[k]
         found == Has(data[s], k)
     IN Change(p, s, RemoveKey(s, k), IF found THEN -1 ELSE 0, IF found THEN 1 ELSE 0)

\* Wrong: a counter that every Set increases.
AddOne(p) ==
  /\ pc[p] = "count"
  /\ count' = count + 1
  /\ Goto(p, "convert")
  /\ UNCHANGED <<shardVars, call, ret, diff, scanVars>>

\* atomic.AddInt32
AddCount(p) ==
  /\ pc[p] = "count"
  /\ count' = count + diff[p]
  /\ Goto(p, "convert")
  /\ UNCHANGED <<shardVars, call, ret, diff, scanVars>>

\* Wrong: Conversion that compares with > and <.
ConvertLate(p) ==
  /\ pc[p] = "convert"
  /\ LET s    == ShardOf[call[p].key]
         size == Len(data[s])
     IN /\ IF diff[p] = 1 /\ kind[s] = "list" /\ size > TreeifyThreshold
           THEN /\ data' = [data EXCEPT ![s] = DrainIntoTree(@)]
                /\ kind' = [kind EXCEPT ![s] = "tree"]
           ELSE IF diff[p] = -1 /\ kind[s] = "tree" /\ size < UntreeifyThreshold
           THEN /\ data' = [data EXCEPT ![s] = IntoList(@)]
                /\ kind' = [kind EXCEPT ![s] = "list"]
           ELSE UNCHANGED <<data, kind>>
        /\ writer' = [writer EXCEPT ![s] = {}]
  /\ diff' = [diff EXCEPT ![p] = 0]
  /\ Goto(p, "done")
  /\ UNCHANGED <<count, call, ret, scanVars>>

\* The conversion, if the size calls for one, and the unlock.
Convert(p) ==
  /\ pc[p] = "convert"
  /\ LET s    == ShardOf[call[p].key]
         size == Len(data[s])
     IN /\ IF diff[p] = 1 /\ kind[s] = "list" /\ size >= TreeifyThreshold
           THEN /\ data' = [data EXCEPT ![s] = DrainIntoTree(@)]
                /\ kind' = [kind EXCEPT ![s] = "tree"]
           ELSE IF diff[p] = -1 /\ kind[s] = "tree" /\ size <= UntreeifyThreshold
           THEN /\ data' = [data EXCEPT ![s] = IntoList(@)]
                /\ kind' = [kind EXCEPT ![s] = "list"]
           ELSE UNCHANGED <<data, kind>>
        /\ writer' = [writer EXCEPT ![s] = {}]
  /\ diff' = [diff EXCEPT ![p] = 0]
  /\ Goto(p, "done")
  /\ UNCHANGED <<count, call, ret, scanVars>>

-----------------------------------------------------------------------------
(* Keys: the counter, then one shard after the other *)

\* Keys whose Set has returned.
Settled == Present \ {call[p].key : p \in {q \in Proc : pc[q] = "count" /\ diff[q] = 1}}

\* Keys looks at Len first and stops at 0.
KeysStart(p) ==
  /\ pc[p] = "called" /\ call[p] = Scan
  /\ Goto(p, IF count = 0 THEN "done" ELSE "scan")
  /\ stay' = [stay EXCEPT ![p] = Settled]
  /\ seen' = [seen EXCEPT ![p] = Present]
  /\ UNCHANGED <<shardVars, count, call, ret, diff, at, keys>>

KeysShard(p) ==
  /\ pc[p] = "scan" /\ at[p] <= NumShards
  /\ Readable(at[p])
  /\ keys' = [keys EXCEPT ![p] = @ \o [i \in DOMAIN data[at[p]] |-> data[at[p]][i].key]]
  /\ at' = [at EXCEPT ![p] = @ + 1]
  /\ UNCHANGED <<shardVars, count, pc, call, ret, diff, stay, seen>>

\* Wrong: Keys that stops when it has as many keys as the counter says.
KeysReturnsEarly(p) ==
  /\ pc[p] = "scan"
  /\ at[p] > NumShards \/ Len(keys[p]) >= count
  /\ Goto(p, "done")
  /\ UNCHANGED <<shardVars, count, call, ret, diff, scanVars>>

KeysReturns(p) ==
  /\ pc[p] = "scan" /\ at[p] > NumShards
  /\ Goto(p, "done")
  /\ UNCHANGED <<shardVars, count, call, ret, diff, scanVars>>

-----------------------------------------------------------------------------

MapStep(p) ==
  \/ Get(p) \/ CheckFirst(p)
  \/ Set(p) \/ SetIfExist(p) \/ SetIfNotExist(p) \/ Delete(p)
  \/ AddCount(p) \/ Convert(p)
  \/ KeysStart(p) \/ KeysShard(p) \/ KeysReturns(p)
  \/ Return(p)

MapNext == \E p \in Proc : MapStep(p) \/ \E c \in Calls \cup {Scan} : Call(p, c)

MapSpec == MapInit /\ [][MapNext]_vars

-----------------------------------------------------------------------------
(* Properties *)

\* A shard holds a key at most once, only keys of its own, and a tree is in
\* order: what Put and Remove of both structures and the conversions between
\* them have to preserve for a later Get to find the last value set. A shard
\* nobody writes to is a list below TreeifyThreshold entries and a tree above
\* UntreeifyThreshold.
ShardsSound ==
  \A s \in Shard :
    /\ \A i \in DOMAIN data[s] : ShardOf[data[s][i].key] = s
    /\ \A i, j \in DOMAIN data[s] : data[s][i].key = data[s][j].key => i = j
    /\ kind[s] = "tree" =>
         \A i, j \in DOMAIN data[s] : i < j => data[s][i].key < data[s][j].key
    /\ writer[s] = {} => IF kind[s] = "list" THEN Len(data[s]) < TreeifyThreshold
                         ELSE Len(data[s]) > UntreeifyThreshold

\* The counter, which Len returns without any lock, is the number of keys up
\* to the writers that have changed a shard and not yet the counter.
CountExact ==
  LET pending(d) == Cardinality({p \in Proc : pc[p] = "count" /\ diff[p] = d})
  IN  count = Cardinality(Present) - pending(1) + pending(-1)

\* Keys takes the shards one after the other while others write. It still
\* returns every key that was in the map all the time (its Set had returned
\* before the call and nobody deleted it), returns no key that was never in
\* the map meanwhile, and returns no key twice.
KeysComplete ==
  \A p \in Proc : pc[p] = "done" /\ call[p] = Scan =>
    LET found == {keys[p][i] : i \in DOMAIN keys[p]} IN
      /\ stay[p] \subseteq found /\ found \subseteq seen[p]
      /\ Cardinality(found) = Len(keys[p])

\* The shards as one map.
Content == [k \in Key |-> Lookup(data[ShardOf[k]], k)]

AsMap == INSTANCE AtomicMap WITH
  content <- Content,
  call <- [p \in Proc |-> IF call[p] = Scan THEN NoCall ELSE call[p]],
  ret <- ret

\* Set, Get, Delete, SetIfExist and SetIfNotExist of ConcurrentMap are atomic
\* for the goroutines that use them, conversions included.
ImplementsMap == AsMap!Map
=============================================================================
