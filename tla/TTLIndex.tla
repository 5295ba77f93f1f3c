------------------------------ MODULE TTLIndex ------------------------------
(***************************************************************************)
(* A shard of the index of deadlines (db.go): a heap of items, each of     *)
(* which knows its place in the heap, and a table from keys to items. The  *)
(* items come from a pool and go back to it. The operations of the package *)
(* container/heap are external; what they call (Less, Swap, Push, Pop) is  *)
(* the code of TTLHeap. All operations run under the lock of the shard.    *)
(* Places in the heap count from 1.                                        *)
(***************************************************************************)
EXTENDS Integers, Sequences, FiniteSets, TLC

CONSTANTS
  TTLKey,   \* the keys of the shard
  Time      \* deadlines and readings of the clock, positive integers

VARIABLES
  shard,    \* [heap: sequence of items, item: what each item holds, keys: table]
  ttlOut    \* what the last operation returned

ttlVars == <<shard, ttlOut>>

Item == 1 .. Cardinality(TTLKey) + 1

Released == [key |-> "", expireAt |-> 0, index |-> -1]

EmptyShard == [heap |-> <<>>, item |-> [i \in Item |-> Released], keys |-> <<>>]

Less(s, i, j) == s.item[s.heap[i]].expireAt < s.item[s.heap[j]].expireAt

Swap(s, i, j) ==
  [s EXCEPT !.heap[i] = s.heap[j], !.heap[j] = s.heap[i],
            !.item[s.heap[j]].index = i, !.item[s.heap[i]].index = j]

PushItem(s, x) ==
  [s EXCEPT !.heap = Append(@, x), !.item[x].index = Len(s.heap) + 1]

\* The last item leaves; heap.Pop and heap.Remove have put it there.
PopItem(s) ==
  [s EXCEPT !.heap = SubSeq(@, 1, Len(@) - 1), !.item[s.heap[Len(s.heap)]].index = -1]

-----------------------------------------------------------------------------
(* container/heap *)

RECURSIVE up(_, _)
up(s, j) ==
  LET i == j \div 2 IN
  IF i < 1 \/ ~Less(s, j, i) THEN s ELSE up(Swap(s, i, j), i)

RECURSIVE down(_, _, _)
down(s, i, n) ==
  LET l == 2 * i
      j == IF l + 1 <= n /\ Less(s, l + 1, l) THEN l + 1 ELSE l
  IN IF l > n \/ ~Less(s, j, i) THEN s ELSE down(Swap(s, i, j), j, n)

\* down, and up if the item has not moved down.
DownOrUp(s, i, n) == IF down(s, i, n) = s THEN up(s, i) ELSE down(s, i, n)

HeapPush(s, x) == up(PushItem(s, x), Len(s.heap) + 1)

HeapFix(s, i) == DownOrUp(s, i, Len(s.heap))

\* The item at i is exchanged with the last one, which is put in order.
HeapRemove(s, i) ==
  LET n == Len(s.heap) IN
  PopItem(IF i = n THEN s ELSE DownOrUp(Swap(s, i, n), i, n - 1))

HeapPop(s) == PopItem(down(Swap(s, 1, Len(s.heap)), 1, Len(s.heap) - 1))

-----------------------------------------------------------------------------
(* ttlShard and TTLManager *)

Place(s, k) == s.item[s.keys[k]].index

\* The item leaves the table and goes back to the pool.
releaseTTLItem(s, x) ==
  [s EXCEPT !.keys = [k \in DOMAIN @ \ {s.item[x].key} |-> @[k]], !.item[x] = Released]

\* Any item of the pool, or a new one.
acquireTTLItem(s) == CHOOSE x \in Item : x \notin {s.heap[i] : i \in DOMAIN s.heap}

\* Wrong: a deadline that is changed in place does not move in the heap.
SetTTLNoFix(s, k, at) ==
  LET x == acquireTTLItem(s) IN
  IF k \in DOMAIN s.keys
  THEN IF s.item[s.keys[k]].expireAt = at THEN s
       ELSE [s EXCEPT !.item[s.keys[k]].expireAt = at]
  ELSE [HeapPush([s EXCEPT !.item[x] = [key |-> k, expireAt |-> at, index |-> -1]], x)
          EXCEPT !.keys = k :> x @@ @]

SetTTL(s, k, at) ==
  LET x == acquireTTLItem(s) IN
  IF k \in DOMAIN s.keys
  THEN IF s.item[s.keys[k]].expireAt = at THEN s
       ELSE HeapFix([s EXCEPT !.item[s.keys[k]].expireAt = at], Place(s, k))
  ELSE [HeapPush([s EXCEPT !.item[x] = [key |-> k, expireAt |-> at, index |-> -1]], x)
          EXCEPT !.keys = k :> x @@ @]

RemoveTTL(s, k) ==
  IF k \in DOMAIN s.keys THEN releaseTTLItem(HeapRemove(s, Place(s, k)), s.keys[k]) ELSE s

Expired(s, x, now) == s.item[x].expireAt <= now

\* TTLManager.CheckTTL removes the key when it has expired.
CheckTTL(s, k, now) ==
  LET expired == k \in DOMAIN s.keys /\ Expired(s, s.keys[k], now)
  IN [shard |-> IF expired THEN RemoveTTL(s, k) ELSE s, alive |-> ~expired]

\* Items are popped until the first one is not expired.
RECURSIVE collectExpiredAndNext(_, _, _)
collectExpiredAndNext(s, now, expired) ==
  IF s.heap = <<>> THEN [shard |-> s, expired |-> expired, next |-> 0]
  ELSE LET x == s.heap[1] IN
       IF ~Expired(s, x, now)
       THEN [shard |-> s, expired |-> expired, next |-> s.item[x].expireAt]
       ELSE collectExpiredAndNext(releaseTTLItem(HeapPop(s), x), now, expired \cup {s.item[x].key})

-----------------------------------------------------------------------------

TTLInit == shard = EmptyShard /\ ttlOut = <<>>

Gives(s, result) == shard' = s /\ ttlOut' = result

DoSetTTL(k, at) == Gives(SetTTL(shard, k, at), <<>>)

DoRemoveTTL(k) == Gives(RemoveTTL(shard, k), <<>>)

DoCheckTTL(k, now) == LET r == CheckTTL(shard, k, now) IN Gives(r.shard, <<r.alive>>)

DoCollect(now) ==
  LET r == collectExpiredAndNext(shard, now, {}) IN Gives(r.shard, <<r.expired, r.next>>)

TTLNext ==
  \/ \E k \in TTLKey :
       DoRemoveTTL(k) \/ \E t \in Time : DoSetTTL(k, t) \/ DoCheckTTL(k, t)
  \/ \E now \in Time : DoCollect(now)

TTLSpec == TTLInit /\ [][TTLNext]_ttlVars

-----------------------------------------------------------------------------
(* Properties *)

Map == INSTANCE TTLMap WITH
  Key <- TTLKey,
  deadline <- [k \in DOMAIN shard.keys |-> shard.item[shard.keys[k]].expireAt],
  result <- ttlOut

\* The heap and the table together are a map from keys to deadlines: each
\* operation changes the deadline of its key only, and the cleanup, which pops
\* until it meets a deadline in the future, takes all expired keys and no other
\* and returns the earliest deadline left.
ImplementsTTLMap == Map!TTLMapSpec
=============================================================================
