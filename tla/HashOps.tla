------------------------------- MODULE HashOps -------------------------------
(***************************************************************************)
(* Redis hashes (hash_struct.go) and what the handlers of hash.go do with  *)
(* them, one client at a time. A hash has a table and a size of its own,   *)
(* which decides whether it is empty. A value is blank (no bytes), a       *)
(* number or a word; numbers are counted in halves, so that some of them   *)
(* are floats that strconv.Atoi refuses. The order in which Go walks a     *)
(* table is not defined: a handler has a set of outcomes, and replies      *)
(* carry sets and bags.                                                    *)
(***************************************************************************)
EXTENDS ListOps, TLC

CONSTANT MaxHashInt   \* the largest int; the smallest is -MaxHashInt - 1

Blank  == [t |-> "blank", h |-> 0]
Num(h) == [t |-> "num", h |-> h]
Word   == [t |-> "word", h |-> 0]

IsInt(v) == v.t = "num" /\ v.h % 2 = 0

\* len of the text: a sign, a digit, and ".5".
TextLen(v) ==
  CASE v.t = "blank" -> 0
    [] v.t = "word" -> 1
    [] v.t = "num" -> 1 + (IF v.h < 0 THEN 1 ELSE 0) + (IF IsInt(v) THEN 0 ELSE 2)

AddInt(x, y) == ((x + y + MaxHashInt + 1) % (2 * (MaxHashInt + 1))) - (MaxHashInt + 1)

HashVal(table, size) == [t |-> "hash", s |-> <<>>, table |-> table, size |-> size]
NewHash == HashVal(<<>>, 0)
IsHash(v) == v.t = "hash"

Fields(h) == DOMAIN h.table

\* Hash.Set for each pair <<field, value>>, in order.
SetFields(h, pairs) ==
  LET named == {pairs[i][1] : i \in DOMAIN pairs}
      last(f) == CHOOSE i \in DOMAIN pairs :
                   pairs[i][1] = f /\ \A j \in DOMAIN pairs : pairs[j][1] = f => j <= i
  IN HashVal([f \in named |-> pairs[last(f)][2]] @@ h.table,
             h.size + Cardinality(named \ Fields(h)))

DelFields(h, gone) ==
  HashVal([f \in Fields(h) \ gone |-> h.table[f]], h.size - Cardinality(gone \cap Fields(h)))

GetField(h, f) == IF f \in Fields(h) THEN h.table[f] ELSE Blank

\* Wrong: a new field is not counted.
PutIncrementUncounted(h, f, v) == HashVal(f :> v @@ h.table, h.size)

\* IncrBy and IncrByFloat take a field without bytes for a new one, and count it.
PutIncrement(h, f, v) == HashVal(f :> v @@ h.table, h.size + 1)

-----------------------------------------------------------------------------
(* Replies *)

FieldSet(S)   == [t |-> "fields", set |-> S]
FieldTable(F) == [t |-> "table", table |-> F]
ValueBag(B)   == [t |-> "bag", bag |-> B]
PairBag(B)    == [t |-> "pairs", pairs |-> B]

BulkOf(v) == IF v = Blank THEN Nil ELSE Bulk(v)

-----------------------------------------------------------------------------
(* Handlers *)

OnHash(m, k, absent, outcome) ==
  IF m[k] = None THEN Outcome(absent, m)
  ELSE IF ~IsHash(m[k]) THEN Outcome(WrongType, m) ELSE outcome

\* The hash of a handler that makes one for an absent key.
HashFor(m, k) == IF m[k] = None THEN NewHash ELSE m[k]

OnNewHash(m, k, outcome) ==
  IF m[k] # None /\ ~IsHash(m[k]) THEN Outcome(WrongType, m) ELSE outcome

hSet(m, k, pairs) ==
  LET h == SetFields(HashFor(m, k), pairs)
  IN  Outcome(Int64(Cardinality(Fields(h)) - Cardinality(Fields(HashFor(m, k)))), [m EXCEPT ![k] = h])

hSetNx(m, k, f, v) ==
  LET h == HashFor(m, k) IN
  IF f \in Fields(h) THEN Outcome(Int64(0), m)
  ELSE Outcome(Int64(1), [m EXCEPT ![k] = SetFields(h, <<<<f, v>>>>)])

hIncrBy(m, k, f, n) ==
  LET h   == HashFor(m, k)
      v   == GetField(h, f)
      sum == AddInt(v.h \div 2, n)
  IN IF v = Blank THEN Outcome(Int64(n), [m EXCEPT ![k] = PutIncrement(h, f, Num(2 * n))])
     ELSE IF ~IsInt(v) THEN Outcome(Error("not an integer"), m)
     ELSE Outcome(Int64(sum), [m EXCEPT ![k] = SetFields(h, <<<<f, Num(2 * sum)>>>>)])

hIncrByFloat(m, k, f, n) ==
  LET h == HashFor(m, k)
      v == GetField(h, f)
  IN IF v = Blank THEN Outcome(Bulk(Num(n)), [m EXCEPT ![k] = PutIncrement(h, f, Num(n))])
     ELSE IF v = Word THEN Outcome(Error("not a float"), m)
     ELSE Outcome(Bulk(Num(v.h + n)), [m EXCEPT ![k] = SetFields(h, <<<<f, Num(v.h + n)>>>>)])

\* The hash is deleted when its size is 0.
hDel(m, k, fs) ==
  LET h == DelFields(m[k], {fs[i] : i \in DOMAIN fs})
  IN  Outcome(Int64(Cardinality(Fields(m[k])) - Cardinality(Fields(h))),
              [m EXCEPT ![k] = IF h.size = 0 THEN None ELSE h])

\* Random: so many fields, at most size; or, for a negative count, the whole
\* table again and again, and a part of it. It does not return when the size of
\* an empty table is not 0.
Random(h, count) ==
  LET n    == Cardinality(Fields(h))
      full == IF n = 0 THEN 0 ELSE (-count) \div n
      rest == IF n = 0 THEN 0 ELSE (-count) % n
      size == IF count > h.size THEN h.size ELSE count
      part(i) == {S \in SUBSET Fields(h) : Cardinality(S) = IF i > n THEN n ELSE i}
  IN IF count = 0 \/ h.size = 0 THEN {<<>>}
     ELSE IF count > 0 THEN {[f \in S |-> 1] : S \in part(size)}
     ELSE IF n = 0 THEN {}
     ELSE {[f \in Fields(h) |-> full + (IF f \in S THEN 1 ELSE 0)] : S \in part(rest)}

\* HRANDFIELD, with the values (Random and RandomWithValue make the same choice).
hRandField(m, k, count, withValues) ==
  LET pairs(b) == [p \in {<<f, m[k].table[f]>> : f \in DOMAIN b} |-> b[p[1]]] IN
  IF ~IsHash(m[k]) THEN {Outcome(IF m[k] = None THEN Array(<<>>) ELSE WrongType, m)}
  ELSE {Outcome(IF withValues THEN PairBag(pairs(b)) ELSE ValueBag(b), m) :
          b \in Random(m[k], count)}

ReadHash(m, k, absent, reply) == {OnHash(m, k, absent, Outcome(reply, m))}

hGet(m, k, f) == ReadHash(m, k, Nil, BulkOf(GetField(m[k], f)))

hMGet(m, k, fs) ==
  ReadHash(m, k, Array([i \in DOMAIN fs |-> Nil]),
           Array([i \in DOMAIN fs |-> BulkOf(GetField(m[k], fs[i]))]))

hExists(m, k, f) == ReadHash(m, k, Int64(0), Int64(IF f \in Fields(m[k]) THEN 1 ELSE 0))

hLen(m, k) == ReadHash(m, k, Int64(0), Int64(m[k].size))

hStrLen(m, k, f) == ReadHash(m, k, Int64(0), Int64(TextLen(GetField(m[k], f))))

hKeys(m, k) == ReadHash(m, k, Array(<<>>), FieldSet(Fields(m[k])))

hGetAll(m, k) == ReadHash(m, k, Array(<<>>), FieldTable(m[k].table))

hVals(m, k) ==
  LET with(v) == {f \in Fields(m[k]) : m[k].table[f] = v}
      values  == {m[k].table[f] : f \in Fields(m[k])}
  IN  ReadHash(m, k, Array(<<>>), ValueBag([v \in values |-> Cardinality(with(v))]))

\* A command has the fields op, keys, args, i and j of module ListOps; the args of
\* HSET are pairs, those of HSETNX a field and a value; j is 1 for WITHVALUES.
HashOutcomes(m, command) ==
  LET op   == command.op
      k    == command.keys[1]
      args == command.args
  IN CASE op = "hset"         -> {OnNewHash(m, k, hSet(m, k, args))}
       [] op = "hsetnx"       -> {OnNewHash(m, k, hSetNx(m, k, args[1], args[2]))}
       [] op = "hincrby"      -> {OnNewHash(m, k, hIncrBy(m, k, args[1], command.i))}
       [] op = "hincrbyfloat" -> {OnNewHash(m, k, hIncrByFloat(m, k, args[1], command.i))}
       [] op = "hdel"         -> {OnHash(m, k, Int64(0), hDel(m, k, args))}
       [] op = "hrandfield"   -> hRandField(m, k, command.i, command.j = 1)
       [] op = "hget"    -> hGet(m, k, args[1])
       [] op = "hmget"   -> hMGet(m, k, args)
       [] op = "hexists" -> hExists(m, k, args[1])
       [] op = "hlen"    -> hLen(m, k)
       [] op = "hstrlen" -> hStrLen(m, k, args[1])
       [] op = "hkeys"   -> hKeys(m, k)
       [] op = "hgetall" -> hGetAll(m, k)
       [] op = "hvals"   -> hVals(m, k)

HashWrites == {"hset", "hsetnx", "hincrby", "hincrbyfloat"}   \* these ignore CheckTTL
HashReads  ==
  {"hrandfield", "hget", "hmget", "hexists", "hlen", "hstrlen", "hkeys", "hgetall", "hvals"}
HashCommands == HashWrites \cup HashReads \cup {"hdel"}
==============================================================================
