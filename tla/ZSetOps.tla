------------------------------- MODULE ZSetOps -------------------------------
(***************************************************************************)
(* What the handlers of zset.go do with a sorted set (module SkipList), one *)
(* client at a time. The level of a new node is random, so the writing      *)
(* handlers have a set of outcomes.                                         *)
(***************************************************************************)
EXTENDS ListOps, SkipList

ZSetVal(z) == [t |-> "zset", s |-> <<>>, z |-> Forget(z)]
IsZSet(v) == v.t = "zset"

ZSetFor(m, k) == IF m[k] = None THEN NewZSet ELSE m[k].z

OnZSet(m, k, absent, outcomes) ==
  IF m[k] = None THEN {Outcome(absent, m)}
  ELSE IF ~IsZSet(m[k]) THEN {Outcome(WrongType, m)} ELSE outcomes

OnNewZSet(m, k, outcomes) ==
  IF m[k] # None /\ ~IsZSet(m[k]) THEN {Outcome(WrongType, m)} ELSE outcomes

Puts(m, k, reply, z) == Outcome(reply, [m EXCEPT ![k] = ZSetVal(z)])

\* ZADD adds pair after pair, each <<[float, score], member>>, and stops at the
\* first score that is not a float. What was added stays, and so does a new set
\* even if nothing was added. A member whose score changes is counted too.
RECURSIVE zAdd(_, _, _, _, _)
zAdd(m, k, z, pairs, added) ==
  IF pairs = <<>> THEN {Puts(m, k, Int64(added), z)}
  ELSE LET score  == pairs[1][1]
           member == pairs[1][2]
       IN IF ~score.float THEN {Puts(m, k, Error("not a float"), z)}
          ELSE UNION {zAdd(m, k, Add(z, member, score.n, level), Tail(pairs),
                           added + (IF Has(z, member) /\ z.score[member] = score.n THEN 0 ELSE 1)) :
                        level \in Level}

zIncrBy(m, k, member, increment) ==
  LET new(level) == IncrBy(ZSetFor(m, k), member, increment, level)
  IN  {Puts(m, k, Bulk(new(level).score[member]), new(level)) : level \in Level}

\* Removing handlers put back what is left, also when nothing is.
Removing(m, k, left) ==
  OnZSet(m, k, Int64(0), {Puts(m, k, Int64(m[k].z.length - left.length), left)})

zRem(m, k, members)            == Removing(m, k, RemoveAll(m[k].z, members))
zRemRangeByRank(m, k, i, j)    == Removing(m, k, RemRangeByRank(m[k].z, i, j))
zRemRangeByScore(m, k, lo, hi) == Removing(m, k, RemRangeByScore(m[k].z, lo, hi))

ReadZSet(m, k, absent, reply) == OnZSet(m, k, absent, {Outcome(reply, m)})

RankReply(r) == IF r = -1 THEN Nil ELSE Int64(r)

zCard(m, k)           == ReadZSet(m, k, Int64(0), Int64(m[k].z.length))
zCount(m, k, lo, hi)  == ReadZSet(m, k, Int64(0), Int64(Count(m[k].z, lo, hi)))
zRange(m, k, i, j)    == ReadZSet(m, k, Array(<<>>), Array(ZRange(m[k].z, i, j)))
zRevRange(m, k, i, j) == ReadZSet(m, k, Array(<<>>), Array(RevRange(m[k].z, i, j)))
zRank(m, k, x)        == ReadZSet(m, k, Nil, RankReply(Rank(m[k].z, x)))
zRevRank(m, k, x)     == ReadZSet(m, k, Nil, RankReply(RevRank(m[k].z, x)))
zScore(m, k, x) ==
  ReadZSet(m, k, Nil, IF Has(m[k].z, x) THEN Bulk(m[k].z.score[x]) ELSE Nil)
zRangeByScore(m, k, lo, hi, opt) ==
  ReadZSet(m, k, Array(<<>>), Array(RangeByScore(m[k].z, lo, hi, opt.offset, opt.count)))

ZSetOutcomes(m, command) ==
  LET op   == command.op
      k    == command.keys[1]
      args == command.args
      i    == command.i
      j    == command.j
  IN CASE op = "zadd"    -> OnNewZSet(m, k, zAdd(m, k, ZSetFor(m, k), args, 0))
       [] op = "zincrby" -> OnNewZSet(m, k, zIncrBy(m, k, args[1], i))
       [] op = "zrem"             -> zRem(m, k, args)
       [] op = "zremrangebyrank"  -> zRemRangeByRank(m, k, i, j)
       [] op = "zremrangebyscore" -> zRemRangeByScore(m, k, i, j)
       [] op = "zcard"     -> zCard(m, k)
       [] op = "zcount"    -> zCount(m, k, i, j)
       [] op = "zrange"    -> zRange(m, k, i, j)
       [] op = "zrevrange" -> zRevRange(m, k, i, j)
       [] op = "zrangebyscore" -> zRangeByScore(m, k, i, j, command.opt)
       [] op = "zrank"     -> zRank(m, k, args[1])
       [] op = "zrevrank"  -> zRevRank(m, k, args[1])
       [] op = "zscore"    -> zScore(m, k, args[1])

ZSetWrites == {"zadd", "zincrby"}   \* these ignore CheckTTL
ZSetReads  == {"zcard", "zcount", "zrange", "zrevrange", "zrangebyscore", "zrank", "zrevrank", "zscore"}
ZSetCommands == ZSetWrites \cup ZSetReads \cup {"zrem", "zremrangebyrank", "zremrangebyscore"}
==============================================================================
