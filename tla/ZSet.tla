-------------------------------- MODULE ZSet --------------------------------
(***************************************************************************)
(* A client uses one sorted set (module SkipList): every sequence of the   *)
(* writing operations of zset_struct.go, with every outcome of the random  *)
(* levels. The reading operations are compared with the members ordered by *)
(* score in the properties.                                                *)
(***************************************************************************)
EXTENDS SkipList, FiniteSets

CONSTANTS
  Score,     \* a set of integers
  MaxRank,   \* bound: rank arguments are in -MaxRank .. MaxRank
  MaxSpan    \* bound: no operation is called when a span exceeds this

VARIABLES
  zset,      \* the sorted set
  deleted    \* history: a node was deleted and others were left

zsetVars == <<zset, deleted>>

ZSetInit == zset = NewZSet /\ deleted = FALSE

\* An operation leaves z. A set that becomes empty starts anew.
LeavesZ(z, deletes) ==
  /\ \A i \in Level : \A x \in DOMAIN zset.span[i] : zset.span[i][x] <= MaxSpan
  /\ zset' = Forget(z)
  /\ deleted' = (z.length # 0 /\ (deleted \/ (deletes /\ zset.length # 1)))

DoAdd(m, score, level) ==
  LeavesZ(Add(zset, m, score, level), Has(zset, m) /\ zset.score[m] # score)

DoIncrBy(m, increment, level) ==
  /\ (IF Has(zset, m) THEN zset.score[m] + increment ELSE increment) \in Score
  /\ LeavesZ(IncrBy(zset, m, increment, level), Has(zset, m))

DoRemove(m) == LeavesZ(Remove(zset, m), Has(zset, m))

DoRemRangeByRank(start, stop) ==
  LET z == RemRangeByRank(zset, start, stop) IN LeavesZ(z, z # zset)

DoRemRangeByScore(min, max) ==
  LET z == RemRangeByScore(zset, min, max) IN LeavesZ(z, z # zset)

RankArg == -MaxRank .. MaxRank

ZSetNext ==
  \/ \E m \in Member, score \in Score, level \in Level :
       DoAdd(m, score, level) \/ DoIncrBy(m, score, level)
  \/ \E m \in Member : DoRemove(m)
  \/ \E start, stop \in RankArg : DoRemRangeByRank(start, stop)
  \/ \E min, max \in Score : DoRemRangeByScore(min, max)

ZSetSpec == ZSetInit /\ [][ZSetNext]_zsetVars

-----------------------------------------------------------------------------
(* Properties *)

\* The rank of x among the members ordered by score, then by name.
RankOf(z, x) == Cardinality(InFrontOf(z, x, z.score[x]))

\* The members in order.
Sorted(z) ==
  [i \in 1 .. Cardinality(DOMAIN z.score) |->
     CHOOSE x \in DOMAIN z.score : RankOf(z, x) = i - 1]

\* The lowest level links the members of the table in the order of their
\* scores, each level above a part of the one below in the same order; length,
\* tail and the highest level in use are right.
LevelsRight ==
  LET chain(i) == From(zset, i, zset.fwd[i][header]) IN
  /\ InOrder(zset) = Sorted(zset)
  /\ zset.length = Cardinality(DOMAIN zset.score)
  /\ zset.tail = (IF zset.length = 0 THEN NoNode ELSE Sorted(zset)[zset.length])
  /\ \A i \in Level \ {1} :
       LET above == chain(i)
           here  == {above[j] : j \in DOMAIN above}
       IN /\ above = SelectSeq(chain(i - 1), LAMBDA x : x \in here)
          /\ here # {} <=> i <= zset.level

\* Count and RangeByScore, which walk the lowest level and stop at the first
\* score beyond max, return exactly the members with a score in the interval,
\* with every offset and count.
ByScoreRight ==
  zset.length # 0 => \A min, max \in Score :
    LET hits == SelectSeq(Sorted(zset),
                          LAMBDA x : zset.score[x] >= min /\ zset.score[x] <= max)
    IN /\ Count(zset, min, max) = Len(hits)
       /\ \A offset, count \in RankArg :
            RangeByScore(zset, min, max, offset, count) =
              SelectSeq(hits, LAMBDA x :
                LET i == Cardinality({y \in {hits[j] : j \in DOMAIN hits} :
                                        RankOf(zset, y) < RankOf(zset, x)})
                IN i >= offset /\ (count > 0 => i < count + (IF offset < 0 THEN 0 ELSE offset)))

\* After every sequence of Add, IncrBy and removals, whatever levels are drawn,
\* the levels of the skip list agree with the table and with each other, and
\* what ZCOUNT and ZRANGEBYSCORE find on them is what the scores say.
OrderRight == LevelsRight /\ ByScoreRight

\* Rank is the number of members in front.
RanksRight == \A m \in DOMAIN zset.score : Rank(zset, m) = RankOf(zset, m)

\* As long as nodes are only added, Rank, RevRank, Range and RevRange, which
\* count with the spans, agree with the order of the members: Add keeps the span
\* of every link that it cuts or passes under.
SpansRightWhileGrowing ==
  ~deleted /\ zset.length # 0 =>
    /\ RanksRight
    /\ \A start, stop \in RankArg :
         LET c == Cut(zset, start, stop)
             s == Sorted(zset)
             n == zset.length
         IN /\ ZRange(zset, start, stop) =
                 (IF c.empty THEN <<>> ELSE SubSeq(s, c.start + 1, c.stop + 1))
            /\ RevRange(zset, start, stop) =
                 (IF c.empty THEN <<>>
                  ELSE [i \in 1 .. c.stop - c.start + 1 |-> s[n - c.start + 1 - i]])

\* Deletions leave some spans too wide and none too narrow: the rank of a member
\* is never reported lower than it is.
RanksNeverLow == \A m \in DOMAIN zset.score : Rank(zset, m) >= RankOf(zset, m)

\* What ZRANK, ZREVRANK, ZRANGE and ZREVRANGE count with the spans is right until
\* deleteNode is called for the first time; from then on ranks may be too high, and
\* are still never too low.
SpansNeverNarrow == SpansRightWhileGrowing /\ RanksNeverLow
=============================================================================
