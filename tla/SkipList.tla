------------------------------ MODULE SkipList ------------------------------
(***************************************************************************)
(* The sorted set of pkg/memdb/zset_struct.go: a skip list whose links     *)
(* carry spans, and a table from members to scores. Levels count from 1,   *)
(* ranks from 0. As the table has one score for a member the skip list has *)
(* at most one node for it, and a node is named by its member; members are *)
(* integers, ordered as the strings are. Scores are integers: infinities   *)
(* behave as very large ones, NaN is left out.                             *)
(*                                                                         *)
(* A sorted set is a record: fwd[i][x] and span[i][x] are the fields       *)
(* forward and span of node x at level i, score is the table dict.         *)
(***************************************************************************)
EXTENDS Integers, Sequences, TLC
LOCAL INSTANCE FiniteSetsExt

CONSTANTS
  Member,     \* a set of positive integers
  MaxLevel    \* the highest level

header == 0
NoNode == -1

Level == 1 .. MaxLevel

NewZSet ==
  [fwd   |-> [i \in Level |-> [x \in Member \cup {header} |-> NoNode]],
   span  |-> [i \in Level |-> [x \in Member \cup {header} |-> 0]],
   score |-> <<>>, level |-> 1, length |-> 0, tail |-> NoNode]

Has(z, m) == m \in DOMAIN z.score

\* The span of a link to nothing is not read before it is set: it is forgotten.
Forget(z) ==
  [z EXCEPT !.span = [i \in Level |->
     [x \in DOMAIN z.span[i] |-> IF z.fwd[i][x] = NoNode THEN 0 ELSE z.span[i][x]]]]

\* The nodes in front of the place of member m with the given score.
InFrontOf(z, m, score) ==
  {x \in DOMAIN z.score : z.score[x] < score \/ (z.score[x] = score /\ x < m)}

\* The search for a place: along level i while the next node is in front.
RECURSIVE Along(_, _, _, _)
Along(z, i, front, at) ==
  LET next == z.fwd[i][at.node] IN
  IF next \notin front THEN at
  ELSE Along(z, i, front, [node |-> next, rank |-> at.rank + z.span[i][at.node]])

\* update[i] and rank[i]: where the search leaves level i.
RECURSIVE Search(_, _, _)
Search(z, front, i) ==
  IF i > z.level THEN [node |-> header, rank |-> 0]
  ELSE Along(z, i, front, Search(z, front, i + 1))

\* The nodes from x on, at level i.
RECURSIVE From(_, _, _)
From(z, i, x) == IF x = NoNode THEN <<>> ELSE <<x>> \o From(z, i, z.fwd[i][x])

InOrder(z) == From(z, 1, z.fwd[1][header])

-----------------------------------------------------------------------------
(* Add and Remove *)

\* Wrong: the level of the list is kept when its last node leaves.
LevelAfterKept(fwd, level) == level

\* z.level-- while the top level is empty.
LevelAfter(fwd, level) == Max({1} \cup {i \in 1 .. level : fwd[i][header] # NoNode})

\* deleteNode: levels are unlinked from the lowest up to the first one that
\* does not have the node. Then the spans that lead nowhere are decremented.
deleteNode(z, m) ==
  LET front  == InFrontOf(z, m, z.score[m])
      at     == [i \in Level |-> Search(z, front, i).node]
      cut(i) == i <= z.level /\ \A j \in 1 .. i : z.fwd[j][at[j]] = m
      fwd    == [i \in Level |->
                   [z.fwd[i] EXCEPT ![at[i]] = IF cut(i) THEN z.fwd[i][m] ELSE @, ![m] = NoNode]]
      span   == [i \in Level |->
                   [z.span[i] EXCEPT ![at[i]] = @ + (IF cut(i) THEN z.span[i][m] - 1 ELSE 0)
                                        - (IF i <= z.level /\ fwd[i][at[i]] = NoNode THEN 1 ELSE 0),
                                     ![m] = 0]]
  IN [fwd |-> fwd, span |-> span,
      score  |-> [x \in DOMAIN z.score \ {m} |-> z.score[x]],
      level  |-> LevelAfter(fwd, z.level),
      length |-> z.length - 1,
      tail   |-> IF z.fwd[1][m] # NoNode THEN z.tail ELSE IF at[1] = header THEN NoNode ELSE at[1]]

\* Wrong: the spans above the new node are not widened.
UnwiderSpan(span, x) == span

\* The levels above the new node: one more node under the link.
WiderSpan(span, x) == [span EXCEPT ![x] = @ + 1]

\* The part of Add that links a new node of the given level.
insertNode(z, m, score, newLevel) ==
  LET front == InFrontOf(z, m, score)
      at    == [i \in Level |-> Search(z, front, i)]
      level == Max({newLevel, z.level})
      below(i) == at[1].rank - at[i].rank
      old(i)   == IF i > z.level THEN z.length ELSE z.span[i][at[i].node]
      next  == z.fwd[1][at[1].node]
  IN [fwd |-> [i \in Level |->
                 IF i > newLevel THEN z.fwd[i]
                 ELSE [z.fwd[i] EXCEPT ![m] = z.fwd[i][at[i].node], ![at[i].node] = m]],
      span |-> [i \in Level |->
                  IF i > level THEN z.span[i]
                  ELSE IF i > newLevel THEN WiderSpan(z.span[i], at[i].node)
                  ELSE [z.span[i] EXCEPT ![m] = old(i) - below(i), ![at[i].node] = below(i) + 1]],
      score  |-> m :> score @@ z.score,
      level  |-> level,
      length |-> z.length + 1,
      tail   |-> IF next = NoNode THEN m ELSE z.tail]

\* randomLevel() has given newLevel.
Add(z, m, score, newLevel) ==
  IF ~Has(z, m) THEN insertNode(z, m, score, newLevel)
  ELSE IF z.score[m] = score THEN z
  ELSE insertNode(deleteNode(z, m), m, score, newLevel)

Remove(z, m) == IF Has(z, m) THEN deleteNode(z, m) ELSE z

RECURSIVE RemoveAll(_, _)
RemoveAll(z, ms) == IF ms = <<>> THEN z ELSE RemoveAll(Remove(z, Head(ms)), Tail(ms))

\* The member is deleted first, also when the score stays the same.
IncrBy(z, m, increment, newLevel) ==
  IF Has(z, m)
  THEN Add(deleteNode(z, m), m, z.score[m] + increment, newLevel)
  ELSE Add(z, m, increment, newLevel)

-----------------------------------------------------------------------------
(* Reading *)

\* The scans by score start at the first node and stop at the first one beyond max.
Between(z, min, max) ==
  LET chain  == InOrder(z)
      beyond == {i \in DOMAIN chain : z.score[chain[i]] > max}
      last   == IF beyond = {} THEN Len(chain) ELSE Min(beyond) - 1
  IN  SelectSeq(SubSeq(chain, 1, last), LAMBDA x : z.score[x] >= min)

Count(z, min, max) == Len(Between(z, min, max))

RangeByScore(z, min, max, offset, count) ==
  LET found == Between(z, min, max)
      from  == IF offset < 0 THEN 0 ELSE offset
      upto  == IF count > 0 /\ from + count < Len(found) THEN from + count ELSE Len(found)
  IN  SubSeq(found, from + 1, upto)

\* The search counts the spans up to and including the node of m.
Rank(z, m) ==
  IF ~Has(z, m) THEN -1
  ELSE LET at == Search(z, InFrontOf(z, m, z.score[m]) \cup {m}, 1)
       IN  IF at.node = m THEN at.rank - 1 ELSE -1

RevRank(z, m) == IF Rank(z, m) = -1 THEN -1 ELSE z.length - Rank(z, m) - 1

\* start and stop made absolute and cut to the list.
Cut(z, start, stop) ==
  LET s == IF start < 0 THEN z.length + start ELSE start
      e == IF stop < 0 THEN z.length + stop ELSE stop
      from == IF s < 0 THEN 0 ELSE s
      upto == IF e >= z.length THEN z.length - 1 ELSE e
  IN [empty |-> from > upto \/ from >= z.length, start |-> from, stop |-> upto]

\* The spans are used to skip the nodes in front of rank start.
RECURSIVE SkipTo(_, _, _, _)
SkipTo(z, start, i, at) ==
  LET next == z.fwd[i][at.node]
      rank == at.rank + z.span[i][at.node]
  IN IF next # NoNode /\ rank <= start THEN SkipTo(z, start, i, [node |-> next, rank |-> rank])
     ELSE IF i > 1 THEN SkipTo(z, start, i - 1, at) ELSE at.node

ZRange(z, start, stop) ==
  LET c    == Cut(z, start, stop)
      rest == From(z, 1, z.fwd[1][SkipTo(z, c.start, z.level, [node |-> header, rank |-> 0])])
      n    == c.stop - c.start + 1
  IN IF c.empty THEN <<>> ELSE SubSeq(rest, 1, IF n < Len(rest) THEN n ELSE Len(rest))

RevRange(z, start, stop) ==
  LET c == Cut(z, start, stop)
      s == ZRange(z, z.length - c.stop - 1, z.length - c.start - 1)
  IN  IF c.empty THEN <<>> ELSE [i \in DOMAIN s |-> s[Len(s) + 1 - i]]

RemRangeByRank(z, start, stop) == RemoveAll(z, ZRange(z, start, stop))

RemRangeByScore(z, min, max) == RemoveAll(z, Between(z, min, max))
=============================================================================
