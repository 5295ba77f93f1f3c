-------------------------------- MODULE List --------------------------------
(***************************************************************************)
(* The doubly linked list of pkg/memdb/list_struct.go, pointer by pointer, *)
(* and the search of LPOS (list.go) along its nodes. A list is a record of *)
(* three functions on its nodes, the fields Prev, Next and Val, and len.   *)
(* An operation is an operator from a list to what it leaves; each Set...  *)
(* in it is one assignment, in the order of the code.                      *)
(***************************************************************************)
EXTENDS ListOps, TLC

CONSTANTS
  Elem,     \* the values of elements
  MaxLen,   \* bound: lists do not grow beyond this
  MaxArg    \* bound: index and count arguments are in -MaxArg .. MaxArg

ASSUME ListAssumption == MaxLen \in Nat /\ MaxArg \in Nat

VARIABLES
  list,    \* the list
  out      \* what the last operation returned

listVars == <<list, out>>

nil  == 0
Head1 == 1   \* l.Head
Tail1 == 2   \* l.Tail
Node == 3 .. MaxLen + 3

NewList ==
  [Next |-> (Head1 :> Tail1 @@ Tail1 :> nil),
   Prev |-> (Head1 :> nil @@ Tail1 :> Head1),
   Val  |-> <<>>, len |-> 0]

SetNext(l, n, m) == [l EXCEPT !.Next[n] = m]
SetPrev(l, n, m) == [l EXCEPT !.Prev[n] = m]
AddLen(l, d)     == [l EXCEPT !.len = @ + d]

\* A new node; what follows links it.
Fresh(l) == CHOOSE n \in Node : n \notin DOMAIN l.Next
NewNode(l, n, p, q, x) ==
  [l EXCEPT !.Next = n :> q @@ @, !.Prev = n :> p @@ @, !.Val = n :> x @@ @]

RECURSIVE Reach(_, _)
Reach(l, N) ==
  LET more == (N \cup {l.Next[n] : n \in N} \cup {l.Prev[n] : n \in N}) \ {nil}
  IN  IF more = N THEN N ELSE Reach(l, more)

\* Only what can be reached from the list is left for the next operation.
Collected(l) ==
  LET live == Reach(l, {Head1, Tail1}) IN
  [Next |-> [n \in live |-> l.Next[n]], Prev |-> [n \in live |-> l.Prev[n]],
   Val |-> [n \in live \ {Head1, Tail1} |-> l.Val[n]], len |-> l.len]

\* k steps along the field f, from n.
RECURSIVE Walk(_, _, _)
Walk(f, n, k) == IF k = 0 THEN n ELSE Walk(f, f[n], k - 1)

\* The nodes along f from n to the node end, no further than nil or a cycle.
RECURSIVE Nodes(_, _, _, _)
Nodes(f, n, end, seen) ==
  IF n \in seen \cup {end, nil} THEN <<>> ELSE <<n>> \o Nodes(f, f[n], end, seen \cup {n})

Forward(l)  == Nodes(l.Next, l.Next[Head1], Tail1, {})
Backward(l) == Nodes(l.Prev, l.Prev[Tail1], Head1, {})

Values(l) == LET ns == Forward(l) IN [i \in DOMAIN ns |-> l.Val[ns[i]]]

-----------------------------------------------------------------------------
(* Reading *)

\* The node at index, walking from the closer end; nil out of range.
Index(l, index) ==
  LET i == IF index < 0 THEN l.len + index ELSE index IN
  IF (index < 0 /\ -index > l.len) \/ i >= l.len \/ i < 0 THEN nil
  ELSE IF i <= l.len \div 2 THEN Walk(l.Next, l.Next[Head1], i)
  ELSE Walk(l.Prev, l.Prev[Tail1], l.len - 1 - i)

\* The first node with the value x from n on, and its position.
RECURSIVE Find(_, _, _, _)
Find(l, n, x, pos) ==
  IF n = Tail1 THEN [node |-> nil, pos |-> -1]
  ELSE IF l.Val[n] = x THEN [node |-> n, pos |-> pos] ELSE Find(l, l.Next[n], x, pos + 1)

Pos(l, x) == Find(l, l.Next[Head1], x, 0).pos

\* Range and Trim: start and end made absolute, then cut to the list.
Bounds(l, start, end) ==
  LET s == IF start < 0 THEN l.len + start ELSE start
      e == IF end < 0 THEN l.len + end ELSE end
  IN [empty |-> s > e \/ s >= l.len \/ e < 0,
      start |-> IF s < 0 THEN 0 ELSE s, end |-> IF e >= l.len THEN l.len - 1 ELSE e]

RECURSIVE FirstValues(_, _, _)
FirstValues(l, n, k) ==
  IF k = 0 \/ n = Tail1 THEN <<>> ELSE <<l.Val[n]>> \o FirstValues(l, l.Next[n], k - 1)

Range(l, start, end) ==
  LET b == Bounds(l, start, end) IN
  IF b.empty THEN <<>>
  ELSE SubSeq(FirstValues(l, l.Next[Head1], b.end + 1), b.start + 1, b.end + 1)

-----------------------------------------------------------------------------
(* LPOS *)

\* With RANK: the search along f for the rank-th match, which also ends with
\* the last node that MAXLEN lets it look at. st is where LPOS is: the node, its
\* position, and what is left of rank and maxlen.
RECURSIVE RankLoop(_, _, _, _, _)
RankLoop(l, f, end, x, st) ==
  IF st.now = end THEN st
  ELSE LET d    == IF end = Tail1 THEN 1 ELSE -1
           rank == IF l.Val[st.now] = x THEN st.rank - d ELSE st.rank
           max  == IF st.limited THEN st.max - 1 ELSE st.max
           seen == [st EXCEPT !.pos = @ + d, !.rank = rank, !.max = max]
       IN IF (st.limited /\ max = 0) \/ rank = 0 THEN seen
          ELSE RankLoop(l, f, end, x, [seen EXCEPT !.now = f[@]])

\* The first match from now on, without a count.
RECURSIVE FirstMatch(_, _, _)
FirstMatch(l, x, st) ==
  IF st.now = Tail1 THEN Nil
  ELSE IF l.Val[st.now] = x THEN Int64(st.pos)
  ELSE IF st.limited /\ st.max <= 0 THEN Nil
  ELSE FirstMatch(l, x, [st EXCEPT !.now = l.Next[@], !.pos = @ + 1, !.max = @ - 1])

\* Up to count matches along f.
RECURSIVE Matches(_, _, _, _, _, _)
Matches(l, f, end, x, count, st) ==
  IF st.now = end \/ count = 0 THEN <<>>
  ELSE LET hit  == IF l.Val[st.now] = x THEN <<st.pos>> ELSE <<>>
           next == [st EXCEPT !.now = f[@], !.max = @ - 1,
                              !.pos = IF end = Tail1 THEN @ + 1 ELSE @ - 1]
       IN IF st.limited /\ st.max <= 0 THEN hit
          ELSE hit \o Matches(l, f, end, x, count - Len(hit), next)

\* Wrong: without RANK the first node does not count.
FirstMaxWhole(limited, max) == max

\* What is left of MAXLEN, without RANK, at the first node.
FirstMax(limited, max) == IF limited THEN max - 1 ELSE max

LPos(l, x, opt) ==
  LET limited == opt.maxlen >= 0
      max     == IF opt.maxlen = 0 THEN l.len ELSE opt.maxlen
      count   == IF opt.count = 0 THEN l.len ELSE opt.count
      back    == opt.rank < 0
      f       == IF back THEN l.Prev ELSE l.Next
      end     == IF back THEN Head1 ELSE Tail1
      from(pos, m) == [now |-> IF back THEN l.Prev[Tail1] ELSE l.Next[Head1],
                       pos |-> pos, rank |-> opt.rank, limited |-> limited, max |-> m]
      st == IF opt.rank # 0 THEN RankLoop(l, f, end, x, from(IF back THEN l.len ELSE -1, max))
            ELSE from(0, FirstMax(limited, max))
      found == Matches(l, f, end, x, count, st)
  IN IF l.len = 0 THEN Nil
     ELSE IF opt = [rank |-> 0, count |-> -1, maxlen |-> -1]
     THEN IF Pos(l, x) = -1 THEN Nil ELSE Int64(Pos(l, x))
     ELSE IF (opt.rank # 0 /\ st.rank # 0) \/ st.now \in {Head1, Tail1} THEN Nil
     ELSE IF opt.count = -1 THEN FirstMatch(l, x, st)
     ELSE IF found = <<>> THEN Nil ELSE Array(found)

-----------------------------------------------------------------------------
(* Writing *)

LPush(l, x) ==
  LET n  == Fresh(l)
      l1 == NewNode(l, n, Head1, l.Next[Head1], x)
      l2 == SetNext(l1, Head1, n)
  IN  AddLen(SetPrev(l2, l2.Next[n], n), 1)

RPush(l, x) ==
  LET n  == Fresh(l)
      l1 == NewNode(l, n, l.Prev[Tail1], Tail1, x)
      l2 == SetPrev(l1, Tail1, n)
  IN  AddLen(SetNext(l2, l2.Prev[n], n), 1)

\* A node leaves the list with both its fields cleared.
Cleared(l, n) == SetNext(SetPrev(l, n, nil), n, nil)

LPop(l) ==
  LET n  == l.Next[Head1]
      l1 == SetNext(l, Head1, l.Next[n])
      l2 == SetPrev(l1, l1.Next[n], Head1)
  IN  AddLen(Cleared(l2, n), -1)

\* Wrong: the new last node still points to the node that left.
RPopDangling(l) ==
  LET n == l.Prev[Tail1] IN AddLen(Cleared(SetPrev(l, Tail1, l.Prev[n]), n), -1)

RPop(l) ==
  LET n  == l.Prev[Tail1]
      l1 == SetPrev(l, Tail1, l.Prev[n])
      l2 == SetNext(l1, l1.Prev[n], Tail1)
  IN  AddLen(Cleared(l2, n), -1)

InsertBefore(l, x, target) ==
  LET now == Find(l, l.Next[Head1], target, 0).node
      n   == Fresh(l)
      l1  == NewNode(l, n, l.Prev[now], now, x)
      l2  == SetPrev(l1, now, n)
  IN  AddLen(SetNext(l2, l2.Prev[n], n), 1)

InsertAfter(l, x, target) ==
  LET now == Find(l, l.Next[Head1], target, 0).node
      n   == Fresh(l)
      l1  == NewNode(l, n, now, l.Next[now], x)
      l2  == SetNext(l1, now, n)
  IN  AddLen(SetPrev(l2, l2.Next[n], n), 1)

\* Unlink nodes with the value x along f until limit of them are gone.
RECURSIVE RemoveLoop(_, _, _, _, _, _)
RemoveLoop(l, forward, now, x, removed, limit) ==
  LET end == IF forward THEN Tail1 ELSE Head1
      tem == IF forward THEN l.Next[now] ELSE l.Prev[now]
      l1  == SetNext(l, l.Prev[now], l.Next[now])
      l2  == SetPrev(l1, l1.Next[now], l1.Prev[now])
  IN IF now = end \/ removed >= limit THEN [list |-> l, removed |-> removed]
     ELSE IF l.Val[now] = x
     THEN RemoveLoop(AddLen(Cleared(l2, now), -1), forward, tem, x, removed + 1, limit)
     ELSE RemoveLoop(l, forward, tem, x, removed, limit)

RemoveElement(l, x, count) ==
  IF l.len = 0 THEN [list |-> l, removed |-> 0]
  ELSE IF count = 0 THEN RemoveLoop(l, TRUE, l.Next[Head1], x, 0, l.len)
  ELSE IF count > 0 THEN RemoveLoop(l, TRUE, l.Next[Head1], x, 0, count)
  ELSE RemoveLoop(l, FALSE, l.Prev[Tail1], x, 0, -count)

Clear(l) ==
  LET first == l.Next[Head1]
      last  == l.Prev[Tail1]
      l1 == SetPrev(SetNext(l, Head1, Tail1), Tail1, Head1)
  IN IF l.len = 0 THEN l
     ELSE SetNext(SetPrev([l1 EXCEPT !.len = 0], first, nil), last, nil)

\* Wrong: the node before the kept ones is not cut off.
TrimKeepsPrev(l, start, end) ==
  LET b == Bounds(l, start, end)
      s == Walk(l.Next, l.Next[Head1], b.start)
      e == Walk(l.Next, l.Next[Head1], b.end)
  IN IF l.len = 0 THEN l ELSE IF b.empty THEN Clear(l)
     ELSE [SetNext(SetPrev(SetNext(l, Head1, s), Tail1, e), e, Tail1)
             EXCEPT !.len = b.end - b.start + 1]

\* The kept nodes are cut off from the others and linked to head and tail.
Trim(l, start, end) ==
  LET b  == Bounds(l, start, end)
      s  == Walk(l.Next, l.Next[Head1], b.start)
      e  == Walk(l.Next, l.Next[Head1], b.end)
      l1 == SetPrev(l, l.Next[Head1], nil)
      l2 == SetNext(l1, l1.Prev[Tail1], nil)
      l3 == IF l2.Prev[s] # nil THEN SetNext(l2, l2.Prev[s], nil) ELSE l2
      l4 == IF l3.Next[e] # nil THEN SetPrev(l3, l3.Next[e], nil) ELSE l3
      l5 == SetPrev(SetNext(l4, Head1, s), s, Head1)
      l6 == SetNext(SetPrev(l5, Tail1, e), e, Tail1)
  IN IF l.len = 0 THEN l ELSE IF b.empty THEN Clear(l)
     ELSE [l6 EXCEPT !.len = b.end - b.start + 1]

-----------------------------------------------------------------------------
(* A client uses the list *)

ListInit == list = NewList /\ out = Nil

Leaves(l, reply) == list' = Collected(l) /\ out' = reply

BulkAt(n) == IF n = nil THEN Nil ELSE Bulk(list.Val[n])

DoLPush(x) == list.len < MaxLen /\ Leaves(LPush(list, x), Ok)
DoRPush(x) == list.len < MaxLen /\ Leaves(RPush(list, x), Ok)

DoLPop ==
  \/ list.len = 0 /\ Leaves(list, Nil)
  \/ list.len # 0 /\ Leaves(LPop(list), Bulk(list.Val[list.Next[Head1]]))

DoRPop ==
  \/ list.len = 0 /\ Leaves(list, Nil)
  \/ list.len # 0 /\ Leaves(RPop(list), Bulk(list.Val[list.Prev[Tail1]]))

DoSet(i, x) ==
  LET n == Index(list, i) IN
  \/ n = nil /\ Leaves(list, Error("index"))
  \/ n # nil /\ Leaves([list EXCEPT !.Val[n] = x], Ok)

DoInsertBefore(x, target) ==
  \/ Pos(list, target) = -1 /\ Leaves(list, Int64(-1))
  \/ /\ Pos(list, target) # -1 /\ list.len < MaxLen
     /\ Leaves(InsertBefore(list, x, target), Int64(Pos(list, target)))

DoInsertAfter(x, target) ==
  \/ Pos(list, target) = -1 /\ Leaves(list, Int64(-1))
  \/ /\ Pos(list, target) # -1 /\ list.len < MaxLen
     /\ Leaves(InsertAfter(list, x, target), Int64(Pos(list, target) + 1))

DoRemoveElement(x, count) ==
  LET r == RemoveElement(list, x, count) IN Leaves(r.list, Int64(r.removed))

DoTrim(start, end) == Leaves(Trim(list, start, end), Ok)

Arg == -MaxArg .. MaxArg

ListNext ==
  \/ DoLPop \/ DoRPop
  \/ \E x \in Elem :
       \/ DoLPush(x) \/ DoRPush(x)
       \/ \E i \in Arg : DoSet(i, x) \/ DoRemoveElement(x, i)
       \/ \E target \in Elem : DoInsertBefore(x, target) \/ DoInsertAfter(x, target)
  \/ \E start, end \in Arg : DoTrim(start, end)

ListSpec == ListInit /\ [][ListNext]_listVars

-----------------------------------------------------------------------------
(* Properties *)

\* Next and Prev describe the same list, of length len, and nothing else can be
\* reached from it: no operation of list_struct.go leaves a node that points to
\* one that has left, or keeps one that has left alive.
WellLinked ==
  LET ns == Forward(list) IN
  /\ Backward(list) = Reversed(ns)
  /\ list.len = Len(ns)
  /\ DOMAIN list.Next = {Head1, Tail1} \cup {ns[i] : i \in DOMAIN ns}
  /\ list.Prev[Head1] = nil /\ list.Next[Tail1] = nil

\* Index and Range, from whichever end they walk, find the elements that the
\* list has at these positions, for every index, also negative or too large (the
\* handlers keep no empty list). LPOS walks the nodes with three counters (RANK,
\* COUNT, MAXLEN); for every combination of options its reply is the one the
\* positions of the element in the list give.
ReadsRight ==
  LET s == Values(list) IN
  list.len # 0 =>
    /\ \A i \in Arg :
         /\ BulkAt(Index(list, i)) = BulkOrNil(ElementAt(s, i))
         /\ \A j \in Arg : Range(list, i, j) = RangeOf(s, i, j)
    /\ \A x \in Elem, rank \in Arg, count, maxlen \in -1 .. MaxArg :
         LET opt == [rank |-> rank, count |-> count, maxlen |-> maxlen]
         IN  LPos(list, x, opt) = LPosReply(s, x, opt)

Sequence == INSTANCE SeqList WITH seq <- Values(list), reply <- out

\* The linked list implements the sequence: every operation changes the order
\* of elements, and returns, what the sequence operation does.
ImplementsSequence == Sequence!SeqSpec
=============================================================================
