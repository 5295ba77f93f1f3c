------------------------------ MODULE ListOps ------------------------------
(***************************************************************************)
(* Redis lists as sequences: what the operations of list_struct.go promise *)
(* (module List shows that the linked list keeps the promise), and what    *)
(* the handlers of list.go do with them, one client at a time. Indices     *)
(* count from 0 and negative ones from the end, as in the commands.        *)
(***************************************************************************)
EXTENDS Integers, Sequences, FiniteSets

\* The elements of s at the positions in P, in order.
KeepAt(s, P) ==
  [i \in 1 .. Cardinality(P) |-> s[CHOOSE p \in P : Cardinality({q \in P : q <= p}) = i]]

Absolute(s, i) == IF i < 0 THEN Len(s) + i ELSE i

\* The elements in the interval [start, end] of a command, cut to the list.
RangeOf(s, start, end) ==
  LET from == Absolute(s, start)
      to   == Absolute(s, end)
  IN  SubSeq(s, IF from < 0 THEN 1 ELSE from + 1, IF to >= Len(s) THEN Len(s) ELSE to + 1)

\* <<>> or the element at index i.
ElementAt(s, i) == RangeOf(s, i, i)

PutAt(s, i, x) ==
  [p \in DOMAIN s |-> IF p - 1 = Absolute(s, i) THEN x ELSE s[p]]

PositionsOf(s, x) == {p \in DOMAIN s : s[p] = x}

\* The occurrences of x that RemoveElement removes: all of them, or the first
\* count, or the last -count.
RemovedOf(s, x, count) ==
  LET P == PositionsOf(s, x) IN
  CASE count = 0 -> P
    [] count > 0 -> {p \in P : Cardinality({q \in P : q <= p}) <= count}
    [] count < 0 -> {p \in P : Cardinality({q \in P : q >= p}) <= -count}

InsertAt(s, i, x) == SubSeq(s, 1, i) \o <<x>> \o SubSeq(s, i + 1, Len(s))

FirstOf(s, x) == CHOOSE p \in PositionsOf(s, x) : \A q \in PositionsOf(s, x) : p <= q

-----------------------------------------------------------------------------
(* Replies *)

Int64(n)   == [t |-> "int", n |-> n, s |-> <<>>]
Array(s)   == [t |-> "array", n |-> 0, s |-> s]
Bulk(x)    == [t |-> "bulk", n |-> 0, s |-> <<x>>]
Nil        == [t |-> "nil", n |-> 0, s |-> <<>>]
Ok         == [t |-> "ok", n |-> 0, s |-> <<>>]
Error(why) == [t |-> why, n |-> 0, s |-> <<>>]

BulkOrNil(s) == IF s = <<>> THEN Nil ELSE Bulk(s[1])

\* LPOS: opt.rank is 0, opt.count or opt.maxlen is -1 when the option is not
\* given. Of the first maxlen elements, from the end for a negative rank, the
\* positions of x but for the first |rank| - 1; all of them for count 0.
LPosReply(s, x, opt) ==
  LET n       == Len(s)
      size    == IF opt.rank < 0 THEN -opt.rank ELSE opt.rank
      looked  == IF opt.maxlen <= 0 \/ opt.maxlen > n THEN n ELSE opt.maxlen
      order   == [i \in 1 .. looked |-> IF opt.rank < 0 THEN n - i ELSE i - 1]
      found   == SelectSeq(order, LAMBDA p : s[p + 1] = x)
      from    == IF size = 0 THEN 1 ELSE size
      wanted  == SubSeq(found, from, Len(found))
      given   == IF opt.count <= 0 \/ opt.count > Len(wanted) THEN wanted
                 ELSE SubSeq(wanted, 1, opt.count)
  IN IF given = <<>> THEN Nil
     ELSE IF opt.count = -1 THEN Int64(given[1]) ELSE Array(given)

-----------------------------------------------------------------------------
(* Handlers *)

None       == [t |-> "none", s |-> <<>>]
Str        == [t |-> "string", s |-> <<>>]
ListVal(s) == [t |-> "list", s |-> s]
IsList(v)  == v.t = "list"
WrongType  == Error("wrongtype")

\* The value a handler leaves when it deletes a list it has emptied.
OrDeleted(s) == IF s = <<>> THEN None ELSE ListVal(s)

Outcome(reply, m) == [reply |-> reply, map |-> m]

Reversed(s) == [i \in DOMAIN s |-> s[Len(s) + 1 - i]]

Pushed(op, s, args) ==
  IF op \in {"lpush", "lpushx"} THEN Reversed(args) \o s ELSE s \o args

\* LPUSH, RPUSH and, for existing keys only, LPUSHX and RPUSHX.
Push(m, k, op, args) ==
  LET s == Pushed(op, m[k].s, args) IN
  IF m[k] # None /\ ~IsList(m[k]) THEN Outcome(WrongType, m)
  ELSE IF m[k] = None /\ op \in {"lpushx", "rpushx"} THEN Outcome(Int64(0), m)
  ELSE Outcome(Int64(Len(s)), [m EXCEPT ![k] = ListVal(s)])

\* A handler that answers absent for a missing key, WRONGTYPE for another value.
OnList(m, k, absent, outcome) ==
  IF m[k] = None THEN Outcome(absent, m)
  ELSE IF ~IsList(m[k]) THEN Outcome(WrongType, m) ELSE outcome

\* LPOP and RPOP; n is 0 without a count.
Pop(m, k, op, n) ==
  LET s    == m[k].s
      num  == IF n > Len(s) \/ s = <<>> THEN Len(s) ELSE IF n = 0 THEN 1 ELSE n
      out  == IF op = "lpop" THEN SubSeq(s, 1, num)
              ELSE Reversed(SubSeq(s, Len(s) + 1 - num, Len(s)))
      rest == IF op = "lpop" THEN SubSeq(s, num + 1, Len(s)) ELSE SubSeq(s, 1, Len(s) - num)
  IN OnList(m, k, Nil,
       Outcome(IF n = 0 THEN BulkOrNil(out) ELSE Array(out), [m EXCEPT ![k] = OrDeleted(rest)]))

LSet(m, k, i, x) ==
  OnList(m, k, Error("no key"),
    IF ElementAt(m[k].s, i) = <<>> THEN Outcome(Error("index"), m)
    ELSE Outcome(Ok, [m EXCEPT ![k] = ListVal(PutAt(m[k].s, i, x))]))

LRem(m, k, count, x) ==
  LET s == m[k].s
      R == RemovedOf(s, x, count)
  IN OnList(m, k, Int64(0),
       Outcome(Int64(Cardinality(R)), [m EXCEPT ![k] = OrDeleted(KeepAt(s, DOMAIN s \ R))]))

LTrim(m, k, start, end) ==
  OnList(m, k, Ok, Outcome(Ok, [m EXCEPT ![k] = OrDeleted(RangeOf(m[k].s, start, end))]))

\* LMOVE from the side from of src to the side to of des.
LMove(m, src, des, from, to) ==
  LET s     == m[src].s
      x     == IF from = "left" THEN s[1] ELSE s[Len(s)]
      taken == [m EXCEPT ![src] = ListVal(IF from = "left" THEN Tail(s)
                                          ELSE SubSeq(s, 1, Len(s) - 1))]
      t     == taken[des].s
      moved == [taken EXCEPT ![des] = ListVal(IF to = "left" THEN <<x>> \o t ELSE Append(t, x))]
  IN OnList(m, src, Nil,
       IF s = <<>> THEN Outcome(Nil, [m EXCEPT ![src] = None])
       ELSE IF m[des] # None /\ ~IsList(m[des]) THEN Outcome(WrongType, m)
       ELSE Outcome(Bulk(x), [moved EXCEPT ![src] = OrDeleted(@.s)]))

\* What a list command, SET or DEL does on its own. It has an op, keys, elements (args), two
\* integers (i, j) and for LPOS and LMOVE its options (opt).
Do(m, command) ==
  LET op == command.op
      k  == command.keys[1]
      s  == m[k].s
      read(absent, reply) == OnList(m, k, absent, Outcome(reply, m))
  IN CASE op = "set" -> IF m[k] \notin {None, Str} THEN Outcome(WrongType, m)
                        ELSE Outcome(Ok, [m EXCEPT ![k] = Str])
       [] op = "del" -> Outcome(Int64(IF m[k] = None THEN 0 ELSE 1), [m EXCEPT ![k] = None])
       [] op \in {"lpush", "rpush", "lpushx", "rpushx"} -> Push(m, k, op, command.args)
       [] op \in {"lpop", "rpop"} -> Pop(m, k, op, command.i)
       [] op = "lset"   -> LSet(m, k, command.i, command.args[1])
       [] op = "lrem"   -> LRem(m, k, command.i, command.args[1])
       [] op = "ltrim"  -> LTrim(m, k, command.i, command.j)
       [] op = "lmove"  -> LMove(m, k, command.keys[2], command.opt.from, command.opt.to)
       [] op = "llen"   -> read(Int64(0), Int64(Len(s)))
       [] op = "lindex" -> read(Nil, BulkOrNil(ElementAt(s, command.i)))
       [] op = "lrange" -> read(Array(<<>>), Array(RangeOf(s, command.i, command.j)))
       [] op = "lpos"   -> read(Nil, LPosReply(s, command.args[1], command.opt))
=============================================================================
