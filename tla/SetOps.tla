------------------------------- MODULE SetOps -------------------------------
(***************************************************************************)
(* The set commands of pkg/memdb/set.go on the sets of set_struct.go, one  *)
(* client at a time: for each handler the replies it can give and what it  *)
(* leaves in the map m, which assigns a value to every key. Where Go       *)
(* iterates over a map or draws random members, every choice is an outcome.*)
(***************************************************************************)
EXTENDS Integers, Sequences, FiniteSets

CONSTANTS EmptyMember   \* the member "", if it is one

None      == [t |-> "none", m |-> {}]
Str       == [t |-> "string", m |-> {}]
SetVal(S) == [t |-> "set", m |-> S]

IsSet(v) == v.t = "set"

\* Replies.
Number(n)  == [t |-> "int", n |-> n, m |-> {}]
Members(S) == [t |-> "members", n |-> 0, m |-> S]
Nil        == [t |-> "nil", n |-> 0, m |-> {}]
Ok         == [t |-> "ok", n |-> 0, m |-> {}]
WrongType  == [t |-> "wrongtype", n |-> 0, m |-> {}]
Panic      == [t |-> "panic", n |-> 0, m |-> {}]   \* the handler panics

Outcome(reply, m) == [reply |-> reply, map |-> m]

Smaller(a, b) == IF a < b THEN a ELSE b

-----------------------------------------------------------------------------
(* Set *)

\* Set.Union, Intersect and Difference of a sequence of sets.
Union(sets) == UNION {sets[i] : i \in DOMAIN sets}

\* Intersect goes through the members of a smallest set only.
Intersect(sets) ==
  LET smallest == CHOOSE i \in DOMAIN sets :
                    \A j \in DOMAIN sets : Cardinality(sets[i]) <= Cardinality(sets[j])
  IN  {x \in sets[smallest] : \A j \in DOMAIN sets : x \in sets[j]}

Difference(sets) == Head(sets) \ Union(Tail(sets))

\* Set.Random(n): n distinct members, all of them if there are fewer, and for
\* a negative n that many draws with repetition.
Random(S, n) ==
  IF n >= 0 THEN {T \in SUBSET S : Cardinality(T) = Smaller(n, Cardinality(S))}
  ELSE {T \in SUBSET S : (S = {} \/ T # {}) /\ Cardinality(T) <= -n}

\* What n calls of Pop take and what is given back: a single Pop is answered
\* as it is, a series ends at the first "" (also when "" was a member).
Pops(S, n) ==
  IF n = 1 /\ S = {} THEN {[taken |-> {}, given |-> {EmptyMember}]}
  ELSE IF n = 1 THEN {[taken |-> {x}, given |-> {x}] : x \in S}
  ELSE {[taken |-> T, given |-> T] :
          T \in {U \in SUBSET (S \ {EmptyMember}) :
                   Cardinality(U) = Smaller(n, Cardinality(S))}}
       \cup {[taken |-> T \cup {EmptyMember}, given |-> T] :
          T \in {U \in SUBSET (S \ {EmptyMember}) :
                   EmptyMember \in S /\ Cardinality(U) < n}}

-----------------------------------------------------------------------------
(* Handlers on one key: what they do once they have the value of the key *)

\* Wrong: an emptied set stays in the map.
OrEmptied(S) == SetVal(S)

\* The value a handler leaves when it deletes a set it has emptied.
OrDeleted(S) == IF S = {} THEN None ELSE SetVal(S)

\* A handler that answers absent for a missing key and WRONGTYPE for a string.
OnSet(m, k, absent, outcomes) ==
  IF m[k] = None THEN {Outcome(absent, m)}
  ELSE IF ~IsSet(m[k]) THEN {Outcome(WrongType, m)} ELSE outcomes

SAdd(m, k, args) ==
  LET S == m[k].m IN
  IF m[k] = Str THEN {Outcome(WrongType, m)}
  ELSE {Outcome(Number(Cardinality(args \ S)), [m EXCEPT ![k] = SetVal(S \cup args)])}

SRem(m, k, args) ==
  LET S == m[k].m IN
  OnSet(m, k, Number(0),
    {Outcome(Number(Cardinality(S \cap args)), [m EXCEPT ![k] = OrDeleted(S \ args)])})

\* With count 0 nothing is popped and the key stays, even with an empty set.
SPop(m, k, n) ==
  LET S == m[k].m IN
  OnSet(m, k, Nil,
    IF n = 0 THEN {Outcome(Members({}), m)}
    ELSE {Outcome(Members(p.given), [m EXCEPT ![k] = OrDeleted(S \ p.taken)]) :
            p \in Pops(S, n)})

SCard(m, k) == OnSet(m, k, Number(0), {Outcome(Number(Cardinality(m[k].m)), m)})

SIsMember(m, k, x) ==
  OnSet(m, k, Number(0), {Outcome(Number(IF x \in m[k].m THEN 1 ELSE 0), m)})

SMembers(m, k) == OnSet(m, k, Members({}), {Outcome(Members(m[k].m), m)})

SRandMember(m, k, n) ==
  OnSet(m, k, Nil, {Outcome(IF T = {} THEN Nil ELSE Members(T), m) : T \in Random(m[k].m, n)})

\* SMOVE leaves the source in the map when it takes its last member.
SMove(m, src, des, x) ==
  IF m[src] = None THEN {Outcome(Number(0), m)}
  ELSE IF Str \in {m[src], m[des]} THEN {Outcome(WrongType, m)}
  ELSE IF x \notin m[src].m THEN {Outcome(Number(0), m)}
  ELSE LET taken == [m EXCEPT ![src] = SetVal(@.m \ {x})]
       IN  {Outcome(Number(1), [taken EXCEPT ![des] = SetVal(@.m \cup {x})])}

-----------------------------------------------------------------------------
(* Handlers on several keys: the result from the values read, in key order *)

\* A result: a set, WRONGTYPE or a panic.
Result(reply) == [reply |-> reply, set |-> {}]
ResultSet(S)  == [reply |-> Members(S), set |-> S]

\* The sets among the values read; absent keys are left out.
SetsOf(vals) ==
  LET present == SelectSeq(vals, LAMBDA v : v # None)
  IN  [i \in DOMAIN present |-> present[i].m]

SUnion(vals) ==
  IF Str \in {vals[i] : i \in DOMAIN vals} THEN Result(WrongType)
  ELSE ResultSet(Union(SetsOf(vals)))

\* With no set among the keys the first set is taken out of an empty slice.
SInter(vals) ==
  IF Str \in {vals[i] : i \in DOMAIN vals} THEN Result(WrongType)
  ELSE IF SetsOf(vals) = <<>> THEN Result(Panic)
  ELSE ResultSet(Intersect(SetsOf(vals)))

\* An absent first key gives the empty set, whatever the others are.
SDiff(vals) ==
  IF vals[1] = None THEN ResultSet({})
  ELSE IF Str \in {vals[i] : i \in DOMAIN vals} THEN Result(WrongType)
  ELSE ResultSet(Difference(SetsOf(vals)))

-----------------------------------------------------------------------------
(* What a command does on its own; STORE commands are in module SetDb *)

ReadSeveral(m, vals, command) ==
  LET r == CASE command.op = "sunion" -> SUnion(vals)
             [] command.op = "sinter" -> SInter(vals)
             [] command.op = "sdiff"  -> SDiff(vals)
  IN  {Outcome(r.reply, m)}

Outcomes(m, command) ==
  LET op == command.op
      k  == command.keys[1]
      x  == CHOOSE y \in command.args : TRUE
      vals == [i \in DOMAIN command.keys |-> m[command.keys[i]]]
  IN CASE op = "set"       -> IF IsSet(m[k]) THEN {Outcome(WrongType, m)}
                              ELSE {Outcome(Ok, [m EXCEPT ![k] = Str])}
       [] op = "del"       -> {Outcome(Number(IF m[k] = None THEN 0 ELSE 1),
                                       [m EXCEPT ![k] = None])}
       [] op = "sadd"      -> SAdd(m, k, command.args)
       [] op = "srem"      -> SRem(m, k, command.args)
       [] op = "spop"      -> SPop(m, k, command.n)
       [] op = "scard"     -> SCard(m, k)
       [] op = "sismember" -> SIsMember(m, k, x)
       [] op = "smembers"  -> SMembers(m, k)
       [] op = "srandmember" -> SRandMember(m, k, command.n)
       [] op = "smove"     -> SMove(m, k, command.keys[2], x)
       [] OTHER            -> ReadSeveral(m, vals, command)
=============================================================================
