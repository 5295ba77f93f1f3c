------------------------------- MODULE Values -------------------------------
(***************************************************************************)
(* The values a key of the database holds and the replies of the string    *)
(* and key commands. A []byte is told apart by what the handlers ask of    *)
(* it: whether strconv.ParseInt accepts it (then its integer) and, if not, *)
(* its length. Lists, sets, hashes and sorted sets are one value: the      *)
(* string commands only find out that they are not []byte.                 *)
(***************************************************************************)
EXTENDS Integers, FiniteSets

CONSTANTS
  MaxInt,   \* the largest int64; the smallest is -MaxInt - 1
  MaxLen    \* bound: texts of this length and longer are not told apart

ASSUME MaxIntAssumption == MaxInt \in Nat
ASSUME MaxLenAssumption == MaxLen \in Nat

None == [t |-> "none", n |-> 0]   \* no entry in the map
IntVal(n) == [t |-> "int", n |-> n]  \* a []byte that parses as the integer n

\* n bytes that do not parse as an integer.
Text(n) == [t |-> "text", n |-> IF n > MaxLen THEN MaxLen ELSE n]

Coll == [t |-> "coll", n |-> 0]   \* *List, *Set, *Hash or *ZSet

Value == [t : {"none", "int", "text", "coll"}, n : Int]

\* The type assertion val.([]byte).
IsBytes(v) == v.t \in {"int", "text"}

\* int64 addition wraps around.
AddInt64(x, y) == ((x + y + MaxInt + 1) % (2 * (MaxInt + 1))) - (MaxInt + 1)

\* len(strconv.FormatInt(n, 10))
FormatLen(n) ==
  LET a      == IF n < 0 THEN -n ELSE n
      digits == Cardinality({e \in 1 .. 8 : a >= 10 ^ e}) + 1
  IN  IF n < 0 THEN digits + 1 ELSE digits

\* len(b) of a []byte; an absent value counts as empty
Length(v) == IF v.t = "int" THEN FormatLen(v.n) ELSE v.n

-----------------------------------------------------------------------------
(* Replies. A bulk string is the value it carries. *)

Number(n)   == [t |-> "number", n |-> n]
Ok          == [t |-> "ok", n |-> 0]
Nil         == [t |-> "nil", n |-> 0]
WrongType   == [t |-> "wrongtype", n |-> 0]
Error       == [t |-> "error", n |-> 0]
TypeName(s) == [t |-> s, n |-> 0]

Reply ==
  [t : {"none", "int", "text", "coll", "string", "number", "ok", "nil", "wrongtype", "error"},
   n : Int]
=============================================================================
