-------------------------------- MODULE Text --------------------------------
(***************************************************************************)
(* Two algorithms on strings: util.PatternMatch, by which KEYS selects, and *)
(* the range of GETRANGE. A string is a sequence of character codes. The   *)
(* pattern is put together from the pieces that the comment of             *)
(* PatternMatch documents, each with the characters it stands for.         *)
(***************************************************************************)
EXTENDS Integers, Sequences

CONSTANTS
  Letter,      \* codes of letters
  MaxPieces,   \* bound: a pattern has at most so many pieces
  MaxText      \* bound: a string has at most so many characters

VARIABLES
  pieces,      \* the pattern
  text         \* the string

textVars == <<pieces, text>>

Star == 42          \* *
Hyphen == 45        \* -
Question == 63      \* ?
Open == 91          \* [
Backslash == 92     \* \
Close == 93         \* ]
Caret == 94         \* ^

Suffix(s, i) == SubSeq(s, i, Len(s))

Verdict(b) == IF b THEN "yes" ELSE "no"

OnlyStars(pattern) == \A i \in DOMAIN pattern : pattern[i] = Star

RECURSIVE SkipStars(_)
SkipStars(pattern) ==
  IF pattern # <<>> /\ Head(pattern) = Star THEN SkipStars(Tail(pattern)) ELSE pattern

\* Wrong: the end of a range is not in it.
InRangeOpen(c, start, end) == c >= start /\ c < end

InRange(c, start, end) == c >= start /\ c <= end

\* The class from position i on: where it closes (0 if it does not, or if a
\* hyphen has no end) and whether c is in it.
RECURSIVE Class(_, _, _, _)
Class(pattern, i, c, match) ==
  LET n == Len(pattern)
      wrong == [close |-> 0, match |-> FALSE]
  IN IF i > n THEN wrong
     ELSE CASE pattern[i] = Backslash ->
                 IF i = n THEN wrong ELSE Class(pattern, i + 2, c, match \/ pattern[i + 1] = c)
            [] pattern[i] = Close -> [close |-> i, match |-> match]
            [] pattern[i] = Hyphen ->
                 IF i = n \/ pattern[i + 1] = Close THEN wrong
                 ELSE Class(pattern, i + 2, c, match \/ InRange(c, pattern[i - 1], pattern[i + 1]))
            [] OTHER -> Class(pattern, i + 1, c, match \/ pattern[i] = c)

\* PatternMatch. After a star the next character of the pattern is looked for
\* as it is. The slice behind it is out of range when it is not found, which
\* panics. An escaped character is skipped, as a case does not fall through.
\* Loop is one turn of the loop, Scan the one after a star.
RECURSIVE PatternMatch(_, _), Loop(_, _), Scan(_, _)
PatternMatch(pattern, src) ==
  IF pattern = <<>> THEN Verdict(src = <<>>)
  ELSE IF src = <<>> THEN Verdict(OnlyStars(pattern))
  ELSE Loop(pattern, src)
Loop(pattern, src) ==
  LET rest == SkipStars(pattern)
      not  == Len(pattern) > 1 /\ pattern[2] = Caret
      class == Class(pattern, IF not THEN 3 ELSE 2, Head(src), FALSE)
  IN IF src = <<>> THEN Verdict(OnlyStars(pattern))
     ELSE IF pattern = <<>> THEN "no"
     ELSE CASE Head(pattern) = Star -> IF rest = <<>> THEN "yes" ELSE Scan(rest, src)
            [] Head(pattern) = Question -> Loop(Tail(pattern), Tail(src))
            [] Head(pattern) = Open ->
                 IF class.close # 0 /\ class.match # not
                 THEN Loop(Suffix(pattern, class.close + 1), Tail(src)) ELSE "no"
            [] Head(pattern) = Backslash ->
                 IF Len(pattern) > 1 THEN Loop(Suffix(pattern, 3), src) ELSE "no"
            [] OTHER ->
                 IF Head(pattern) = Head(src) THEN Loop(Tail(pattern), Tail(src)) ELSE "no"
Scan(pattern, src) ==
  LET found == {i \in DOMAIN src : src[i] = Head(pattern)}
      first == CHOOSE i \in found : \A j \in found : i <= j
      r     == PatternMatch(Tail(pattern), Suffix(src, first + 1))
  IN IF src = <<>> THEN "no"
     ELSE IF found = {} THEN "panic"
     ELSE IF r = "no" THEN Scan(pattern, Suffix(src, first + 1)) ELSE r

\* Wrong: the last character is cut off when end is beyond it.
EndCutLow(end, length) == IF end >= length THEN length - 2 ELSE end

EndCut(end, length) == IF end >= length THEN length - 1 ELSE end

\* GETRANGE start end on a string that exists.
GetRange(s, start, end) ==
  LET n    == Len(s)
      from == IF start >= 0 THEN start ELSE IF n + start < 0 THEN 0 ELSE n + start
      upto == EndCut(IF end < 0 THEN n + end ELSE end, n)
  IN  IF n = 0 \/ from > n \/ upto < from THEN <<>> ELSE SubSeq(s, from + 1, upto + 1)

-----------------------------------------------------------------------------

letterA == CHOOSE c \in Letter : \A d \in Letter : c <= d

Literal(c) == [chars |-> <<c>>, set |-> {c}]
AnyNumber  == [chars |-> <<Star>>, set |-> {}]
Escaped    == [chars |-> <<Backslash, letterA>>, set |-> {letterA}]

Piece ==
  {Literal(c) : c \in {letterA, letterA + 1}} \cup
  {AnyNumber, Escaped,
   [chars |-> <<Question>>, set |-> Letter],
   [chars |-> <<Open, letterA, letterA + 1, Close>>, set |-> {letterA, letterA + 1}],
   [chars |-> <<Open, Caret, letterA, Close>>, set |-> Letter \ {letterA}],
   [chars |-> <<Open, letterA, Hyphen, letterA + 1, Close>>, set |-> {letterA, letterA + 1}],
   [chars |-> <<Open, Backslash, letterA, Close>>, set |-> {letterA}]}

RECURSIVE Chars(_)
Chars(ps) == IF ps = <<>> THEN <<>> ELSE Head(ps).chars \o Chars(Tail(ps))

TextInit == pieces = <<>> /\ text = <<>>

\* A client thinks of a longer pattern, or of a longer string.
LongerPattern(p) == Len(pieces) < MaxPieces /\ pieces' = Append(pieces, p) /\ UNCHANGED text

LongerText(c) == Len(text) < MaxText /\ text' = Append(text, c) /\ UNCHANGED pieces

TextNext == (\E p \in Piece : LongerPattern(p)) \/ (\E c \in Letter : LongerText(c))

TextSpec == TextInit /\ [][TextNext]_textVars

-----------------------------------------------------------------------------
(* Properties *)

\* What the comment of PatternMatch says of a pattern.
RECURSIVE Means(_, _)
Means(ps, s) ==
  IF ps = <<>> THEN s = <<>>
  ELSE IF Head(ps) = AnyNumber THEN \E i \in 1 .. Len(s) + 1 : Means(Tail(ps), Suffix(s, i))
  ELSE s # <<>> /\ Head(s) \in Head(ps).set /\ Means(Tail(ps), Tail(s))

\* No escapes outside classes, and a star is followed by a star, by a character
\* that stands for itself, or by nothing.
Simple(ps) ==
  /\ \A i \in DOMAIN ps : ps[i] # Escaped
  /\ \A i \in 1 .. Len(ps) - 1 :
       ps[i] = AnyNumber => Len(ps[i + 1].chars) = 1 /\ ps[i + 1].chars # <<Question>>

\* On simple patterns PatternMatch accepts exactly what its comment says; a
\* string that it should refuse can make it panic instead, but only if a star is
\* followed by a character which does not occur any more. The search is complete
\* although it never returns to an earlier star, also with classes in between.
PatternsRight ==
  Simple(pieces) =>
    LET v == PatternMatch(Chars(pieces), text) IN
    /\ v = "yes" <=> Means(pieces, text)
    /\ v = "panic" => \E i \in 1 .. Len(pieces) - 1 : pieces[i] = AnyNumber

\* GETRANGE returns the characters from start to end, both included and both
\* counted from the end when negative, for all arguments up to one beyond both ends.
GetRangeRight ==
  pieces = <<>> =>
    LET n == Len(text)
        at(i) == IF i < 0 THEN n + i ELSE i
    IN \A start, end \in -(n + 1) .. n + 1 :
         LET inside == {i \in 1 .. n : at(start) <= i - 1 /\ i - 1 <= at(end)}
         IN GetRange(text, start, end) =
              IF inside = {} THEN <<>>
              ELSE LET from == CHOOSE i \in inside : \A j \in inside : i <= j
                       upto == CHOOSE i \in inside : \A j \in inside : i >= j
                   IN  SubSeq(text, from, upto)
=============================================================================
