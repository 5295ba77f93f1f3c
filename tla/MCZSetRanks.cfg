SPECIFICATION ZSetSpec
CONSTANTS
  Member = {1, 2, 3}
  MaxLevel = 2
  Score = {1, 2}
  MaxRank = 1
  MaxSpan = 4
\* No operation is called when a span exceeds its bound.
CHECK_DEADLOCK FALSE
INVARIANTS
  RanksRight
