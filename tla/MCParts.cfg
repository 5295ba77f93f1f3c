SPECIFICATION MCSpec
CONSTANTS
  Elem = {e1, e2}
  MaxLen = 4
  MaxArg <- MCMaxArg
  Member = {1, 2, 3}
  MaxLevel = 2
  Score = {1, 2}
  MaxRank = 4
  MaxSpan = 4
  TTLKey = {"a", "b", "c", "d"}
  Time = {1, 2}
  Letter = {97, 98, 99}
  MaxPieces = 3
  MaxText = 3
  Streams <- AllStreams
  MaxNumber = 3
  Replica = {n1, n2}
  Writes = {"write", "spop"}
  LocalWrites = {"incrby"}
  Reads = {"read"}
  Info = "info"
  State <- MCState
  Runs <- MCRuns
  Empty <- MCEmpty
  NoReply = NoReply
  MaxCalls = 3
  MaxFaults = 3
SYMMETRY PartsSymmetry
\* The parser stops at the end of the stream, and the texts, the spans of a
\* sorted set and the cluster at their bounds.
CHECK_DEADLOCK FALSE
INVARIANTS
  WellLinked
  ReadsRight
  OrderRight
  SpansNeverNarrow
  PatternsRight
  GetRangeRight
  FramesKept
  StateFromLog
  AnswersRight
PROPERTIES
  ImplementsSequence
  ImplementsTTLMap
