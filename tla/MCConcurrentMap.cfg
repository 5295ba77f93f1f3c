SPECIFICATION MCSpec
CONSTANTS
  Proc = {p1, p2}
  Key = {1, 2, 3, 4}
  Val = {a, b}
  NoVal = NoVal
  NoCall = NoCall
  NumShards = 2
  ShardOf <- MCShardOf
  TreeifyThreshold = 3
  UntreeifyThreshold = 1
SYMMETRY ProcSymmetry
INVARIANTS
  ShardsSound
  CountExact
  KeysComplete
PROPERTIES
  ImplementsMap
