SPECIFICATION MCSpec
CONSTANTS
  k1 = k1
  k2 = k2
  k3 = k3
  p3 = p3
  Proc = {p1, p2, p3}
  Key = {k1, k2, k3}
  NumLocks = 2
  HashKey <- MCHashKey
INVARIANTS
  KeyExclusion
  NoCircularWait
PROPERTIES
  ImplementsKeyLocks
  EveryCallReturns
