SPECIFICATION MCSpec
CONSTANTS
  s1 = s1
  s2 = s2
  c1 = c1
  c2 = c2
  t1 = t1
  t2 = t2
  u1 = u1
  u2 = u2
  Server = {s1, s2}
  Configs <- MCConfigs
  NoServer = NoServer
  MaxTroubles = 3
  Session = {c1, c2}
  MaxFrames <- MCFrames
  Target = {t1, t2}
  Targets <- MCTargets
  User = {u1, u2}
  NoTarget = NoTarget
  MaxBytes = 3
  MaxChanges = 2
\* The server stops after a signal, the proxy when its context is done, and the
\* node rests when it has joined or the troubles are used up.
CHECK_DEADLOCK FALSE
INVARIANTS
  RepliesInOrder
  BytesInOrder
PROPERTIES
  JoinFindsLeader
  JoinEnds
  SessionsEnd
  ServerStops
  Served
  ProxyStops
