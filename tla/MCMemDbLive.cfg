SPECIFICATION MCFairSpec
CONSTANTS
  k1 = k1
  k2 = k2
  Proc = {c1, c2}
  Key = {k1}
  Menus <- ExpiringMenu
  Command <- AllCommands
  NoCommand = NoCommand
  NoTTL = NoTTL
  MaxInt = 1
  MaxLen = 2
  MaxTime = 1
  NumShards = 2
  ShardFor <- ShardOfKey
PROPERTIES
  EveryCommandAnswered
  ExpiredKeysGo
