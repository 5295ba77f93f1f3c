---------------------------- MODULE Collections ----------------------------
(* The commands on lists, hashes and sorted sets together, one client at a  *)
(* time.                                                                    *)
EXTENDS HashOps, ZSetOps

\* What a command may do on its own.
Outcomes(m, command) ==
  IF command.op \in HashCommands THEN HashOutcomes(m, command)
  ELSE IF command.op \in ZSetCommands THEN ZSetOutcomes(m, command)
  ELSE {Do(m, command)}

IsCollection(v) == IsList(v) \/ IsHash(v) \/ IsZSet(v)

\* A list or hash that a handler has emptied and not yet deleted.
Emptied(v) == IF IsList(v) THEN ListVal(<<>>) ELSE NewHash

PushOps == {"lpush", "rpush", "lpushx", "rpushx"}

\* The handlers that only read, and those that go on when the key was expired.
ReadOps == {"llen", "lindex", "lrange", "lpos"} \cup HashReads \cup ZSetReads
UnconcernedOps == PushOps \cup HashWrites \cup ZSetWrites \cup {"set"}

\* Operators on sequences of keys and of accesses.
Elements(s) == {s[i] : i \in DOMAIN s}
============================================================================
