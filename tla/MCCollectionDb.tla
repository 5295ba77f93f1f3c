--------------------------- MODULE MCCollectionDb ---------------------------
(* Instances of CollectionDb for TLC: sets of commands and small bounds. *)
EXTENDS CollectionDb

CONSTANTS k1, k2, e1, e2, f1, f2

NoOpt == [rank |-> 0]

Cmd(op, keys, args, i, j) ==
  [op |-> op, keys |-> keys, args |-> args, i |-> i, j |-> j, opt |-> NoOpt]

Move(src, des, from, to) ==
  [Cmd("lmove", <<src, des>>, <<>>, 0, 0) EXCEPT !.opt = [from |-> from, to |-> to]]

\* Every list command on one key, with all the ways to reply of each.
Lists ==
  { Cmd("lpush", <<k1>>, <<e1, e2>>, 0, 0), Cmd("rpush", <<k1>>, <<e1>>, 0, 0),
    Cmd("lpushx", <<k1>>, <<e2>>, 0, 0), Cmd("rpushx", <<k1>>, <<e2>>, 0, 0),
    Cmd("lpop", <<k1>>, <<>>, 0, 0), Cmd("rpop", <<k1>>, <<>>, 2, 0),
    Cmd("lset", <<k1>>, <<e1>>, -1, 0), Cmd("lrem", <<k1>>, <<e1>>, -1, 0),
    Cmd("ltrim", <<k1>>, <<>>, 1, 1), Cmd("llen", <<k1>>, <<>>, 0, 0),
    Cmd("lindex", <<k1>>, <<>>, 1, 0), Cmd("lrange", <<k1>>, <<>>, 0, -1),
    [Cmd("lpos", <<k1>>, <<e1>>, 0, 0) EXCEPT !.opt = [rank |-> -1, count |-> 0, maxlen |-> -1]],
    Cmd("set", <<k1>>, <<>>, 0, 0), Cmd("del", <<k1>>, <<>>, 0, 0) }

\* Elements move between two lists, and within one, while others read them.
Moves ==
  { Cmd("rpush", <<k1>>, <<e1, e2>>, 0, 0), Cmd("set", <<k2>>, <<>>, 0, 0),
    Move(k1, k2, "left", "right"), Move(k2, k1, "right", "left"),
    Move(k1, k1, "left", "right"),
    Cmd("lrange", <<k1>>, <<>>, 0, -1), Cmd("lpop", <<k2>>, <<>>, 0, 0),
    Cmd("del", <<k2>>, <<>>, 0, 0) }

\* Every hash command on one key: words and numbers, half of them no integers.
Hashes ==
  { Cmd("hset", <<k1>>, <<<<f1, Word>>, <<f2, Num(2)>>>>, 0, 0),
    Cmd("hsetnx", <<k1>>, <<f1, Num(1)>>, 0, 0),
    Cmd("hincrby", <<k1>>, <<f1>>, 1, 0), Cmd("hincrbyfloat", <<k1>>, <<f2>>, 1, 0),
    Cmd("hdel", <<k1>>, <<f1>>, 0, 0), Cmd("hdel", <<k1>>, <<f1, f2>>, 0, 0),
    Cmd("hgetall", <<k1>>, <<>>, 0, 0), Cmd("hvals", <<k1>>, <<>>, 0, 0),
    Cmd("hmget", <<k1>>, <<f1, f2>>, 0, 0), Cmd("hrandfield", <<k1>>, <<>>, 1, 1),
    Cmd("set", <<k1>>, <<>>, 0, 0), Cmd("del", <<k1>>, <<>>, 0, 0) }

\* Fields without bytes are incremented.
BlankFields ==
  { Cmd("hset", <<k1>>, <<<<f1, Blank>>>>, 0, 0), Cmd("hset", <<k1>>, <<<<f2, Word>>>>, 0, 0),
    Cmd("hincrby", <<k1>>, <<f1>>, 1, 0), Cmd("hincrbyfloat", <<k1>>, <<f1>>, 2, 0),
    Cmd("hdel", <<k1>>, <<f1>>, 0, 0), Cmd("hdel", <<k1>>, <<f2>>, 0, 0),
    Cmd("hlen", <<k1>>, <<>>, 0, 0), Cmd("hget", <<k1>>, <<f1>>, 0, 0),
    Cmd("hexists", <<k1>>, <<f1>>, 0, 0), Cmd("hstrlen", <<k1>>, <<f1>>, 0, 0),
    Cmd("hkeys", <<k1>>, <<>>, 0, 0), Cmd("hrandfield", <<k1>>, <<>>, -3, 0) }

\* Every command on sorted sets; members are numbers.
Score(n) == [float |-> TRUE, n |-> n]
BadScore == [float |-> FALSE, n |-> 0]

ZSets ==
  { Cmd("zadd", <<k1>>, <<<<Score(1), 1>>, <<Score(1), 2>>>>, 0, 0),
    Cmd("zadd", <<k1>>, <<<<Score(2), 1>>, <<BadScore, 2>>>>, 0, 0),
    Cmd("zincrby", <<k1>>, <<2>>, 1, 0), Cmd("zrem", <<k1>>, <<1, 2>>, 0, 0),
    Cmd("zremrangebyrank", <<k1>>, <<>>, 0, 0), Cmd("zremrangebyscore", <<k1>>, <<>>, 2, 3),
    Cmd("zcard", <<k1>>, <<>>, 0, 0), Cmd("zcount", <<k1>>, <<>>, 2, 3),
    Cmd("zrange", <<k1>>, <<>>, 0, -1), Cmd("zrevrange", <<k1>>, <<>>, 0, -1),
    [Cmd("zrangebyscore", <<k1>>, <<>>, 1, 3) EXCEPT !.opt = [offset |-> 1, count |-> 0]],
    Cmd("zrank", <<k1>>, <<1>>, 0, 0), Cmd("zrevrank", <<k1>>, <<2>>, 0, 0),
    Cmd("zscore", <<k1>>, <<2>>, 0, 0), Cmd("del", <<k1>>, <<>>, 0, 0) }

\* Deadlines of source and destination pass.
Expiring ==
  { Cmd("rpush", <<k1>>, <<e1>>, 0, 0), Cmd("lpushx", <<k1>>, <<e2>>, 0, 0),
    Move(k1, k2, "left", "right"), Move(k2, k1, "left", "right"),
    Cmd("lpop", <<k2>>, <<>>, 0, 0), Cmd("lrem", <<k1>>, <<e1>>, 0, 0),
    Cmd("ltrim", <<k1>>, <<>>, 1, 1), Cmd("hset", <<k2>>, <<<<f1, Word>>>>, 0, 0),
    Cmd("hdel", <<k2>>, <<f1>>, 0, 0), Cmd("zadd", <<k2>>, <<<<Score(1), 1>>>>, 0, 0) }

-----------------------------------------------------------------------------
(* One menu of commands is chosen at the start; deadlines pass in the last. *)

Menus == <<Lists, Moves, Hashes, BlankFields, ZSets, Expiring>>

AllCommands == UNION {Menus[i] : i \in DOMAIN Menus}

VARIABLE menu

MCInit == CollectionInit /\ menu \in DOMAIN Menus

MCNext ==
  /\ CollectionNext
  /\ UNCHANGED menu
  /\ \A c \in Proc : cmd'[c] \in Menus[menu] \cup {NoCommand}
  /\ passed' # {} => menu = Len(Menus)

ProcSymmetry == Permutations(Proc)

MCSpec == MCInit /\ [][MCNext]_<<collectionVars, menu>>
=============================================================================
