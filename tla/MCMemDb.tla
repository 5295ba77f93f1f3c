------------------------------ MODULE MCMemDb ------------------------------
(* Instances of MemDb for TLC: sets of commands and small bounds. *)
EXTENDS MemDbKVStore, TLC

CONSTANTS k1, k2

Cmd(op, keys, vals, opt, arg) ==
  [op |-> op, keys |-> keys, vals |-> vals, opt |-> opt, arg |-> arg]

\* Commands that read and write back, and commands on two keys: one client at
\* a time cannot get these wrong, two can.
ReadModifyWrite ==
  { Cmd("incr", <<k1>>, <<>>, {}, 0),
    Cmd("append", <<k1>>, <<Text(1)>>, {}, 0),
    Cmd("set", <<k1>>, <<IntVal(1)>>, {"nx", "get"}, 0),
    Cmd("mset", <<k1, k2>>, <<IntVal(0), IntVal(1)>>, {}, 0),
    Cmd("rename", <<k1, k2>>, <<>>, {}, 0),
    Cmd("rename", <<k2, k1>>, <<>>, {}, 0),
    Cmd("del", <<k1, k2>>, <<>>, {}, 0),
    Cmd("mget", <<k2, k1>>, <<>>, {}, 0) }

\* The other commands on one key, with values of every type.
SingleKey ==
  { Cmd("get", <<k1>>, <<>>, {}, 0),
    Cmd("strlen", <<k1>>, <<>>, {}, 0),
    Cmd("exists", <<k1>>, <<>>, {}, 0),
    Cmd("type", <<k1>>, <<>>, {}, 0),
    Cmd("ttl", <<k1>>, <<>>, {}, 0),
    Cmd("incrby", <<k1>>, <<>>, {}, -2),
    Cmd("decr", <<k1>>, <<>>, {}, 0),
    Cmd("decrby", <<k1>>, <<>>, {}, 2),
    Cmd("setrange", <<k1>>, <<Text(1)>>, {}, 1),
    Cmd("setnx", <<k1>>, <<IntVal(0)>>, {}, 0),
    Cmd("set", <<k1>>, <<IntVal(-1)>>, {"xx", "keepttl"}, 0),
    Cmd("set", <<k1>>, <<IntVal(-1)>>, {"xx", "nx"}, 0),
    Cmd("sadd", <<k1>>, <<>>, {}, 0),
    Cmd("del", <<k1>>, <<>>, {}, 0) }

\* Commands that set, compare and remove deadlines.
Deadlines ==
  { Cmd("setex", <<k1>>, <<IntVal(0)>>, {}, 1),
    Cmd("set", <<k1>>, <<IntVal(1)>>, {"ex"}, 2),
    Cmd("expire", <<k1>>, <<>>, {"gt"}, 2),
    Cmd("persist", <<k1>>, <<>>, {}, 0),
    Cmd("incr", <<k1>>, <<>>, {}, 0) }

\* Commands that keep or read the deadline or set one where there is none.
KeptDeadlines ==
  { Cmd("setex", <<k1>>, <<IntVal(0)>>, {}, 1),
    Cmd("set", <<k1>>, <<IntVal(1)>>, {"keepttl"}, 0),
    Cmd("expire", <<k1>>, <<>>, {"nx"}, 1),
    Cmd("ttl", <<k1>>, <<>>, {}, 0),
    Cmd("get", <<k1>>, <<>>, {}, 0) }

\* A key with a deadline that is moved to another name.
MovedDeadlines ==
  { Cmd("setex", <<k1>>, <<IntVal(0)>>, {}, 1),
    Cmd("rename", <<k1, k2>>, <<>>, {}, 0),
    Cmd("rename", <<k2, k1>>, <<>>, {}, 0),
    Cmd("exists", <<k2, k1>>, <<>>, {}, 0) }

\* Few commands, for liveness: deadlines, a plain write and a read.
Expiring ==
  { Cmd("setex", <<k1>>, <<IntVal(0)>>, {}, 1),
    Cmd("set", <<k1>>, <<IntVal(1)>>, {}, 0),
    Cmd("get", <<k1>>, <<>>, {}, 0) }

\* In Expiring, the value of plain SETs: it has no deadline and nothing but
\* DEL and RENAME, which are not in Expiring, may remove it.
Fresh == IntVal(1)

\* "CheckTTL checks ttl keys and delete expired keys": MemDb.CheckTTL deletes a
\* key only while the key holds a value that was given a deadline.
CheckTTLDeletesExpired ==
  [][\A c \in Proc : DeleteExpired(c) => db[CurrentKey(c)] # Fresh]_vars

ProcSymmetry == Permutations(Proc)

ShardOfKey == [k \in Key |-> IF k = k1 THEN NumShards ELSE 1]

-----------------------------------------------------------------------------
(* One menu of commands is chosen at the start. Where no command sets a     *)
(* deadline the clock and the background goroutine rest.                    *)

CONSTANT Menus

CommandMenus == <<ReadModifyWrite, SingleKey, Deadlines, KeptDeadlines, MovedDeadlines>>
ExpiringMenu == <<Expiring>>

AllCommands == UNION {Menus[i] : i \in DOMAIN Menus}

VARIABLE menu

MCInit == MemDbInit /\ menu \in DOMAIN Menus

MCNext ==
  /\ MemDbNext
  /\ UNCHANGED menu
  /\ \A c \in Proc : cmd'[c] \in Menus[menu] \cup {NoCommand}
  /\ now' > 0 \/ cpc' # "sleep" => \E command \in Menus[menu] : SetsDeadline(command)

MCSpec == MCInit /\ [][MCNext]_<<vars, menu>>

MCFairSpec == MCSpec /\ MemDbFairness
=============================================================================
