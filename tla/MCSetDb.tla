------------------------------ MODULE MCSetDb ------------------------------
(* Instances of SetDb for TLC: sets of commands and small bounds. *)
EXTENDS SetDb, TLC

CONSTANTS k1, k2, k3, m1, m2

Cmd(op, keys, args, n) == [op |-> op, keys |-> keys, args |-> args, n |-> n]

\* Commands on one key, with all the ways to reply of each.
OneKey ==
  { Cmd("sadd", <<k1>>, {m1}, 0),
    Cmd("sadd", <<k1>>, {m1, m2}, 0),
    Cmd("srem", <<k1>>, {m1}, 0),
    Cmd("spop", <<k1>>, {}, 0),
    Cmd("spop", <<k1>>, {}, 1),
    Cmd("spop", <<k1>>, {}, 2),
    Cmd("scard", <<k1>>, {}, 0),
    Cmd("sismember", <<k1>>, {m2}, 0),
    Cmd("smembers", <<k1>>, {}, 0),
    Cmd("srandmember", <<k1>>, {}, 1),
    Cmd("srandmember", <<k1>>, {}, -2),
    Cmd("set", <<k1>>, {}, 0),
    Cmd("del", <<k1>>, {}, 0) }

\* Members move between two sets while others read both.
SeveralKeys ==
  { Cmd("sadd", <<k1>>, {m1, m2}, 0),
    Cmd("smove", <<k1, k2>>, {m1}, 0),
    Cmd("smove", <<k2, k1>>, {m1}, 0),
    Cmd("srem", <<k2>>, {m1}, 0),
    Cmd("set", <<k2>>, {}, 0),
    Cmd("sunion", <<k1, k2>>, {}, 0),
    Cmd("sinter", <<k2, k1>>, {}, 0),
    Cmd("sdiff", <<k1, k2>>, {}, 0) }

\* STORE commands whose destination is written by others and is a source too.
Stores ==
  { Cmd("sadd", <<k1>>, {m1, m2}, 0),
    Cmd("smove", <<k1, k2>>, {m1}, 0),
    Cmd("set", <<k3>>, {}, 0),
    Cmd("del", <<k3>>, {}, 0),
    Cmd("sinterstore", <<k3, k1, k2>>, {}, 0),
    Cmd("sinterstore", <<k1, k1, k3>>, {}, 0),
    Cmd("sdiffstore", <<k3, k1, k2>>, {}, 0),
    Cmd("sdiffstore", <<k2, k2, k1>>, {}, 0) }

\* Deadlines of sources and destination pass; no SMOVE, no SINTERSTORE.
Expiring ==
  { Cmd("sadd", <<k1>>, {m1, m2}, 0),
    Cmd("srem", <<k1>>, {m1, m2}, 0),
    Cmd("spop", <<k1>>, {}, 1),
    Cmd("set", <<k2>>, {}, 0),
    Cmd("sunion", <<k1, k2>>, {}, 0),
    Cmd("sinter", <<k1, k2>>, {}, 0),
    Cmd("sdiff", <<k2, k1>>, {}, 0),
    Cmd("sdiffstore", <<k2, k1>>, {}, 0) }

\* SUNIONSTORE with nothing to read, one and two sets, while keys expire and its
\* destination becomes a string.
UnionStores ==
  { Cmd("sadd", <<k1>>, {m1, m2}, 0), Cmd("sadd", <<k2>>, {m1}, 0),
    Cmd("srem", <<k2>>, {m1, m2}, 0), Cmd("set", <<k1>>, {}, 0), Cmd("set", <<k2>>, {}, 0),
    Cmd("sunionstore", <<k2, k1, k2>>, {}, 0) }

InterStoreOfNothing ==
  { Cmd("sadd", <<k1>>, {m1}, 0), Cmd("sinterstore", <<k2, k1>>, {}, 0) }

-----------------------------------------------------------------------------
(* One menu of commands is chosen at the start. Deadlines pass in two of    *)
(* them.                                                                     *)

CONSTANT Menus

CommandMenus == <<OneKey, SeveralKeys, Stores, Expiring, UnionStores>>
LeakMenu     == <<InterStoreOfNothing>>

AllCommands == UNION {Menus[i] : i \in DOMAIN Menus}

VARIABLE menu

MCInit == SetDbInit /\ menu \in DOMAIN Menus

MCNext ==
  /\ SetDbNext
  /\ UNCHANGED menu
  /\ \A c \in Proc : cmd'[c] \in Menus[menu] \cup {NoCommand}
  /\ passed' > 0 => Menus[menu] \in {Expiring, UnionStores}

ProcSymmetry == Permutations(Proc)

MCSpec == MCInit /\ [][MCNext]_<<setVars, menu>>
=============================================================================
