-------------------------- MODULE MCConcurrentMap --------------------------
(* Three keys share a shard, which is converted both ways; the last key is  *)
(* alone in its shard.                                                     *)
EXTENDS ConcurrentMap, TLC

MCShardOf == [k \in Key |-> IF k <= 3 THEN 1 ELSE 2]

ProcSymmetry == Permutations(Proc)

-----------------------------------------------------------------------------
(* One menu of calls is chosen at the start: Keys with calls that add and   *)
(* remove keys, or reads and writes in one shard, where SetIfExist writes   *)
(* another value than Set and SetIfNotExist writes either.                  *)

VARIABLE menu

OneValue == CHOOSE v \in Val : TRUE

Menus ==
  << {Scan} \cup {c \in Calls : c.op \notin {"get", "setifexist"} /\ c.val = OneValue},
     {c \in Calls : /\ c.key <= 3
                    /\ c.op # "setifnotexist" =>
                         (c.val = OneValue <=> c.op # "setifexist")} >>

MCInit == MapInit /\ menu \in DOMAIN Menus

MCNext ==
  /\ MapNext
  /\ UNCHANGED menu
  /\ \A p \in Proc : call'[p] \in Menus[menu] \cup {NoCall}

MCSpec == MCInit /\ [][MCNext]_<<vars, menu>>
=============================================================================
