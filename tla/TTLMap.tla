------------------------------- MODULE TTLMap -------------------------------
(* A shard of the deadline index as its users see it: a map from keys to     *)
(* deadlines and the last result. This is how module MemDb uses the index.   *)
EXTENDS Integers, FiniteSets, TLC

CONSTANTS Key, Time

VARIABLES deadline, result

ttlMapVars == <<deadline, result>>

TTLMapInit == deadline = <<>> /\ result = <<>>

Without(gone) == [k \in DOMAIN deadline \ gone |-> deadline[k]]

MapSetTTL(k, at) == deadline' = (k :> at @@ deadline) /\ result' = <<>>

MapRemoveTTL(k) == deadline' = Without({k}) /\ result' = <<>>

MapCheckTTL(k, now) ==
  LET expired == k \in DOMAIN deadline /\ deadline[k] <= now IN
  /\ deadline' = IF expired THEN Without({k}) ELSE deadline
  /\ result' = <<~expired>>

\* All the expired keys go at once; the earliest deadline left, or 0, is known.
MapCollect(now) ==
  LET gone == {k \in DOMAIN deadline : deadline[k] <= now}
      left == {deadline[k] : k \in DOMAIN deadline \ gone}
  IN /\ deadline' = Without(gone)
     /\ result' = <<gone, IF left = {} THEN 0 ELSE CHOOSE t \in left : \A u \in left : t <= u>>

TTLMapNext ==
  \/ \E k \in Key :
       MapRemoveTTL(k) \/ \E t \in Time : MapSetTTL(k, t) \/ MapCheckTTL(k, t)
  \/ \E now \in Time : MapCollect(now)

TTLMapSpec == TTLMapInit /\ [][TTLMapNext]_ttlMapVars
=============================================================================
