----------------------------- MODULE MCCluster -----------------------------
(* Databases and commands for the model of the cluster. *)
EXTENDS Cluster, TLC

\* A database is the sequence of what was done to it: every difference shows.
Words == {"w", "p", "q", "l"}
MCState == UNION {[1 .. i -> Words] : i \in 0 .. MaxCalls}

Done(s, word) ==
  LET t == IF Len(s) < MaxCalls THEN Append(s, word) ELSE s IN [state |-> t, reply |-> t]

MCRuns(s, cmd) ==
  CASE cmd = "write"  -> {Done(s, "w")}
    [] cmd = "spop"   -> {Done(s, "p"), Done(s, "q")}
    [] cmd = "incrby" -> {Done(s, "l")}
    [] cmd = "read"   -> {[state |-> s, reply |-> s]}
    [] cmd = "info"   -> {[state |-> s, reply |-> <<>>]}

MCEmpty == <<>>

ReplicaSymmetry == Permutations(Replica)
=============================================================================
