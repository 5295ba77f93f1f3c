---------------------------- MODULE MemDbKVStore ----------------------------
(***************************************************************************)
(* MemDb implements KVStore: the refinement mapping.                       *)
(***************************************************************************)
EXTENDS MemDb

\* The writes to k that c has decided on and not done yet.
PendingWrites(c, k) ==
  {i \in DOMAIN todo[c] : IsWrite(todo[c][i]) /\ todo[c][i].k = k}

LastWrite(c, k) ==
  todo[c][CHOOSE i \in PendingWrites(c, k) : \A j \in PendingWrites(c, k) : j <= i].v

\* The map with the decided writes done: a command takes effect when it has
\* read all it needs under its locks.
DecidedDb ==
  [k \in Key |->
     IF \E c \in Proc : PendingWrites(c, k) # {}
     THEN LastWrite(CHOOSE c \in Proc : PendingWrites(c, k) # {}, k)
     ELSE db[k]]

KV == INSTANCE KVStore WITH
  store <- DecidedDb,
  call <- cmd,
  answer <- res,
  TTLReplies <- {command.arg - t : command \in Command, t \in 0 .. MaxTime}

\* The handlers of string.go and keys.go, running concurrently with each other
\* and with the background goroutine of db.go, are linearizable: every command
\* takes effect at once with the reply of a sequential execution, and only keys
\* that were given a deadline vanish on their own, between commands.
ImplementsKVStore == KV!KVSpec
=============================================================================
