------------------------------ MODULE Cluster ------------------------------
(***************************************************************************)
(* A cluster of nodes that replicate their databases through Raft          *)
(* (pkg/cluster/node.go, pkg/server/write.go and the routing of commands   *)
(* in pkg/server/handler.go).                                              *)
(*                                                                         *)
(* The library hashicorp/raft is external. Of it the model keeps what      *)
(* node.go can observe: a log of committed entries that only grows; nodes  *)
(* whose State() is Leader, which may be several when some have not yet    *)
(* heard of a later term; entries that a leader has appended, any of which *)
(* may be committed later, once, or never; a snapshot index; on a restart  *)
(* the entries after the snapshot are applied again. A database is a value *)
(* that ExecCommand turns into another one; as SPOP chooses a member, a    *)
(* command has a set of outcomes. Deadlines are left out: every node reads *)
(* its own clock when it applies EXPIRE and when it deletes expired keys.  *)
(***************************************************************************)
EXTENDS Integers, Sequences

CONSTANTS
  Replica,      \* the nodes of the cluster
  Writes,       \* commands that IsWriteCommand names
  LocalWrites,  \* commands that change the database and that it does not name
  Reads,        \* commands that do not change the database
  Info,         \* the INFO command
  State,        \* the databases
  Runs(_, _),   \* Runs(s, cmd): the outcomes [state, reply] of ExecCommand
  Empty,        \* the database of a node that starts
  NoReply,
  MaxCalls,     \* bound: so many commands are sent
  MaxFaults     \* bound: so many snapshots, restarts and changes of leader

Command == Writes \cup LocalWrites \cup Reads \cup {Info}

ASSUME CommandsAssumption ==
  /\ Writes \cap (LocalWrites \cup Reads \cup {Info}) = {}
  /\ LocalWrites \cap (Reads \cup {Info}) = {}

\* Outcomes are databases; reading commands leave the database as it is.
ASSUME RunsAssumption ==
  /\ Empty \in State
  /\ \A s \in State, cmd \in Command : \A o \in Runs(s, cmd) :
       o.state \in State /\ (cmd \in Reads \cup {Info} => o.state = s)

VARIABLES
  log,       \* the committed entries [id, cmd]
  open,      \* entries that were appended by a leader and are not committed
  claims,    \* the nodes whose State() is Leader
  applied,   \* applied[n]: the number of entries that n has applied
  snap,      \* snap[n]: the index of the last snapshot of n, which is on disk
  db,        \* db[n]: the database of n, which is in memory
  calls,     \* the commands sent, with their node, state and reply
  faults,    \* the faults that have happened
  hist,      \* history: hist[i + 1] are the databases i entries may lead to
  skipped,   \* history: nodes that have passed over entries
  strayed    \* history: nodes that have executed a writing command on their own

clusterVars ==
  <<log, open, claims, applied, snap, db, calls, faults, hist, skipped, strayed>>

raftVars == <<log, open, claims, applied, snap>>
historyVars == <<hist, skipped, strayed>>

ClusterInit ==
  /\ log = <<>> /\ open = {} /\ claims = {}
  /\ applied = [n \in Replica |-> 0] /\ snap = [n \in Replica |-> 0]
  /\ db = [n \in Replica |-> Empty]
  /\ calls = <<>> /\ faults = 0
  /\ hist = <<{Empty}>> /\ skipped = {} /\ strayed = {}

Call(n, cmd, status, at, reply) ==
  [node |-> n, cmd |-> cmd, status |-> status, at |-> at, reply |-> reply,
   sound |-> n \notin skipped \cup strayed]

-----------------------------------------------------------------------------
(* Commands of clients *)

\* Wrong: nothing is taken for a write.
IsWriteCommandNone(cmd) == FALSE

IsWriteCommand(cmd) == cmd \in Writes

NewCall(call) == Len(calls) < MaxCalls /\ calls' = Append(calls, call)

\* Wrong: ApplyCommand does not wait for the future.
ApplyCommandEager(n, cmd) ==
  /\ IsWriteCommand(cmd) /\ n \in claims
  /\ \E o \in Runs(db[n], cmd) : NewCall(Call(n, cmd, "answered", applied[n], o.reply))
  /\ open' = open \cup {[id |-> Len(calls) + 1, cmd |-> cmd]}
  /\ UNCHANGED <<log, claims, applied, snap, db, faults, historyVars>>

\* A node that does not lead refuses, and so may a leader that is busy; else the
\* command is appended to the log and the call waits.
ApplyCommand(n, cmd) ==
  /\ IsWriteCommand(cmd)
  /\ \/ NewCall(Call(n, cmd, "refused", 0, NoReply)) /\ UNCHANGED open
     \/ /\ n \in claims
        /\ NewCall(Call(n, cmd, "waiting", 0, NoReply))
        /\ open' = open \cup {[id |-> Len(calls) + 1, cmd |-> cmd]}
  /\ UNCHANGED <<log, claims, applied, snap, db, faults, historyVars>>

\* Executed on the database of the node, if it leads; INFO on every node.
ReadCommand(n, cmd) ==
  /\ ~IsWriteCommand(cmd)
  /\ \/ n \notin claims /\ cmd # Info
        /\ NewCall(Call(n, cmd, "refused", 0, NoReply)) /\ UNCHANGED <<db, strayed>>
     \/ /\ n \in claims \/ cmd = Info
        /\ \E o \in Runs(db[n], cmd) :
             /\ NewCall(Call(n, cmd, "answered", applied[n], o.reply))
             /\ db' = [db EXCEPT ![n] = o.state]
        /\ strayed' = IF cmd \in LocalWrites THEN strayed \cup {n} ELSE strayed
  /\ UNCHANGED <<raftVars, faults, hist, skipped>>

-----------------------------------------------------------------------------
(* What Raft does, and the callbacks of the state machine *)

\* The databases to which a command may lead from those in S.
After(S, cmd) == UNION {{o.state : o \in Runs(s, cmd)} : s \in S}

Commit(entry) ==
  /\ entry \in open
  /\ open' = open \ {entry} /\ log' = Append(log, entry)
  /\ hist' = Append(hist, After(hist[Len(hist)], entry.cmd))
  /\ UNCHANGED <<claims, applied, snap, db, calls, faults, skipped, strayed>>

\* fsm.Apply of the next entry. The call that waits for it, at the node that
\* appended it, gets the reply.
Apply(n) ==
  LET i     == applied[n] + 1
      entry == log[i]
      waits == calls[entry.id].node = n /\ calls[entry.id].status = "waiting"
  IN /\ applied[n] < Len(log)
     /\ applied' = [applied EXCEPT ![n] = i]
     /\ \E o \in Runs(db[n], entry.cmd) :
          /\ db' = [db EXCEPT ![n] = o.state]
          /\ calls' = IF waits
                      THEN [calls EXCEPT ![entry.id] =
                              Call(n, entry.cmd, "answered", applied[n], o.reply)]
                      ELSE calls
     /\ UNCHANGED <<log, open, claims, snap, faults, historyVars>>

Fault == faults < MaxFaults /\ faults' = faults + 1

BecomeLeader(n) ==
  /\ Fault /\ n \notin claims /\ claims' = claims \cup {n}
  /\ UNCHANGED <<log, open, applied, snap, db, calls, historyVars>>

\* The calls in lost get an error; their entries may be committed all the same.
Fail(lost) ==
  calls' = [id \in DOMAIN calls |->
              IF id \in lost THEN [calls[id] EXCEPT !.status = "failed"] ELSE calls[id]]

WaitingAt(n) == {id \in DOMAIN calls : calls[id].node = n /\ calls[id].status = "waiting"}

\* Calls fail whose entry is not committed, and perhaps others.
StepDown(n) ==
  /\ n \in claims /\ claims' = claims \ {n}
  /\ \E lost \in SUBSET WaitingAt(n) :
       {e.id : e \in open} \cap WaitingAt(n) \subseteq lost /\ Fail(lost)
  /\ UNCHANGED <<log, open, applied, snap, db, faults, historyVars>>

\* fsm.Snapshot and Persist write nothing; Raft keeps the index.
Snapshot(n) ==
  /\ Fault /\ applied[n] > snap[n] /\ snap' = [snap EXCEPT ![n] = applied[n]]
  /\ UNCHANGED <<log, open, claims, applied, db, calls, historyVars>>

\* fsm.Restore
Restore(s) == s

\* The process ends and starts again: Raft restores the snapshot, if there is
\* one, and goes on with the entries after it.
Restart(n) ==
  /\ Fault
  /\ db' = [db EXCEPT ![n] = Restore(Empty)] /\ applied' = [applied EXCEPT ![n] = snap[n]]
  /\ claims' = claims \ {n} /\ Fail(WaitingAt(n))
  /\ skipped' = IF snap[n] > 0 THEN skipped \cup {n} ELSE skipped \ {n}
  /\ strayed' = strayed \ {n}
  /\ UNCHANGED <<log, open, snap, hist>>

\* A node that lags behind gets the snapshot of m instead of the entries.
InstallSnapshot(n, m) ==
  /\ n \notin claims /\ WaitingAt(n) = {} /\ applied[n] < snap[m]
  /\ applied' = [applied EXCEPT ![n] = snap[m]] /\ snap' = [snap EXCEPT ![n] = snap[m]]
  /\ db' = [db EXCEPT ![n] = Restore(db[n])] /\ skipped' = skipped \cup {n}
  /\ UNCHANGED <<log, open, claims, calls, faults, hist, strayed>>

ClusterNext ==
  \/ \E n \in Replica :
       \/ \E cmd \in Command : ApplyCommand(n, cmd) \/ ReadCommand(n, cmd)
       \/ Apply(n) \/ BecomeLeader(n) \/ StepDown(n) \/ Snapshot(n) \/ Restart(n)
       \/ \E m \in Replica : InstallSnapshot(n, m)
  \/ \E entry \in open : Commit(entry)

ClusterSpec == ClusterInit /\ [][ClusterNext]_clusterVars

-----------------------------------------------------------------------------
(* Properties *)

Reply == {NoReply} \cup {o.reply : o \in UNION {Runs(s, cmd) : s \in State, cmd \in Command}}

CallRecord ==
  [node : Replica, cmd : Command, status : {"waiting", "answered", "refused", "failed"},
   at : Nat, reply : Reply, sound : BOOLEAN]

Entry == [id : Nat, cmd : Command]

ClusterTypeOK ==
  /\ log \in Seq(Entry) /\ open \subseteq Entry /\ calls \in Seq(CallRecord)
  /\ claims \subseteq Replica /\ skipped \subseteq Replica /\ strayed \subseteq Replica
  /\ db \in [Replica -> State] /\ faults \in Nat
  /\ hist \in Seq(SUBSET State) /\ Len(hist) = Len(log) + 1
  /\ applied \in [Replica -> Nat] /\ snap \in [Replica -> Nat]
  /\ \A n \in Replica : snap[n] <= applied[n] /\ applied[n] <= Len(log)

\* The database of a node is one that the first applied[n] entries of the log
\* lead to, through changes of leader, restarts and failed calls, but for nodes
\* that have passed over entries because Restore restores nothing, and nodes that
\* have executed a writing command that IsWriteCommand does not name.
StateFromLog == \A n \in Replica \ (skipped \cup strayed) : db[n] \in hist[applied[n] + 1]

\* The comment of fsm.Restore: the log brings a node to the state of the others.
ReplayRestores == \A n \in Replica \ strayed : db[n] \in hist[applied[n] + 1]

\* Two nodes that have applied the same entries have the same database, if the
\* commands among them have one outcome.
ReplicasAgree ==
  \A n, m \in Replica \ (skipped \cup strayed) :
    applied[n] = applied[m] /\ (\A s, t \in hist[applied[n] + 1] : s = t) => db[n] = db[m]

\* An answer to a write is given after its entry was committed, once, and is the
\* one that the entries in front of it lead to; an answer to another command is
\* the one that the entries applied lead to. A refused command is never in the
\* log; one that failed is there once or not at all.
AnswersRight ==
  \A id \in DOMAIN calls :
    LET call == calls[id]
        at   == {i \in DOMAIN log : log[i].id = id}
        from == hist[call.at + 1]
    IN /\ call.status = "answered" =>
            /\ IsWriteCommand(call.cmd) => at = {call.at + 1}
            /\ call.sound => \E s \in from : \E o \in Runs(s, call.cmd) : o.reply = call.reply
       /\ call.status = "refused" => at = {} /\ \A e \in open : e.id # id
       /\ \A i, j \in at : i = j
=============================================================================
