--------------------------- MODULE ClusterProofs ---------------------------
(***************************************************************************)
(* Machine-checked proofs about Cluster: for every number of nodes, every  *)
(* set of commands and what they do to a database, and any number of       *)
(* calls, snapshots, restarts and changes of leader.                       *)
(***************************************************************************)
EXTENDS Cluster, SequenceTheorems, TLAPS

-----------------------------------------------------------------------------
(* The inductive invariant *)

\* An entry belongs to one call and is in one place: in the log, once, or open.
EntriesKnown ==
  /\ \A i \in 1 .. Len(log) : log[i].id \in 1 .. Len(calls)
  /\ \A e \in open : e.id \in 1 .. Len(calls)
  /\ \A i, j \in 1 .. Len(log) : log[i].id = log[j].id => i = j
  /\ \A e \in open : \A i \in 1 .. Len(log) : log[i].id # e.id
  /\ \A e, f \in open : e.id = f.id => e = f

\* The history is what the entries of the log lead to.
HistoryRight ==
  /\ hist[1] = {Empty}
  /\ \A i \in 1 .. Len(log) : hist[i + 1] = After(hist[i], log[i].cmd)

\* The reply r of cmd is one that the first i entries of the log lead to.
ReplyFrom(i, cmd, r) == \E s \in hist[i + 1] : \E o \in Runs(s, cmd) : o.reply = r

\* An answer points to its entry and to the databases it was computed from; a
\* refused call has no entry.
CallsRight ==
  \A id \in 1 .. Len(calls) :
    /\ calls[id].status = "answered" =>
         /\ calls[id].at <= Len(log)
         /\ IsWriteCommand(calls[id].cmd) =>
              calls[id].at < Len(log) /\ log[calls[id].at + 1].id = id
         /\ calls[id].sound => ReplyFrom(calls[id].at, calls[id].cmd, calls[id].reply)
    /\ calls[id].status = "refused" =>
         /\ \A i \in 1 .. Len(log) : log[i].id # id
         /\ \A e \in open : e.id # id

ClusterInv == EntriesKnown /\ HistoryRight /\ StateFromLog /\ CallsRight

-----------------------------------------------------------------------------
(* Lemmas about the parts of a step *)

\* The outcome of a command on a database is a database.
LEMMA RunsType ==
  ASSUME NEW s \in State, NEW cmd \in Command, NEW o \in Runs(s, cmd)
  PROVE  o.state \in State /\ o.reply \in Reply
  <1>1. o.state \in State
    BY RunsAssumption, Zenon
  <1>2. o \in UNION {Runs(t, c) : t \in State, c \in Command}
    OBVIOUS
  <1>3. o.reply \in Reply
    BY <1>2 DEF Reply
  <1>4. QED
    BY <1>1, <1>3, Zenon

\* A set of databases leads to a set of databases.
LEMMA AfterType ==
  ASSUME NEW S \in SUBSET State, NEW cmd \in Command
  PROVE  After(S, cmd) \in SUBSET State
  BY RunsType DEF After

\* The records of calls that ApplyCommand, ReadCommand and Apply make.
LEMMA CallType ==
  ASSUME NEW n \in Replica, NEW cmd \in Command, NEW at \in Nat, NEW reply \in Reply,
         NEW status \in {"waiting", "answered", "refused", "failed"}
  PROVE  Call(n, cmd, status, at, reply) \in CallRecord
  BY Zenon DEF Call, CallRecord

\* A new call is the last one and leaves the others as they are.
LEMMA NewCallProperties ==
  ASSUME calls \in Seq(CallRecord), NEW call \in CallRecord, NewCall(call)
  PROVE  /\ calls' \in Seq(CallRecord) /\ Len(calls') = Len(calls) + 1
         /\ \A id \in 1 .. Len(calls) : calls'[id] = calls[id]
         /\ calls'[Len(calls) + 1] = call
  BY AppendProperties DEF NewCall

\* Calls that fail keep everything but their status.
LEMMA FailProperties ==
  ASSUME calls \in Seq(CallRecord), NEW lost, Fail(lost)
  PROVE  /\ calls' \in Seq(CallRecord) /\ Len(calls') = Len(calls)
         /\ \A id \in 1 .. Len(calls) :
              calls'[id] = calls[id] \/ calls'[id].status = "failed"
  <1> DEFINE F(id) == IF id \in lost THEN [calls[id] EXCEPT !.status = "failed"] ELSE calls[id]
  <1>1. Len(calls) \in Nat /\ DOMAIN calls = 1 .. Len(calls)
    BY LenProperties, Zenon
  <1>2. \A id \in 1 .. Len(calls) : calls[id] \in CallRecord
    BY ElementOfSeq, Zenon
  <1>3. \A id \in 1 .. Len(calls) : F(id) \in CallRecord /\ (F(id) = calls[id] \/ F(id).status = "failed")
    BY <1>2, Zenon DEF CallRecord
  <1>4. calls' = [id \in 1 .. Len(calls) |-> F(id)]
    BY <1>1, Zenon DEF Fail
  <1> HIDE DEF F
  <1>5. calls' \in [1 .. Len(calls) -> CallRecord]
    BY <1>3, <1>4, Zenon
  <1>6. calls' \in Seq(CallRecord) /\ Len(calls') = Len(calls)
    BY <1>1, <1>5, SeqDef, LenProperties
  <1>7. QED
    BY <1>3, <1>4, <1>6, Zenon

-----------------------------------------------------------------------------
(* Type correctness *)

\* A step of the cluster keeps the types of its variables.
LEMMA TypeStep == ClusterTypeOK /\ [ClusterNext]_clusterVars => ClusterTypeOK'
  <1> SUFFICES ASSUME ClusterTypeOK, [ClusterNext]_clusterVars
               PROVE  ClusterTypeOK'
    BY Zenon
  <1>t. /\ Len(calls) \in Nat /\ Len(log) \in Nat /\ Len(hist) \in Nat
        /\ \A i \in 1 .. Len(log) : log[i] \in Entry
        /\ \A i \in 1 .. Len(hist) : hist[i] \in SUBSET State
    BY ElementOfSeq, LenProperties, Zenon DEF ClusterTypeOK
  <1>n. NoReply \in Reply
    BY DEF Reply
  <1>1. ASSUME NEW n \in Replica, NEW cmd \in Command, ApplyCommand(n, cmd)
        PROVE  ClusterTypeOK'
    <2>1. /\ Call(n, cmd, "refused", 0, NoReply) \in CallRecord
          /\ Call(n, cmd, "waiting", 0, NoReply) \in CallRecord
      BY <1>n, CallType, Zenon
    <2>2. calls' \in Seq(CallRecord)
      BY <1>1, <2>1, NewCallProperties, Zenon DEF ApplyCommand, ClusterTypeOK
    <2>3. open' \subseteq Entry
      BY <1>1, <1>t DEF ApplyCommand, ClusterTypeOK, Entry
    <2>4. QED
      BY <1>1, <2>2, <2>3, Zenon DEF ApplyCommand, ClusterTypeOK, historyVars
  <1>2. ASSUME NEW n \in Replica, NEW cmd \in Command, ReadCommand(n, cmd)
        PROVE  ClusterTypeOK'
    <2>1. CASE UNCHANGED <<db, strayed>> /\ NewCall(Call(n, cmd, "refused", 0, NoReply))
      <3>1. calls' \in Seq(CallRecord)
        BY <1>n, <2>1, CallType, NewCallProperties, Zenon DEF ClusterTypeOK
      <3>2. QED
        BY <1>2, <2>1, <3>1, Zenon DEF ReadCommand, ClusterTypeOK, raftVars
    <2>2. ASSUME NEW o \in Runs(db[n], cmd),
                 NewCall(Call(n, cmd, "answered", applied[n], o.reply)),
                 db' = [db EXCEPT ![n] = o.state],
                 strayed' = IF cmd \in LocalWrites THEN strayed \cup {n} ELSE strayed
          PROVE  ClusterTypeOK'
      <3>1. o.state \in State /\ o.reply \in Reply
        BY RunsType, Zenon DEF ClusterTypeOK
      <3>2. calls' \in Seq(CallRecord)
        BY <2>2, <3>1, CallType, NewCallProperties, Zenon DEF ClusterTypeOK
      <3>3. QED
        BY <1>2, <2>2, <3>1, <3>2, Zenon DEF ReadCommand, ClusterTypeOK, raftVars
    <2>3. QED
      BY <1>2, <2>1, <2>2, Zenon DEF ReadCommand
  <1>3. ASSUME NEW entry \in open, Commit(entry)
        PROVE  ClusterTypeOK'
    <2>1. entry \in Entry /\ entry.cmd \in Command
      BY Zenon DEF ClusterTypeOK, Entry
    <2>2. log' \in Seq(Entry) /\ Len(log') = Len(log) + 1
      BY <1>3, <2>1, AppendProperties DEF Commit, ClusterTypeOK
    <2>3. After(hist[Len(hist)], entry.cmd) \in SUBSET State
      BY <1>t, <2>1, AfterType DEF ClusterTypeOK
    <2>4. hist' \in Seq(SUBSET State) /\ Len(hist') = Len(hist) + 1
      BY <1>3, <2>3, AppendProperties DEF Commit, ClusterTypeOK
    <2>5. QED
      BY <1>3, <1>t, <2>2, <2>4 DEF Commit, ClusterTypeOK
  <1>4. ASSUME NEW n \in Replica, Apply(n)
        PROVE  ClusterTypeOK'
    <2> DEFINE entry == log[applied[n] + 1]
    <2>1. entry \in Entry /\ entry.cmd \in Command /\ applied[n] \in Nat /\ applied[n] < Len(log)
      BY <1>4, <1>t DEF Apply, ClusterTypeOK, Entry
    <2>2. PICK o \in Runs(db[n], entry.cmd) :
            /\ db' = [db EXCEPT ![n] = o.state]
            /\ calls' = IF calls[entry.id].node = n /\ calls[entry.id].status = "waiting"
                        THEN [calls EXCEPT ![entry.id] =
                                Call(n, entry.cmd, "answered", applied[n], o.reply)]
                        ELSE calls
      BY <1>4, Zenon DEF Apply
    <2>3. o.state \in State /\ o.reply \in Reply
      BY <2>1, RunsType, Zenon DEF ClusterTypeOK
    <2>4. Call(n, entry.cmd, "answered", applied[n], o.reply) \in CallRecord
      BY <2>1, <2>3, CallType, Zenon
    <2>5. calls' \in Seq(CallRecord)
      <3>1. CASE entry.id \in 1 .. Len(calls)
        BY <2>2, <2>4, <3>1, ExceptSeq DEF ClusterTypeOK
      <3>2. CASE entry.id \notin 1 .. Len(calls)
        <4>1. DOMAIN calls = 1 .. Len(calls)
          BY LenProperties, Zenon DEF ClusterTypeOK
        <4>2. [calls EXCEPT ![entry.id] =
                 Call(n, entry.cmd, "answered", applied[n], o.reply)] = calls
          BY <3>2, <4>1, LenProperties, Zenon DEF ClusterTypeOK
        <4>3. QED
          BY <2>2, <4>2, Zenon DEF ClusterTypeOK
      <3>3. QED
        BY <3>1, <3>2, Zenon
    <2>6. QED
      BY <1>4, <1>t, <2>1, <2>2, <2>3, <2>5 DEF Apply, ClusterTypeOK, historyVars
  <1>5. ASSUME NEW n \in Replica, BecomeLeader(n) \/ Snapshot(n)
        PROVE  ClusterTypeOK'
    <2>1. CASE BecomeLeader(n)
      BY <2>1 DEF BecomeLeader, Fault, ClusterTypeOK, historyVars
    <2>2. CASE Snapshot(n)
      BY <2>2, <1>t DEF Snapshot, Fault, ClusterTypeOK, historyVars
    <2>3. QED
      BY <1>5, <2>1, <2>2, Zenon
  <1>6. ASSUME NEW n \in Replica, StepDown(n)
        PROVE  ClusterTypeOK'
    BY <1>6, FailProperties, Zenon DEF StepDown, ClusterTypeOK, historyVars
  <1>7. ASSUME NEW n \in Replica, Restart(n)
        PROVE  ClusterTypeOK'
    <2>1. calls' \in Seq(CallRecord)
      BY <1>7, FailProperties, Zenon DEF Restart, ClusterTypeOK
    <2>2. QED
      BY <1>7, <2>1, <1>t, RunsAssumption DEF Restart, Restore, Fault, ClusterTypeOK
  <1>8. ASSUME NEW n \in Replica, NEW m \in Replica, InstallSnapshot(n, m)
        PROVE  ClusterTypeOK'
    BY <1>8, <1>t DEF InstallSnapshot, Restore, ClusterTypeOK
  <1>9. CASE UNCHANGED clusterVars
    BY <1>9, Zenon DEF clusterVars, ClusterTypeOK
  <1>10. QED
    BY <1>1, <1>2, <1>3, <1>4, <1>5, <1>6, <1>7, <1>8, <1>9, Zenon DEF ClusterNext

\* A cluster starts with values of the types.
LEMMA TypeInit == ClusterInit => ClusterTypeOK
  BY RunsAssumption, EmptySeq DEF ClusterInit, ClusterTypeOK

\* The variables of Cluster keep their types; no node has applied entries that
\* are not committed, or taken a snapshot of entries it has not applied.
THEOREM ClusterTypeCorrect == ClusterSpec => []ClusterTypeOK
  BY TypeInit, TypeStep, PTL DEF ClusterSpec

-----------------------------------------------------------------------------
(* The steps of the invariant *)

\* What sequences, and the sets in the history, are made of.
LEMMA TypeFacts ==
  ASSUME ClusterTypeOK
  PROVE  /\ Len(calls) \in Nat /\ Len(log) \in Nat /\ Len(hist) = Len(log) + 1
         /\ \A i \in 1 .. Len(log) : log[i] \in Entry
         /\ \A i \in 1 .. Len(hist) : hist[i] \in SUBSET State
         /\ \A id \in 1 .. Len(calls) : calls[id] \in CallRecord
         /\ DOMAIN log = 1 .. Len(log) /\ DOMAIN calls = 1 .. Len(calls)
  BY ElementOfSeq, LenProperties, Zenon DEF ClusterTypeOK

\* ApplyCommand adds a call that is refused, or one that waits and its entry.
LEMMA ApplyCommandEffect ==
  ASSUME ClusterTypeOK, NEW n \in Replica, NEW cmd \in Command, ApplyCommand(n, cmd)
  PROVE  /\ Len(calls') = Len(calls) + 1
         /\ \A id \in 1 .. Len(calls) : calls'[id] = calls[id]
         /\ \/ calls'[Len(calls) + 1].status = "refused" /\ open' = open
            \/ /\ calls'[Len(calls) + 1].status = "waiting"
               /\ open' = open \cup {[id |-> Len(calls) + 1, cmd |-> cmd]}
         /\ UNCHANGED <<log, hist, db, applied, snap, skipped, strayed>>
  <1>1. NoReply \in Reply
    BY DEF Reply
  <1>2. /\ Call(n, cmd, "refused", 0, NoReply) \in CallRecord
        /\ Call(n, cmd, "waiting", 0, NoReply) \in CallRecord
    BY <1>1, CallType, Zenon
  <1>3. /\ Call(n, cmd, "refused", 0, NoReply).status = "refused"
        /\ Call(n, cmd, "waiting", 0, NoReply).status = "waiting"
    BY Zenon DEF Call
  <1>4. QED
    BY <1>2, <1>3, NewCallProperties, Zenon DEF ApplyCommand, ClusterTypeOK, historyVars

\* ReadCommand adds a call that is refused or answered from the database of the
\* node, which it leaves as it is unless the node strays.
LEMMA ReadCommandEffect ==
  ASSUME ClusterTypeOK, NEW n \in Replica, NEW cmd \in Command, ReadCommand(n, cmd)
  PROVE  /\ Len(calls') = Len(calls) + 1
         /\ \A id \in 1 .. Len(calls) : calls'[id] = calls[id]
         /\ \/ calls'[Len(calls) + 1].status = "refused" /\ UNCHANGED <<db, strayed>>
            \/ \E o \in Runs(db[n], cmd) :
                 /\ calls'[Len(calls) + 1] = Call(n, cmd, "answered", applied[n], o.reply)
                 /\ db' = [db EXCEPT ![n] = o.state]
                 /\ strayed' = IF cmd \in LocalWrites THEN strayed \cup {n} ELSE strayed
         /\ cmd \notin Writes
         /\ UNCHANGED <<log, open, hist, applied, snap, skipped>>
  <1>1. NoReply \in Reply
    BY DEF Reply
  <1>2. CASE NewCall(Call(n, cmd, "refused", 0, NoReply)) /\ UNCHANGED <<db, strayed>>
    <2>1. Call(n, cmd, "refused", 0, NoReply) \in CallRecord
      BY <1>1, CallType, Zenon
    <2>2. Call(n, cmd, "refused", 0, NoReply).status = "refused"
      BY Zenon DEF Call
    <2>3. QED
      BY <1>2, <2>1, <2>2, NewCallProperties, Zenon DEF ReadCommand, ClusterTypeOK, raftVars, IsWriteCommand
  <1>3. ASSUME NEW o \in Runs(db[n], cmd),
               NewCall(Call(n, cmd, "answered", applied[n], o.reply)),
               db' = [db EXCEPT ![n] = o.state],
               strayed' = IF cmd \in LocalWrites THEN strayed \cup {n} ELSE strayed
        PROVE  /\ Len(calls') = Len(calls) + 1
               /\ \A id \in 1 .. Len(calls) : calls'[id] = calls[id]
               /\ calls'[Len(calls) + 1] = Call(n, cmd, "answered", applied[n], o.reply)
    <2>1. Call(n, cmd, "answered", applied[n], o.reply) \in CallRecord
      BY RunsType, CallType, Zenon DEF ClusterTypeOK
    <2>2. QED
      BY <1>3, <2>1, NewCallProperties, Zenon DEF ClusterTypeOK
  <1>4. cmd \notin Writes /\ UNCHANGED <<log, open, hist, applied, snap, skipped>>
    BY Zenon DEF ReadCommand, raftVars, IsWriteCommand
  <1>5. QED
    BY <1>2, <1>3, <1>4, Zenon DEF ReadCommand

\* Commit appends an open entry to the log and what it leads to to the history.
LEMMA CommitEffect ==
  ASSUME ClusterTypeOK, NEW entry \in open, Commit(entry)
  PROVE  /\ open' = open \ {entry} /\ entry \in Entry
         /\ Len(log') = Len(log) + 1 /\ log'[Len(log) + 1] = entry
         /\ \A i \in 1 .. Len(log) : log'[i] = log[i]
         /\ \A i \in 1 .. Len(log) + 1 : hist'[i] = hist[i]
         /\ hist'[Len(log) + 2] = After(hist[Len(log) + 1], entry.cmd)
         /\ UNCHANGED <<calls, db, applied, snap, skipped, strayed>>
  <1>1. entry \in Entry /\ entry.cmd \in Command
    BY Zenon DEF ClusterTypeOK, Entry
  <1>2. /\ Len(log') = Len(log) + 1 /\ log'[Len(log) + 1] = entry
        /\ \A i \in 1 .. Len(log) : log'[i] = log[i]
    BY <1>1, AppendProperties DEF Commit, ClusterTypeOK
  <1>3. After(hist[Len(hist)], entry.cmd) \in SUBSET State
    BY <1>1, TypeFacts, AfterType
  <1>4. /\ \A i \in 1 .. Len(hist) : hist'[i] = hist[i]
        /\ hist'[Len(hist) + 1] = After(hist[Len(hist)], entry.cmd)
    BY <1>3, AppendProperties DEF Commit, ClusterTypeOK
  <1>5. Len(hist) = Len(log) + 1 /\ Len(log) \in Nat
    BY TypeFacts, Zenon
  <1>6. /\ \A i \in 1 .. Len(log) + 1 : hist'[i] = hist[i]
        /\ hist'[Len(log) + 2] = After(hist[Len(log) + 1], entry.cmd)
    BY <1>4, <1>5
  <1>7. QED
    BY <1>1, <1>2, <1>6, Zenon DEF Commit

\* Apply executes the next entry; the call that waits for it is answered.
LEMMA ApplyEffect ==
  ASSUME ClusterTypeOK, EntriesKnown, NEW n \in Replica, Apply(n)
  PROVE  \E o \in Runs(db[n], log[applied[n] + 1].cmd) :
           LET id == log[applied[n] + 1].id IN
           /\ applied[n] \in 0 .. Len(log) - 1 /\ id \in 1 .. Len(calls)
           /\ db' = [db EXCEPT ![n] = o.state]
           /\ applied' = [applied EXCEPT ![n] = applied[n] + 1]
           /\ Len(calls') = Len(calls)
           /\ \A j \in 1 .. Len(calls) : j # id => calls'[j] = calls[j]
           /\ \/ calls'[id] = calls[id]
              \/ calls'[id] = Call(n, log[applied[n] + 1].cmd, "answered", applied[n], o.reply)
           /\ UNCHANGED <<log, open, hist, snap, skipped, strayed>>
  <1> DEFINE entry == log[applied[n] + 1]
  <1>1. applied[n] \in 0 .. Len(log) - 1
    BY TypeFacts DEF Apply, ClusterTypeOK
  <1>2. entry \in Entry /\ entry.cmd \in Command
    BY <1>1, TypeFacts DEF Entry
  <1>3. entry.id \in 1 .. Len(calls)
    BY <1>1, TypeFacts DEF EntriesKnown
  <1>4. PICK o \in Runs(db[n], entry.cmd) :
          /\ db' = [db EXCEPT ![n] = o.state]
          /\ calls' = IF calls[entry.id].node = n /\ calls[entry.id].status = "waiting"
                      THEN [calls EXCEPT ![entry.id] =
                              Call(n, entry.cmd, "answered", applied[n], o.reply)]
                      ELSE calls
    BY Zenon DEF Apply
  <1>5. Call(n, entry.cmd, "answered", applied[n], o.reply) \in CallRecord
    BY <1>1, <1>2, RunsType, CallType, Zenon DEF ClusterTypeOK
  <1>6. /\ Len(calls') = Len(calls)
        /\ \A j \in 1 .. Len(calls) : j # entry.id => calls'[j] = calls[j]
        /\ \/ calls'[entry.id] = calls[entry.id]
           \/ calls'[entry.id] = Call(n, entry.cmd, "answered", applied[n], o.reply)
    BY <1>3, <1>4, <1>5, ExceptSeq DEF ClusterTypeOK
  <1>7. /\ applied' = [applied EXCEPT ![n] = applied[n] + 1]
        /\ UNCHANGED <<log, open, hist, snap, skipped, strayed>>
    BY Zenon DEF Apply, historyVars
  <1>8. QED
    BY <1>1, <1>3, <1>4, <1>6, <1>7, Zenon

\* The other steps keep the log, the open entries and the history; calls at most
\* fail.
LEMMA FaultEffect ==
  ASSUME ClusterTypeOK, NEW n \in Replica, NEW m \in Replica,
         \/ BecomeLeader(n) \/ StepDown(n) \/ Snapshot(n) \/ Restart(n)
         \/ InstallSnapshot(n, m)
  PROVE  /\ Len(calls') = Len(calls)
         /\ \A id \in 1 .. Len(calls) : calls'[id] = calls[id] \/ calls'[id].status = "failed"
         /\ UNCHANGED <<log, open, hist>>
  <1>1. CASE BecomeLeader(n) \/ Snapshot(n) \/ InstallSnapshot(n, m)
    BY <1>1, Zenon DEF BecomeLeader, Snapshot, InstallSnapshot, historyVars
  <1>2. CASE StepDown(n)
    BY <1>2, FailProperties, Zenon DEF StepDown, ClusterTypeOK, historyVars
  <1>3. CASE Restart(n)
    BY <1>3, FailProperties, Zenon DEF Restart, ClusterTypeOK
  <1>4. QED
    BY <1>1, <1>2, <1>3, Zenon

\* Every entry keeps its place, or goes from the open ones to the log.
LEMMA EntriesStep ==
  ASSUME ClusterTypeOK, EntriesKnown, [ClusterNext]_clusterVars
  PROVE  EntriesKnown'
  <1> USE TypeFacts
  <1>1. ASSUME NEW n \in Replica, NEW cmd \in Command, ApplyCommand(n, cmd)
        PROVE  EntriesKnown'
    <2>1. CASE open' = open
      BY <1>1, <2>1, ApplyCommandEffect DEF EntriesKnown
    <2>2. CASE open' = open \cup {[id |-> Len(calls) + 1, cmd |-> cmd]}
      BY <1>1, <2>2, ApplyCommandEffect DEF EntriesKnown
    <2>3. QED
      BY <1>1, <2>1, <2>2, ApplyCommandEffect, Zenon
  <1>2. ASSUME NEW n \in Replica, NEW cmd \in Command, ReadCommand(n, cmd)
        PROVE  EntriesKnown'
    BY <1>2, ReadCommandEffect DEF EntriesKnown
  <1>3. ASSUME NEW entry \in open, Commit(entry)
        PROVE  EntriesKnown'
    <2>1. /\ open' = open \ {entry} /\ calls' = calls
          /\ Len(log') = Len(log) + 1 /\ log'[Len(log) + 1] = entry
          /\ \A i \in 1 .. Len(log) : log'[i] = log[i]
      BY <1>3, CommitEffect, Zenon
    <2>2. \A i \in 1 .. Len(log') : i \in 1 .. Len(log) \/ i = Len(log) + 1
      BY <2>1
    <2>3. \A i \in 1 .. Len(log') : log'[i].id \in 1 .. Len(calls')
      BY <2>1, <2>2, Zenon DEF EntriesKnown
    <2>4. \A i, j \in 1 .. Len(log') : log'[i].id = log'[j].id => i = j
      BY <2>1, <2>2 DEF EntriesKnown
    <2>5. \A e \in open' : \A i \in 1 .. Len(log') : log'[i].id # e.id
      BY <2>1, <2>2 DEF EntriesKnown
    <2>6. QED
      BY <2>1, <2>3, <2>4, <2>5 DEF EntriesKnown
  <1>4. ASSUME NEW n \in Replica, Apply(n)
        PROVE  EntriesKnown'
    BY <1>4, ApplyEffect, Zenon DEF EntriesKnown
  <1>5. ASSUME NEW n \in Replica, NEW m \in Replica,
               \/ BecomeLeader(n) \/ StepDown(n) \/ Snapshot(n) \/ Restart(n)
               \/ InstallSnapshot(n, m)
        PROVE  EntriesKnown'
    BY <1>5, FaultEffect, Zenon DEF EntriesKnown
  <1>6. CASE UNCHANGED clusterVars
    BY <1>6, Zenon DEF clusterVars, EntriesKnown
  <1>7. QED
    BY <1>1, <1>2, <1>3, <1>4, <1>5, <1>6, Zenon DEF ClusterNext

\* The history grows with the log.
LEMMA HistoryStep ==
  ASSUME ClusterTypeOK, EntriesKnown, HistoryRight, [ClusterNext]_clusterVars
  PROVE  HistoryRight'
  <1>1. CASE UNCHANGED <<log, hist>>
    BY <1>1 DEF HistoryRight, After
  <1>2. ASSUME NEW entry \in open, Commit(entry)
        PROVE  HistoryRight'
    <2>1. hist'[1] = {Empty}
      BY <1>2, TypeFacts, CommitEffect DEF HistoryRight
    <2>2. ASSUME NEW i \in 1 .. Len(log')
          PROVE  hist'[i + 1] = After(hist'[i], log'[i].cmd)
      <3>1. CASE i <= Len(log)
        BY <1>2, <2>2, <3>1, TypeFacts, CommitEffect DEF HistoryRight
      <3>2. CASE i = Len(log) + 1
        BY <1>2, <3>2, TypeFacts, CommitEffect
      <3>3. QED
        BY <1>2, <2>2, <3>1, <3>2, TypeFacts, CommitEffect
    <2>3. QED
      BY <2>1, <2>2, Zenon DEF HistoryRight, After
  <1>3. ClusterNext => UNCHANGED <<log, hist>> \/ \E entry \in open : Commit(entry)
    BY ApplyCommandEffect, ReadCommandEffect, ApplyEffect, FaultEffect, Zenon DEF ClusterNext
  <1>4. QED
    BY <1>1, <1>2, <1>3, Zenon DEF clusterVars

\* Nodes follow the log.
LEMMA StateStep ==
  ASSUME ClusterTypeOK, EntriesKnown, HistoryRight, StateFromLog, [ClusterNext]_clusterVars
  PROVE  StateFromLog'
  <1> USE TypeFacts
  <1>1. ASSUME NEW n \in Replica, NEW cmd \in Command, ApplyCommand(n, cmd)
        PROVE  StateFromLog'
    BY <1>1, ApplyCommandEffect, Zenon DEF StateFromLog
  <1>2. ASSUME NEW n \in Replica, NEW cmd \in Command, ReadCommand(n, cmd)
        PROVE  StateFromLog'
    <2>1. CASE UNCHANGED <<db, strayed>>
      BY <1>2, <2>1, ReadCommandEffect, Zenon DEF StateFromLog
    <2>2. ASSUME NEW o \in Runs(db[n], cmd), db' = [db EXCEPT ![n] = o.state],
                 strayed' = IF cmd \in LocalWrites THEN strayed \cup {n} ELSE strayed
          PROVE  StateFromLog'
      <3>1. CASE cmd \in LocalWrites
        BY <1>2, <2>2, <3>1, ReadCommandEffect, Zenon DEF StateFromLog, ClusterTypeOK
      <3>2. CASE cmd \notin LocalWrites
        <4>1. cmd \in Reads \cup {Info}
          BY <1>2, <3>2, ReadCommandEffect, Zenon DEF Command
        <4>2. o.state = db[n]
          BY <4>1, RunsAssumption, Zenon DEF ClusterTypeOK
        <4>3. QED
          BY <1>2, <2>2, <3>2, <4>2, ReadCommandEffect, Zenon DEF StateFromLog, ClusterTypeOK
      <3>3. QED
        BY <3>1, <3>2, Zenon
    <2>3. QED
      BY <1>2, <2>1, <2>2, ReadCommandEffect, Zenon
  <1>3. ASSUME NEW entry \in open, Commit(entry)
        PROVE  StateFromLog'
    <2>1. ASSUME NEW n \in Replica \ (skipped' \cup strayed')
          PROVE  db'[n] \in hist'[applied'[n] + 1]
      <3>1. UNCHANGED <<db, applied, skipped, strayed>>
        BY <1>3, CommitEffect, Zenon
      <3>2. applied[n] + 1 \in 1 .. Len(log) + 1
        BY DEF ClusterTypeOK
      <3>3. hist'[applied[n] + 1] = hist[applied[n] + 1]
        BY <1>3, <3>2, CommitEffect, Zenon
      <3>4. QED
        BY <2>1, <3>1, <3>3, Zenon DEF StateFromLog
    <2>2. QED
      BY <2>1, Zenon DEF StateFromLog
  <1>4. ASSUME NEW n \in Replica, Apply(n)
        PROVE  StateFromLog'
    <2> DEFINE i == applied[n] + 1
    <2>1. PICK o \in Runs(db[n], log[i].cmd) :
            /\ applied[n] \in 0 .. Len(log) - 1
            /\ db' = [db EXCEPT ![n] = o.state] /\ applied' = [applied EXCEPT ![n] = i]
            /\ UNCHANGED <<hist, skipped, strayed>>
      BY <1>4, ApplyEffect, Zenon
    <2>2. db[n] \in hist[i] => o.state \in hist[i + 1]
      BY <2>1 DEF HistoryRight, After
    <2>3. QED
      BY <2>1, <2>2, Zenon DEF StateFromLog, ClusterTypeOK
  <1>5. ASSUME NEW n \in Replica, BecomeLeader(n) \/ StepDown(n) \/ Snapshot(n)
        PROVE  StateFromLog'
    BY <1>5, Zenon DEF BecomeLeader, StepDown, Snapshot, StateFromLog, historyVars
  <1>6. ASSUME NEW n \in Replica, Restart(n)
        PROVE  StateFromLog'
    <2>1. CASE snap[n] > 0
      BY <1>6, <2>1, Zenon DEF Restart, StateFromLog, ClusterTypeOK
    <2>2. CASE snap[n] = 0
      BY <1>6, <2>2 DEF Restart, Restore, StateFromLog, ClusterTypeOK, HistoryRight
    <2>3. QED
      BY <2>1, <2>2 DEF ClusterTypeOK
  <1>7. ASSUME NEW n \in Replica, NEW m \in Replica, InstallSnapshot(n, m)
        PROVE  StateFromLog'
    BY <1>7, Zenon DEF InstallSnapshot, StateFromLog, ClusterTypeOK
  <1>8. CASE UNCHANGED clusterVars
    BY <1>8, Zenon DEF clusterVars, StateFromLog
  <1>9. QED
    BY <1>1, <1>2, <1>3, <1>4, <1>5, <1>6, <1>7, <1>8, Zenon DEF ClusterNext

\* What CallsRight says of one call.
AnswerRight(call, id) ==
  call.status = "answered" =>
    /\ call.at <= Len(log)
    /\ call.cmd \in Writes => call.at < Len(log) /\ log[call.at + 1].id = id
    /\ call.sound => ReplyFrom(call.at, call.cmd, call.reply)

RefusalRight(call, id) ==
  call.status = "refused" =>
    /\ \A i \in 1 .. Len(log) : log[i].id # id
    /\ \A e \in open : e.id # id

\* CallsRight, call by call.
LEMMA CallsRightMeans ==
  CallsRight <=> \A id \in 1 .. Len(calls) : AnswerRight(calls[id], id) /\ RefusalRight(calls[id], id)
  BY Zenon DEF CallsRight, AnswerRight, RefusalRight, IsWriteCommand

\* Answers stay right: the log and the history only grow.
LEMMA AnswersStay ==
  ASSUME ClusterTypeOK, Len(log') >= Len(log), Len(log') \in Nat,
         \A i \in 1 .. Len(log) : log'[i] = log[i],
         \A i \in 1 .. Len(log) + 1 : hist'[i] = hist[i],
         NEW call \in CallRecord, NEW id, AnswerRight(call, id)
  PROVE  AnswerRight(call, id)'
  <1> USE TypeFacts
  <1>1. call.at \in Nat
    BY Zenon DEF CallRecord
  <1>2. CASE call.status = "answered"
    <2>1. call.at + 1 \in 1 .. Len(log) + 1
      BY <1>1, <1>2 DEF AnswerRight
    <2>2. hist'[call.at + 1] = hist[call.at + 1]
      BY <2>1, Zenon
    <2>3. ReplyFrom(call.at, call.cmd, call.reply) => ReplyFrom(call.at, call.cmd, call.reply)'
      BY <2>2, Zenon DEF ReplyFrom
    <2>4. QED
      BY <1>1, <1>2, <2>3 DEF AnswerRight
  <1>3. QED
    BY <1>2, Zenon DEF AnswerRight

\* A call that is left alone stays right when the log and the history do.
LEMMA CallKept ==
  ASSUME UNCHANGED <<log, open, hist>>, NEW id, calls'[id] = calls[id],
         AnswerRight(calls[id], id), RefusalRight(calls[id], id)
  PROVE  AnswerRight(calls[id], id)' /\ RefusalRight(calls[id], id)'
  <1>1. ReplyFrom(calls[id].at, calls[id].cmd, calls[id].reply) =>
          ReplyFrom(calls[id].at, calls[id].cmd, calls[id].reply)'
    BY Zenon DEF ReplyFrom
  <1>2. AnswerRight(calls[id], id)'
    BY <1>1, Zenon DEF AnswerRight
  <1>3. RefusalRight(calls[id], id)'
    BY Zenon DEF RefusalRight
  <1>4. QED
    BY <1>2, <1>3, Zenon

\* The record of an answer.
LEMMA AnswerFields ==
  ASSUME NEW n, NEW cmd, NEW at, NEW reply, NEW c, c = Call(n, cmd, "answered", at, reply)
  PROVE  /\ c.status = "answered" /\ c.cmd = cmd /\ c.at = at /\ c.reply = reply
         /\ c.sound => n \notin skipped \cup strayed
  <1>1. c.status = "answered" /\ c.cmd = cmd /\ c.at = at /\ c.reply = reply
    BY Zenon DEF Call
  <1>2. c.sound => n \notin skipped \cup strayed
    BY Zenon DEF Call
  <1>3. QED
    BY <1>1, <1>2, Zenon

\* Calls that were right stay right, and new answers and refusals are right.
LEMMA CallsStep ==
  ASSUME ClusterTypeOK, ClusterInv, [ClusterNext]_clusterVars
  PROVE  CallsRight'
  <1> USE TypeFacts
  <1>r. \A id \in 1 .. Len(calls) : AnswerRight(calls[id], id) /\ RefusalRight(calls[id], id)
    BY CallsRightMeans, Zenon DEF ClusterInv
  <1>s. SUFFICES \A id \in 1 .. Len(calls') :
                   AnswerRight(calls[id], id)' /\ RefusalRight(calls[id], id)'
    BY Zenon DEF CallsRight, AnswerRight, RefusalRight, IsWriteCommand
  <1>k. EntriesKnown /\ StateFromLog
    BY Zenon DEF ClusterInv
  <1>1. ASSUME NEW n \in Replica, NEW cmd \in Command, ApplyCommand(n, cmd),
               NEW id \in 1 .. Len(calls')
        PROVE  AnswerRight(calls[id], id)' /\ RefusalRight(calls[id], id)'
    <2>1. UNCHANGED <<log, hist>> /\ Len(calls') = Len(calls) + 1
      BY <1>1, ApplyCommandEffect, Zenon
    <2>2. CASE id \in 1 .. Len(calls)
      <3>1. calls'[id] = calls[id]
        BY <1>1, <2>2, ApplyCommandEffect, Zenon
      <3>2. AnswerRight(calls[id], id)'
        <4>1. AnswerRight(calls[id], id)
          BY <1>r, <2>2, Zenon
        <4>2. \A at, c, reply : ReplyFrom(at, c, reply)' <=> ReplyFrom(at, c, reply)
          BY <2>1, Zenon DEF ReplyFrom
        <4> QED
          BY <2>1, <3>1, <4>1, <4>2, Zenon DEF AnswerRight
      <3>3. \A e \in open' : e \in open \/ e.id = Len(calls) + 1
        BY <1>1, ApplyCommandEffect
      <3>4. RefusalRight(calls[id], id)'
        BY <1>r, <2>1, <2>2, <3>1, <3>3 DEF RefusalRight
      <3>5. QED
        BY <3>2, <3>4, Zenon
    <2>3. CASE id = Len(calls) + 1
      <3>1. \/ calls'[id].status = "refused" /\ open' = open
            \/ calls'[id].status = "waiting"
        BY <1>1, <2>3, ApplyCommandEffect, Zenon
      <3>2. QED
        BY <1>k, <2>1, <2>3, <3>1 DEF AnswerRight, RefusalRight, EntriesKnown
    <2>4. QED
      BY <2>1, <2>2, <2>3
  <1>2. ASSUME NEW n \in Replica, NEW cmd \in Command, ReadCommand(n, cmd),
               NEW id \in 1 .. Len(calls')
        PROVE  AnswerRight(calls[id], id)' /\ RefusalRight(calls[id], id)'
    <2>1. UNCHANGED <<log, open, hist>> /\ Len(calls') = Len(calls) + 1
      BY <1>2, ReadCommandEffect, Zenon
    <2>2. CASE id \in 1 .. Len(calls)
      <3>1. calls'[id] = calls[id]
        BY <1>2, <2>2, ReadCommandEffect, Zenon
      <3>2. QED
        BY <1>r, <2>1, <2>2, <3>1, CallKept, Zenon
    <2>3. CASE id = Len(calls) + 1 /\ calls'[id].status = "refused"
      BY <1>k, <2>1, <2>3 DEF AnswerRight, RefusalRight, EntriesKnown
    <2>4. ASSUME id = Len(calls) + 1, NEW o \in Runs(db[n], cmd),
                 calls'[id] = Call(n, cmd, "answered", applied[n], o.reply)
          PROVE  AnswerRight(calls[id], id)' /\ RefusalRight(calls[id], id)'
      <3>1. /\ calls'[id].status = "answered" /\ calls'[id].cmd = cmd
            /\ calls'[id].at = applied[n] /\ calls'[id].reply = o.reply
            /\ calls'[id].sound => n \notin skipped \cup strayed
        BY <2>4, AnswerFields
      <3>2. cmd \notin Writes /\ applied[n] <= Len(log)
        BY <1>2, ReadCommandEffect, Zenon DEF ClusterTypeOK
      <3>3. n \notin skipped \cup strayed => db[n] \in hist[applied[n] + 1]
        BY <1>k, Zenon DEF StateFromLog
      <3>4. calls'[id].sound =>
              \E s \in hist'[applied[n] + 1] : \E a \in Runs(s, cmd) : a.reply = o.reply
        BY <2>1, <3>1, <3>3, Zenon
      <3>5. AnswerRight(calls[id], id)'
        BY <2>1, <3>1, <3>2, <3>4, Zenon DEF AnswerRight, ReplyFrom
      <3>6. QED
        BY <3>1, <3>5, Zenon DEF RefusalRight
    <2>5. QED
      BY <1>2, <2>1, <2>2, <2>3, <2>4, ReadCommandEffect
  <1>3. ASSUME NEW entry \in open, Commit(entry), NEW id \in 1 .. Len(calls')
        PROVE  AnswerRight(calls[id], id)' /\ RefusalRight(calls[id], id)'
    <2>1. /\ open' = open \ {entry} /\ calls' = calls
          /\ Len(log') = Len(log) + 1 /\ log'[Len(log) + 1] = entry
          /\ \A i \in 1 .. Len(log) : log'[i] = log[i]
          /\ \A i \in 1 .. Len(log) + 1 : hist'[i] = hist[i]
      BY <1>3, CommitEffect, Zenon
    <2>2. AnswerRight(calls[id], id)'
      <3>1. calls[id] \in CallRecord /\ AnswerRight(calls[id], id)
        BY <1>3, <1>r, <2>1, Zenon
      <3>2. \A call \in CallRecord : AnswerRight(call, id) => AnswerRight(call, id)'
        BY <2>1, AnswersStay
      <3>3. QED
        BY <2>1, <3>1, <3>2, ZenonT(60) DEF AnswerRight, ReplyFrom
    <2>3. \A i \in 1 .. Len(log') : i \in 1 .. Len(log) \/ i = Len(log) + 1
      BY <2>1
    <2>4. RefusalRight(calls[id], id)'
      BY <1>3, <1>r, <2>1, <2>3, Zenon DEF RefusalRight
    <2>5. QED
      BY <2>2, <2>4, Zenon
  <1>4. ASSUME NEW n \in Replica, Apply(n), NEW id \in 1 .. Len(calls')
        PROVE  AnswerRight(calls[id], id)' /\ RefusalRight(calls[id], id)'
    <2> DEFINE entry == log[applied[n] + 1]
    <2>1. PICK o \in Runs(db[n], entry.cmd) :
            /\ applied[n] \in 0 .. Len(log) - 1 /\ Len(calls') = Len(calls)
            /\ \A j \in 1 .. Len(calls) : j # entry.id => calls'[j] = calls[j]
            /\ \/ calls'[entry.id] = calls[entry.id]
               \/ calls'[entry.id] = Call(n, entry.cmd, "answered", applied[n], o.reply)
            /\ UNCHANGED <<log, open, hist>>
      BY <1>4, <1>k, ApplyEffect, Zenon
    <2>2. CASE calls'[id] = calls[id]
      BY <1>4, <1>r, <2>1, <2>2, CallKept, Zenon
    <2>3. CASE id = entry.id /\ calls'[id] = Call(n, entry.cmd, "answered", applied[n], o.reply)
      <3>1. /\ calls'[id].status = "answered" /\ calls'[id].cmd = entry.cmd
            /\ calls'[id].at = applied[n] /\ calls'[id].reply = o.reply
            /\ calls'[id].sound => n \notin skipped \cup strayed
        BY <2>3, AnswerFields
      <3>2. n \notin skipped \cup strayed => db[n] \in hist[applied[n] + 1]
        BY <1>k, Zenon DEF StateFromLog
      <3>3. calls'[id].sound =>
              \E s \in hist'[applied[n] + 1] : \E a \in Runs(s, entry.cmd) : a.reply = o.reply
        BY <2>1, <3>1, <3>2, Zenon
      <3>4. applied[n] < Len(log') /\ log'[applied[n] + 1].id = id
        BY <2>1, <2>3
      <3> HIDE DEF entry
      <3>5. AnswerRight(calls[id], id)'
        BY <2>1, <3>1, <3>3, <3>4 DEF AnswerRight, ReplyFrom
      <3>6. QED
        BY <3>1, <3>5, Zenon DEF RefusalRight
    <2>4. QED
      BY <1>4, <2>1, <2>2, <2>3, Zenon
  <1>5. ASSUME NEW n \in Replica, NEW m \in Replica,
               \/ BecomeLeader(n) \/ StepDown(n) \/ Snapshot(n) \/ Restart(n)
               \/ InstallSnapshot(n, m),
               NEW id \in 1 .. Len(calls')
        PROVE  AnswerRight(calls[id], id)' /\ RefusalRight(calls[id], id)'
    <2>1. /\ UNCHANGED <<log, open, hist>> /\ Len(calls') = Len(calls)
          /\ calls'[id] = calls[id] \/ calls'[id].status = "failed"
      BY <1>5, FaultEffect, Zenon
    <2>2. CASE calls'[id] = calls[id]
      BY <1>5, <1>r, <2>1, <2>2, CallKept, Zenon
    <2>3. CASE calls'[id].status = "failed"
      BY <2>3, Zenon DEF AnswerRight, RefusalRight
    <2>4. QED
      BY <2>1, <2>2, <2>3, Zenon
  <1>6. CASE UNCHANGED clusterVars
    BY <1>6, <1>r, CallKept, Zenon DEF clusterVars
  <1>7. QED
    BY <1>1, <1>2, <1>3, <1>4, <1>5, <1>6, Zenon DEF ClusterNext

-----------------------------------------------------------------------------
(* The theorems *)

\* The invariant holds at the start.
LEMMA InvInit == ClusterInit => ClusterInv
  <1> SUFFICES ASSUME ClusterInit PROVE ClusterInv
    BY Zenon
  <1>1. Len(log) = 0 /\ Len(calls) = 0 /\ open = {}
    BY Zenon DEF ClusterInit
  <1>2. EntriesKnown /\ CallsRight
    BY <1>1 DEF EntriesKnown, CallsRight
  <1>3. HistoryRight
    BY <1>1 DEF ClusterInit, HistoryRight
  <1>4. StateFromLog
    <2>1. hist[1] = {Empty} /\ \A n \in Replica : db[n] = Empty /\ applied[n] = 0
      BY Zenon DEF ClusterInit
    <2>2. \A n \in Replica : hist[applied[n] + 1] = {Empty}
      <3>1. hist[0 + 1] = {Empty}
        BY <2>1
      <3>2. QED
        BY <2>1, <3>1, Zenon
    <2>3. QED
      BY <2>1, <2>2, Zenon DEF StateFromLog
  <1>5. QED
    BY <1>2, <1>3, <1>4, Zenon DEF ClusterInv

\* The invariant holds in every run.
LEMMA InvHolds == ClusterSpec => []ClusterInv
  <1>1. ClusterTypeOK /\ ClusterInv /\ [ClusterNext]_clusterVars => ClusterInv'
    BY EntriesStep, HistoryStep, StateStep, CallsStep, Zenon DEF ClusterInv
  <1>2. QED
    BY <1>1, InvInit, ClusterTypeCorrect, PTL DEF ClusterSpec

\* In every run of a cluster, with any number of nodes, the database of a node
\* is one that the entries it has applied lead to (fsm.Apply), unless Restore has
\* passed over entries or the node has executed a write that IsWriteCommand does
\* not name.
THEOREM ClusterFollowsLog == ClusterSpec => []StateFromLog
  BY InvHolds, PTL DEF ClusterInv

\* Nodes that have applied the same entries agree, for commands with one outcome.
THEOREM ClusterReplicasAgree == ClusterSpec => []ReplicasAgree
  <1>1. StateFromLog => ReplicasAgree
    BY Zenon DEF StateFromLog, ReplicasAgree
  <1>2. QED
    BY <1>1, ClusterFollowsLog, PTL

\* Answers to clients are those of the log: a write that is answered was committed
\* once, and its reply is what the entries in front of it lead to (ApplyCommand
\* and ReadCommand of node.go).
THEOREM ClusterAnswersRight == ClusterSpec => []AnswersRight
  <1>1. ClusterTypeOK /\ ClusterInv => AnswersRight
    <2> SUFFICES ASSUME ClusterTypeOK, ClusterInv, NEW id \in DOMAIN calls
                 PROVE  LET call == calls[id]
                            at   == {i \in DOMAIN log : log[i].id = id}
                            from == hist[call.at + 1]
                        IN /\ call.status = "answered" =>
                                /\ IsWriteCommand(call.cmd) => at = {call.at + 1}
                                /\ call.sound => \E s \in from : \E o \in Runs(s, call.cmd) :
                                                   o.reply = call.reply
                           /\ call.status = "refused" => at = {} /\ \A e \in open : e.id # id
                           /\ \A i, j \in at : i = j
      BY Zenon DEF AnswersRight
    <2> USE TypeFacts
    <2>1. AnswerRight(calls[id], id) /\ RefusalRight(calls[id], id)
      BY CallsRightMeans, Zenon DEF ClusterInv
    <2>2. \A i, j \in 1 .. Len(log) : log[i].id = log[j].id => i = j
      BY Zenon DEF ClusterInv, EntriesKnown
    <2>3. calls[id].at \in Nat
      BY Zenon DEF CallRecord
    <2>4. CASE calls[id].status = "answered"
      BY <2>1, <2>2, <2>3, <2>4 DEF AnswerRight, ReplyFrom, IsWriteCommand
    <2>5. CASE calls[id].status # "answered"
      BY <2>1, <2>2, <2>5, Zenon DEF RefusalRight
    <2>6. QED
      BY <2>4, <2>5, Zenon
  <1>2. QED
    BY <1>1, InvHolds, ClusterTypeCorrect, PTL
=============================================================================
