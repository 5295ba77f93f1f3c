-------------------------- MODULE SetDbRefinement --------------------------
(***************************************************************************)
(* The set commands (module SetDb) are atomic: while no deadline has       *)
(* passed and SUNIONSTORE has released no lock too early, every step is a  *)
(* step of AtomicSets or changes nothing there.                            *)
(***************************************************************************)
EXTENDS SetDbProofs

-----------------------------------------------------------------------------
(* Steps of a client *)

CommandStep(c) == SetStep(c) \/ \E command \in Command : ExecCommand(c, command)

\* f changes at c only.
Only(c, f, g) == g = f \/ \E v : g = [f EXCEPT ![c] = v]

LEMMA OnlyThere ==
  ASSUME NEW f, DOMAIN f = Proc, NEW c \in Proc, NEW g, Only(c, f, g), NEW d \in Proc \ {c}
  PROVE  g[d] = f[d]
  BY Zenon DEF Only

\* A client changes its own variables only.
LEMMA StepsAreOwn ==
  ASSUME SetInv, NEW c \in Proc, CommandStep(c)
  PROVE  \A d \in Proc \ {c} : Same(d)
<1>1. /\ Only(c, pc, pc') /\ Only(c, cmd, cmd') /\ Only(c, idx, idx') /\ Only(c, kept, kept')
      /\ Only(c, vals, vals') /\ Only(c, result, result') /\ Only(c, todo, todo')
      /\ Only(c, reply, reply') /\ Only(c, heldKeys, heldKeys') /\ Only(c, heldMode, heldMode')
  <2> USE DEF CommandStep, SetStep, CheckTTL, DeleteExpired, AfterCheck, Answer, Goto, Body, RunAccess, Peek,
              NothingKept, StartGather, Gather, EndGather, Recheck, Redelete, Store, StoreChecked,
              LockUnLock, UnionStore, Overwrite, Return, ExecCommand, Only
  <2>1. Only(c, pc, pc')
    BY Zenon
  <2>2. Only(c, cmd, cmd') /\ Only(c, idx, idx') /\ Only(c, kept, kept')
    BY Zenon
  <2>3. Only(c, vals, vals') /\ Only(c, result, result')
    BY Zenon
  <2>4. Only(c, todo, todo') /\ Only(c, reply, reply')
    BY Zenon
  <2>5. Only(c, heldKeys, heldKeys') /\ Only(c, heldMode, heldMode')
    BY Zenon DEF ReadUnlock, Acquire, Release, keyLockVars
  <2> HIDE DEF Only
  <2> QED
    BY <2>1, <2>2, <2>3, <2>4, <2>5, ZenonT(60)
<1>2. /\ DOMAIN pc = Proc /\ DOMAIN cmd = Proc /\ DOMAIN idx = Proc /\ DOMAIN kept = Proc
      /\ DOMAIN vals = Proc /\ DOMAIN result = Proc /\ DOMAIN todo = Proc /\ DOMAIN reply = Proc
      /\ DOMAIN heldKeys = Proc /\ DOMAIN heldMode = Proc
  BY Zenon DEF SetInv, SetTypes
<1> SUFFICES ASSUME NEW d \in Proc \ {c} PROVE Same(d)
  BY Zenon
<1>3. pc'[d] = pc[d] /\ cmd'[d] = cmd[d] /\ idx'[d] = idx[d] /\ kept'[d] = kept[d]
  BY <1>1, <1>2, OnlyThere
<1>4. vals'[d] = vals[d] /\ result'[d] = result[d] /\ todo'[d] = todo[d] /\ reply'[d] = reply[d]
  BY <1>1, <1>2, OnlyThere
<1>5. heldKeys'[d] = heldKeys[d] /\ heldMode'[d] = heldMode[d]
  BY <1>1, <1>2, OnlyThere
<1> QED
  BY <1>3, <1>4, <1>5, Zenon DEF Same

-----------------------------------------------------------------------------
(* The calm invariant: the keys and the values that a client has collected *)
(* are those of its command and of the map.                                *)

\* The position of the first source among the keys of c, less one.
Off(c) == IF cmd[c].op \in StoreOps THEN 1 ELSE 0

\* The keys c has collected are those of its command, in order.
Collected(c) ==
  /\ pc[c] = "idle" => kept[c] = <<>>
  /\ pc[c] \in {"check", "peek"} =>
       Len(kept[c]) = IF idx[c] = 1 \/ cmd[c].op \notin MultiOps THEN 0 ELSE idx[c] - 1 - Off(c)
  /\ pc[c] \in {"body", "gather"} /\ cmd[c].op \in MultiOps =>
       Len(kept[c]) = Len(cmd[c].keys) - Off(c)
  /\ pc[c] \in {"check", "peek", "body", "gather"} =>
       \A i \in 1..Len(kept[c]) : kept[c][i] = cmd[c].keys[i + Off(c)]

\* The values c has read are still those of the map.
Snapshot(c) ==
  /\ pc[c] \in {"idle", "check", "peek", "body"} => vals[c] = <<>>
  /\ pc[c] = "gather" =>
       \E n \in 0..Len(kept[c]) : vals[c] = [i \in 1..n |-> db[kept[c][i]]]

Replied(c) == reply[c] = <<>> <=> pc[c] \notin {"run", "done", "overwrite"}

CalmInv ==
  /\ due = {} /\ doomed = {}
  /\ \A c \in Proc :
       /\ pc[c] \notin {"expired", "redelete", "unlocked", "overwrite"}
       /\ Collected(c) /\ Snapshot(c) /\ Replied(c)

Calm == passed = 0 /\ ~loose

CalmStays == Calm => CalmInv

Quiet(c) ==
  /\ pc[c] \notin {"expired", "redelete", "unlocked", "overwrite"}
  /\ Collected(c) /\ Snapshot(c) /\ Replied(c)

\* The keys that others hold for reading keep their values.
ReadersSee(c) ==
  \A d \in Proc \ {c} : heldMode[d] = "r" => \A k \in heldKeys[d] : db'[k] = db[k]

LEMMA OthersQuiet ==
  ASSUME SetInv, NEW c, NEW d \in Proc \ {c}, Same(d), Quiet(d), ReadersSee(c)
  PROVE  Quiet(d)'
<1>1. Collected(d)' /\ Replied(d)' /\ pc'[d] \notin {"expired", "redelete", "unlocked", "overwrite"}
  BY Zenon DEF Quiet, Collected, Replied, Off, Same
<1>2. Snapshot(d)'
  <2>1. CASE pc[d] = "gather"
    <3>1. PICK n \in 0..Len(kept[d]) : vals[d] = [i \in 1..n |-> db[kept[d][i]]]
      BY <2>1, Zenon DEF Quiet, Snapshot
    <3>2. kept[d] \in Seq(Key) /\ heldMode[d] = "r" /\ heldKeys[d] = KeySet(kept[d])
      BY <2>1, Zenon DEF SetInv, SetTypes, Holds
    <3>3. \A i \in 1..n : kept[d][i] \in KeySet(kept[d])
      BY <3>2 DEF KeySet
    <3>4. \A i \in 1..n : db'[kept[d][i]] = db[kept[d][i]]
      BY <3>2, <3>3, Zenon DEF ReadersSee
    <3>5. vals[d] = [i \in 1..n |-> db'[kept[d][i]]]
      BY <3>1, <3>4, Zenon
    <3> QED
      BY <2>1, <3>5 DEF Snapshot, Same
  <2>2. CASE pc[d] # "gather"
    BY <2>2, Zenon DEF Quiet, Snapshot, Same
  <2> QED
    BY <2>1, <2>2, Zenon
<1> QED
  BY <1>1, <1>2, Zenon DEF Quiet

LEMMA MapKeptSeen ==
  ASSUME NEW c, db' = db
  PROVE  ReadersSee(c)
  BY Zenon DEF ReadersSee

LEMMA CallCalm ==
  ASSUME SetInv, NEW c \in Proc, Quiet(c), NEW command \in Command, ExecCommand(c, command)
  PROVE  Quiet(c)' /\ ReadersSee(c) /\ due' = due /\ doomed' = doomed
<1>1. /\ pc[c] = "idle" /\ pc'[c] = "check" /\ idx'[c] = 1 /\ kept' = kept /\ vals' = vals
      /\ reply' = reply /\ db' = db /\ due' = due /\ doomed' = doomed
  BY Zenon DEF SetInv, SetTypes, ExecCommand, Goto
<1>2. kept[c] = <<>> /\ vals[c] = <<>> /\ reply[c] = <<>>
  BY <1>1, Zenon DEF Quiet, Collected, Snapshot, Replied
<1> QED
  BY <1>1, <1>2, MapKeptSeen DEF Quiet, Collected, Snapshot, Replied

LEMMA ReturnCalm ==
  ASSUME SetInv, NEW c \in Proc, Quiet(c), Return(c)
  PROVE  Quiet(c)' /\ ReadersSee(c) /\ due' = due /\ doomed' = doomed
<1>1. /\ pc'[c] = "idle" /\ kept'[c] = <<>> /\ vals'[c] = <<>> /\ reply'[c] = <<>>
      /\ db' = db /\ due' = due /\ doomed' = doomed
  BY Zenon DEF SetInv, SetTypes, Return, Goto
<1> QED
  BY <1>1, MapKeptSeen, Zenon DEF Quiet, Collected, Snapshot, Replied

\* The checks collect the sources, in the order of the command.
LEMMA CheckCalm ==
  ASSUME SetInv, NEW c \in Proc, Quiet(c), due = {}, CheckTTL(c)
  PROVE  Quiet(c)' /\ ReadersSee(c) /\ due' = due /\ doomed' = doomed
<1>1. /\ pc[c] = "check" /\ AfterCheck(c, TRUE) /\ due' = due /\ doomed' = doomed /\ db' = db
      /\ vals' = vals /\ cmd' = cmd
  BY Zenon DEF CheckTTL
<1>2. /\ cmd[c] \in Command /\ idx[c] \in 1..Len(cmd[c].keys) /\ cmd[c].keys \in Seq(Key)
      /\ kept \in [Proc -> Seq(Key)] /\ idx \in [Proc -> Nat] /\ pc \in [Proc -> Labels]
  BY <1>1, HasCommand, CommandKeys, Zenon DEF SetInv, SetTypes, At
<1>3. /\ Len(kept[c]) = IF idx[c] = 1 \/ cmd[c].op \notin MultiOps THEN 0 ELSE idx[c] - 1 - Off(c)
      /\ \A i \in 1..Len(kept[c]) : kept[c][i] = cmd[c].keys[i + Off(c)]
      /\ vals[c] = <<>> /\ reply[c] = <<>>
  BY <1>1, Zenon DEF Quiet, Collected, Snapshot, Replied
<1>4. Off(c)' = Off(c) /\ Off(c) \in {0, 1} /\ (Off(c) = 1 <=> cmd[c].op \in StoreOps)
  BY <1>1 DEF Off
<1>5. CASE cmd[c].op \in StoreOps /\ idx[c] = 1
  <2>1. pc'[c] = "peek" /\ idx' = idx /\ reply' = reply /\ kept' = kept
    BY <1>2, <1>5, Zenon DEF AfterCheck, Goto, CheckTTL
  <2> QED
    BY <1>1, <1>3, <1>4, <1>5, <2>1, MapKeptSeen DEF Quiet, Collected, Snapshot, Replied
<1>6. CASE ~(cmd[c].op \in StoreOps /\ idx[c] = 1)
  <2>1. /\ pc'[c] = (IF idx[c] = Len(cmd[c].keys) THEN "body" ELSE "check")
        /\ idx'[c] = (IF idx[c] = Len(cmd[c].keys) THEN idx[c] ELSE idx[c] + 1)
        /\ reply' = reply
    BY <1>1, <1>2, <1>6, Zenon DEF AfterCheck, Goto
  <2>2. CASE cmd[c].op \notin MultiOps
    <3>1. kept' = kept
      BY <1>1, <2>2, Zenon DEF AfterCheck
    <3> QED
      BY <1>1, <1>3, <2>1, <2>2, <3>1, MapKeptSeen DEF Quiet, Collected, Snapshot, Replied
  <2>3. CASE cmd[c].op \in MultiOps
    <3>1. Checked(c) = cmd[c].keys[idx[c]]
      BY <2>3, Zenon DEF Checked, MultiOps, StoreOps
    <3>2. kept'[c] = Append(kept[c], cmd[c].keys[idx[c]])
      BY <1>1, <1>2, <1>6, <2>3, <3>1, Zenon DEF AfterCheck
    <3>3. PICK n \in Nat : n = idx[c] - 1 - Off(c)
      BY <1>2, <1>4, <1>6
    <3>4. Len(kept[c]) = n /\ idx[c] = n + 1 + Off(c)
      BY <1>2, <1>3, <1>4, <1>6, <2>3, <3>3
    <3>5. cmd[c].keys[idx[c]] \in Key
      BY <1>2
    <3>6. /\ Len(kept'[c]) = n + 1 /\ kept'[c][n + 1] = cmd[c].keys[idx[c]]
          /\ \A i \in 1..n : kept'[c][i] = kept[c][i]
      BY <1>2, <3>2, <3>4, <3>5
    <3>7. \A i \in 1..(n + 1) : kept'[c][i] = cmd[c].keys[i + Off(c)]
      <4> SUFFICES ASSUME NEW i \in 1..(n + 1) PROVE kept'[c][i] = cmd[c].keys[i + Off(c)]
        BY Zenon
      <4>1. CASE i = n + 1
        BY <3>4, <3>6, <4>1, Zenon
      <4>2. CASE i \in 1..n
        BY <1>3, <3>4, <3>6, <4>2, ZenonT(60)
      <4> QED
        BY <4>1, <4>2
    <3>8. Collected(c)'
      BY <1>1, <1>2, <1>4, <2>1, <2>3, <3>4, <3>6, <3>7 DEF Collected
    <3> QED
      BY <1>1, <1>3, <2>1, <3>8, MapKeptSeen, Zenon DEF Quiet, Snapshot, Replied
  <2> QED
    BY <2>2, <2>3, Zenon
<1> QED
  BY <1>5, <1>6, Zenon

LEMMA PeekCalm ==
  ASSUME SetInv, NEW c \in Proc, Quiet(c), Peek(c)
  PROVE  Quiet(c)' /\ ReadersSee(c) /\ due' = due /\ doomed' = doomed
<1>1. /\ pc[c] = "peek" /\ cmd[c].op \in StoreOps /\ idx[c] = 1
      /\ cmd' = cmd /\ kept' = kept /\ vals' = vals /\ db' = db /\ due' = due /\ doomed' = doomed
  BY Zenon DEF SetInv, At, Peek
<1>2. \/ pc'[c] = "done" /\ reply'[c] = <<WrongType>>
      \/ pc'[c] = "check" /\ idx'[c] = 2 /\ reply' = reply
  BY Zenon DEF SetInv, SetTypes, Peek, Goto, Answer
<1>3. kept[c] \in Seq(Key) /\ Len(kept[c]) = 0 /\ vals[c] = <<>> /\ reply[c] = <<>>
  BY <1>1, Zenon DEF SetInv, SetTypes, Quiet, Collected, Snapshot, Replied
<1>4. Off(c)' = 1 /\ <<WrongType>> # <<>>
  BY <1>1, Zenon DEF Off
<1>5. Collected(c)'
  BY <1>1, <1>2, <1>3, <1>4 DEF Collected
<1> QED
  BY <1>1, <1>2, <1>3, <1>4, <1>5, MapKeptSeen, Zenon DEF Quiet, Snapshot, Replied

\* A step to a point where nothing is known of kept and vals.
LEMMA DoneCalm ==
  ASSUME NEW c \in Proc, pc'[c] \in {"done", "run", "recheck", "store", "dead"},
         reply'[c] = <<>> <=> pc'[c] \notin {"done", "run"}
  PROVE  Quiet(c)'
  BY Zenon DEF Quiet, Collected, Snapshot, Replied

LEMMA NothingKeptCalm ==
  ASSUME SetInv, NEW c \in Proc, NothingKept(c)
  PROVE  Quiet(c)' /\ ReadersSee(c) /\ due' = due /\ doomed' = doomed
<1>1. pc'[c] = "done" /\ db' = db /\ due' = due /\ doomed' = doomed /\ \E r : reply'[c] = <<r>>
  BY Zenon DEF SetInv, SetTypes, NothingKept, Answer, Goto
<1> QED
  BY <1>1, DoneCalm, MapKeptSeen

LEMMA StartGatherCalm ==
  ASSUME SetInv, NEW c \in Proc, Quiet(c), StartGather(c)
  PROVE  Quiet(c)' /\ ReadersSee(c) /\ due' = due /\ doomed' = doomed
<1>1. /\ pc[c] = "body" /\ pc'[c] = "gather" /\ cmd[c].op \in MultiOps
      /\ cmd' = cmd /\ idx' = idx /\ kept' = kept /\ vals' = vals /\ reply' = reply
      /\ db' = db /\ due' = due /\ doomed' = doomed
  BY Zenon DEF SetInv, SetTypes, StartGather, Goto
<1>2. Collected(c)' /\ Replied(c)'
  BY <1>1, Zenon DEF Quiet, Collected, Replied, Off
<1>3. Snapshot(c)'
  <2>1. 0 \in 0..Len(kept[c]) /\ vals[c] = <<>>
    BY <1>1 DEF SetInv, SetTypes, Quiet, Snapshot
  <2>2. vals[c] = [i \in 1..0 |-> db[kept[c][i]]]
    BY <2>1
  <2> QED
    BY <1>1, <2>1, <2>2, Zenon DEF Snapshot
<1> QED
  BY <1>1, <1>2, <1>3, MapKeptSeen DEF Quiet

\* The values read so far, and one more.
LEMMA OneMore ==
  ASSUME NEW n \in Nat, NEW f, NEW g, g = [i \in 1..n |-> f[i]]
  PROVE  /\ Len(g) = n
         /\ Append(g, f[n + 1]) = [i \in 1..(n + 1) |-> f[i]]
<1>1. g \in Seq({f[i] : i \in 1..n}) /\ Len(g) = n
  OBVIOUS
<1>2. g \in Seq({f[i] : i \in 1..(n + 1)})
  OBVIOUS
<1> QED
  BY <1>1, <1>2

LEMMA GatherCalm ==
  ASSUME SetInv, NEW c \in Proc, Quiet(c), Gather(c)
  PROVE  Quiet(c)' /\ ReadersSee(c) /\ due' = due /\ doomed' = doomed
<1>1. /\ pc[c] = "gather" /\ pc' = pc /\ Len(vals[c]) < Len(kept[c])
      /\ vals'[c] = Append(vals[c], db[kept[c][Len(vals[c]) + 1]])
      /\ cmd' = cmd /\ idx' = idx /\ kept' = kept /\ reply' = reply
      /\ db' = db /\ due' = due /\ doomed' = doomed
  BY Zenon DEF SetInv, SetTypes, Gather
<1>2. Collected(c)' /\ Replied(c)'
  BY <1>1, Zenon DEF Quiet, Collected, Replied, Off
<1>3. PICK n \in 0..Len(kept[c]) : vals[c] = [i \in 1..n |-> db[kept[c][i]]]
  BY <1>1, Zenon DEF Quiet, Snapshot
<1>4. Len(kept[c]) \in Nat
  BY DEF SetInv, SetTypes
<1> DEFINE f == [i \in 1..Len(kept[c]) |-> db[kept[c][i]]]
<1>5. n \in Nat /\ n <= Len(kept[c]) /\ vals[c] = [i \in 1..n |-> f[i]]
  BY <1>3, <1>4
<1>6. Len(vals[c]) = n /\ Append(vals[c], f[n + 1]) = [i \in 1..(n + 1) |-> f[i]]
  <2> HIDE DEF f
  <2> QED
    BY <1>5, OneMore, ZenonT(60)
<1>7. n + 1 \in 0..Len(kept[c]) /\ f[n + 1] = db[kept[c][n + 1]]
  BY <1>1, <1>4, <1>5, <1>6
<1>8. vals'[c] = [i \in 1..(n + 1) |-> f[i]]
  <2> HIDE DEF f
  <2> QED
    BY <1>1, <1>6, <1>7, Zenon
<1>9. vals'[c] = [i \in 1..(n + 1) |-> db[kept[c][i]]]
  BY <1>4, <1>7, <1>8
<1>10. Snapshot(c)'
  BY <1>1, <1>7, <1>9, Zenon DEF Snapshot
<1> QED
  BY <1>1, <1>2, <1>10, MapKeptSeen, Zenon DEF Quiet

LEMMA EndGatherCalm ==
  ASSUME SetInv, NEW c \in Proc, Quiet(c), EndGather(c)
  PROVE  Quiet(c)' /\ ReadersSee(c) /\ due' = due /\ doomed' = doomed
<1>1. pc[c] = "gather" /\ db' = db /\ due' = due /\ doomed' = doomed
  BY Zenon DEF EndGather
<1>2. reply[c] = <<>>
  BY <1>1, Zenon DEF Quiet, Replied
<1>3. \/ pc'[c] \in {"dead", "recheck"} /\ reply' = reply
      \/ pc'[c] = "done" /\ \E r : reply'[c] = <<r>>
  BY Zenon DEF SetInv, SetTypes, EndGather, Answer, Goto
<1> QED
  BY <1>1, <1>2, <1>3, DoneCalm, MapKeptSeen

LEMMA RecheckCalm ==
  ASSUME SetInv, NEW c \in Proc, Quiet(c), due = {}, Recheck(c)
  PROVE  Quiet(c)' /\ ReadersSee(c) /\ due' = due /\ doomed' = doomed
<1>1. /\ pc[c] = "recheck" /\ pc'[c] = "store" /\ reply' = reply
      /\ db' = db /\ due' = due /\ doomed' = doomed
  BY Zenon DEF SetInv, SetTypes, Recheck, Goto
<1>2. reply[c] = <<>>
  BY <1>1, Zenon DEF Quiet, Replied
<1> QED
  BY <1>1, <1>2, DoneCalm, MapKeptSeen, Zenon

LEMMA StoreCalm ==
  ASSUME SetInv, NEW c \in Proc, Store(c)
  PROVE  Quiet(c)' /\ ReadersSee(c) /\ due' = due /\ doomed' = doomed
<1>1. /\ pc'[c] \in {"done", "run"} /\ (\E r : reply'[c] = <<r>>)
      /\ db' = db /\ due' = due /\ doomed' = doomed
  BY DEF SetInv, SetTypes, Store, StoreChecked, Answer, Goto
<1>2. reply'[c] # <<>>
  BY <1>1
<1> QED
  BY <1>1, <1>2, DoneCalm, MapKeptSeen, Zenon

\* Keys outside the locks of the handler keep their values.
LEMMA BodyLocal ==
  ASSUME SetInv, NEW c \in Proc, Body(c), NEW k \in Key, k \notin Locked(c) \/ LockMode(c) = "r"
  PROVE  db'[k] = db[k]
<1>1. pc[c] = "body" /\ cmd[c].op \notin MultiOps
  BY Zenon DEF Body
<1>2. PICK o \in Outcomes(db, cmd[c]) : db' = InPlace(c, o.map)
  BY Zenon DEF Body
<1>3. /\ Target(cmd[c]) \in Locked(c) /\ (\A j \in Key : IsSource(cmd[c], j) => j \in Locked(c))
      /\ Touches(c, o.map) /\ ReadsOnly(c, o.map)
  BY <1>1, BodyTouches, Zenon
<1> QED
  BY <1>2, <1>3, Zenon DEF Touches, ReadsOnly

LEMMA BodyCalm ==
  ASSUME SetInv, NEW c \in Proc, Body(c)
  PROVE  Quiet(c)' /\ ReadersSee(c) /\ due' = due /\ doomed' = doomed
<1>1. /\ pc'[c] \in {"done", "run"} /\ (\E r : reply'[c] = <<r>>) /\ due' = due /\ doomed' = doomed
  BY DEF SetInv, SetTypes, Body, Goto
<1>2. ASSUME NEW d \in Proc \ {c}, NEW k \in heldKeys[d]
      PROVE  db'[k] = db[k]
  <2>1. k \in Key
    BY Zenon DEF SetInv, SetTypes
  <2>2. k \notin Locked(c) \/ LockMode(c) = "r"
    BY Zenon DEF Body, CanAcquire
  <2> QED
    BY <2>1, <2>2, BodyLocal, Zenon
<1> QED
  BY <1>1, <1>2, DoneCalm DEF ReadersSee

LEMMA RunCalm ==
  ASSUME SetInv, NEW c \in Proc, Quiet(c), due = {}, RunAccess(c)
  PROVE  Quiet(c)' /\ ReadersSee(c) /\ due' = due /\ doomed' = doomed
<1>1. pc[c] = "run" /\ reply' = reply /\ due' = due /\ doomed' = doomed
  BY Zenon DEF RunAccess
<1>2. reply[c] # <<>>
  BY <1>1, Zenon DEF Quiet, Replied
<1>3. heldMode[c] = "w"
  BY RunIsNextAccess, Zenon
<1>4. PICK k \in heldKeys[c] : NextAccess(c, k)
  BY RunIsNextAccess, Zenon
<1>5. pc'[c] \in {"done", "run"}
  BY <1>1, <1>4, Zenon DEF SetInv, SetTypes, NextAccess
<1>6. \A j \in Key \ {k} : db'[j] = db[j]
  BY <1>4, Zenon DEF SetInv, SetTypes, NextAccess
<1>7. \A d \in Proc \ {c} : k \notin heldKeys[d] /\ heldKeys[d] \subseteq Key
  BY <1>3, Zenon DEF SetInv, SetTypes, Excl
<1>8. ReadersSee(c)
  BY <1>6, <1>7, Zenon DEF ReadersSee
<1> QED
  BY <1>1, <1>2, <1>5, <1>8, DoneCalm, Zenon

\* Once a deadline has passed, or a lock has been released too early, it stays so.
LEMMA CalmBefore ==
  ASSUME SetInv, SetDbNext, Calm'
  PROVE  Calm
<1>1. passed \in Nat
  BY Zenon DEF SetInv, SetTypes
<1>2. ASSUME NEW c \in Proc, CommandStep(c)
      PROVE  passed' = passed /\ (loose' = loose \/ loose')
  BY <1>2, Zenon DEF CommandStep, SetStep, CheckTTL, DeleteExpired, Body, RunAccess, Peek, NothingKept,
       StartGather, Gather, EndGather, Recheck, Redelete, Store, LockUnLock, UnionStore, Overwrite,
       Return, ExecCommand
<1>3. ASSUME NEW k \in Key, DeadlinePasses(k) \/ Collect(k) \/ CleanupDelete(k)
      PROVE  (passed' = passed \/ passed' = passed + 1) /\ loose' = loose
  BY <1>3, Zenon DEF DeadlinePasses, Collect, CleanupDelete
<1> QED
  BY <1>1, <1>2, <1>3 DEF Calm, SetDbNext, CommandStep

LEMMA CalmKept ==
  ASSUME SetInv, CalmStays, SetDbNext
  PROVE  CalmStays'
<1> SUFFICES ASSUME Calm' PROVE CalmInv'
  BY Zenon DEF CalmStays
<1>1. Calm /\ due = {} /\ doomed = {} /\ \A c \in Proc : Quiet(c)
  BY CalmBefore, Zenon DEF CalmStays, CalmInv, Quiet
<1>2. ASSUME NEW c \in Proc, CommandStep(c)
      PROVE  Quiet(c)' /\ ReadersSee(c) /\ due' = due /\ doomed' = doomed
  <2>1. Quiet(c) /\ pc[c] \notin {"expired", "redelete", "unlocked", "overwrite"}
    BY <1>1, Zenon DEF Quiet
  <2>2. ~DeleteExpired(c) /\ ~Redelete(c) /\ ~UnionStore(c) /\ ~Overwrite(c)
    BY <2>1, Zenon DEF DeleteExpired, Redelete, UnionStore, Overwrite
  <2>3. ~LockUnLock(c)
    BY Zenon DEF LockUnLock, Calm
  <2>4. CASE CheckTTL(c)
    BY <1>1, <2>1, <2>4, CheckCalm, Zenon
  <2>5. CASE Body(c)
    BY <2>5, BodyCalm
  <2>6. CASE RunAccess(c)
    BY <1>1, <2>1, <2>6, RunCalm, Zenon
  <2>7. CASE Peek(c)
    BY <2>1, <2>7, PeekCalm
  <2>8. CASE NothingKept(c)
    BY <2>8, NothingKeptCalm, Zenon
  <2>9. CASE StartGather(c)
    BY <2>1, <2>9, StartGatherCalm
  <2>10. CASE Gather(c)
    BY <2>1, <2>10, GatherCalm, Zenon
  <2>11. CASE EndGather(c)
    BY <2>1, <2>11, EndGatherCalm, ZenonT(60)
  <2>12. CASE Recheck(c)
    BY <1>1, <2>1, <2>12, RecheckCalm, Zenon
  <2>13. CASE Store(c)
    BY <2>13, StoreCalm, Zenon
  <2>14. CASE Return(c)
    BY <2>1, <2>14, ReturnCalm, Zenon
  <2>15. CASE \E command \in Command : ExecCommand(c, command)
    BY <2>1, <2>15, CallCalm, Zenon
  <2> QED
    BY <1>2, <2>2, <2>3, <2>4, <2>5, <2>6, <2>7, <2>8, <2>9, <2>10, <2>11, <2>12, <2>13, <2>14, <2>15, ZenonT(60)
       DEF CommandStep, SetStep
<1>3. ASSUME NEW c \in Proc, CommandStep(c)
      PROVE  CalmInv'
  <2>1. \A d \in Proc \ {c} : Quiet(d)'
    BY <1>1, <1>2, <1>3, StepsAreOwn, OthersQuiet, Zenon
  <2>2. \A d \in Proc : Quiet(d)'
    BY <1>2, <1>3, <2>1, Zenon
  <2> QED
    BY <1>1, <1>2, <1>3, <2>2, Zenon DEF CalmInv, Quiet
<1>4. ASSUME NEW k \in Key, DeadlinePasses(k) \/ Collect(k) \/ CleanupDelete(k)
      PROVE  FALSE
  BY <1>1, <1>4 DEF SetInv, SetTypes, Calm, DeadlinePasses, Collect, CleanupDelete
<1> QED
  BY <1>3, <1>4, Zenon DEF SetDbNext, CommandStep

LEMMA CalmStart ==
  SetDbInit => CalmStays
  BY Zenon DEF SetDbInit, CalmStays, CalmInv, Collected, Snapshot, Replied

\* While the database is calm, the keys and values that a client has collected
\* are those of its command and of the map, and it has an answer when it should.
LEMMA CalmInvariant == SetDbSpec => [](SetInv /\ CalmStays)
<1>1. CalmStays /\ UNCHANGED setVars => CalmStays'
  <2> SUFFICES ASSUME CalmStays, UNCHANGED setVars PROVE CalmStays'
    BY Zenon
  <2>1. Calm' => CalmInv
    BY Zenon DEF setVars, CalmStays, Calm
  <2>2. ASSUME NEW c \in Proc, Collected(c), Snapshot(c), Replied(c)
        PROVE  Collected(c)' /\ Snapshot(c)' /\ Replied(c)'
    <3>1. Collected(c)'
      BY <2>2, Zenon DEF setVars, Collected, Off
    <3>2. Snapshot(c)'
      BY <2>2, Zenon DEF setVars, Snapshot
    <3>3. Replied(c)'
      BY <2>2, Zenon DEF setVars, Replied
    <3> QED
      BY <3>1, <3>2, <3>3, Zenon
  <2>3. due' = due /\ doomed' = doomed /\ pc' = pc
    BY Zenon DEF setVars
  <2> QED
    BY <2>1, <2>2, <2>3, Zenon DEF CalmStays, CalmInv
<1>2. SetInv /\ CalmStays /\ [SetDbNext]_setVars => CalmStays'
  BY <1>1, CalmKept, Zenon
<1> QED
  BY <1>2, CalmStart, SetInvariant, PTL DEF SetDbSpec

-----------------------------------------------------------------------------
(* AtomicSets has the operators of SetOps as its own *)

LEMMA SameReplies ==
  /\ Atomic!Str = Str /\ Atomic!None = None /\ Atomic!WrongType = WrongType /\ Atomic!Panic = Panic
  /\ \A S : Atomic!Members(S) = Members(S) /\ Atomic!SetVal(S) = SetVal(S)
  /\ \A n : Atomic!Number(n) = Number(n)
  BY DEF Atomic!Str, Str, Atomic!None, None, Atomic!WrongType, WrongType, Atomic!Panic, Panic,
         Atomic!Members, Members, Atomic!SetVal, SetVal, Atomic!Number, Number

LEMMA SameOutcomes ==
  ASSUME NEW m, NEW command
  PROVE  Atomic!Outcomes(m, command) = Outcomes(m, command)
  BY DEF Atomic!Outcomes, Outcomes, Atomic!SAdd, SAdd, Atomic!SRem, SRem, Atomic!SPop, SPop,
         Atomic!Pops, Pops, Atomic!OnSet, OnSet, Atomic!OrDeleted, OrDeleted,
         Atomic!SCard, SCard, Atomic!SIsMember, SIsMember, Atomic!SMembers, SMembers,
         Atomic!SRandMember, SRandMember, Atomic!Random, Random, Atomic!SMove, SMove,
         Atomic!ReadSeveral, ReadSeveral, Atomic!SUnion, SUnion, Atomic!SInter, SInter,
         Atomic!SDiff, SDiff, Atomic!SetsOf, SetsOf, Atomic!Union, Union,
         Atomic!Intersect, Intersect, Atomic!Difference, Difference, Atomic!Result, Result,
         Atomic!ResultSet, ResultSet, Atomic!Outcome, Outcome, Atomic!Smaller, Smaller,
         Atomic!Str, Str, Atomic!None, None, Atomic!WrongType, WrongType, Atomic!Panic, Panic,
         Atomic!Members, Members, Atomic!SetVal, SetVal, Atomic!Number, Number, Atomic!Nil, Nil,
         Atomic!Ok, Ok, Atomic!IsSet, IsSet, Atomic!Cardinality, Cardinality

LEMMA SameResults ==
  ASSUME NEW vs
  PROVE  /\ Atomic!SUnion(vs) = SUnion(vs) /\ Atomic!SInter(vs) = SInter(vs)
         /\ Atomic!SDiff(vs) = SDiff(vs) /\ Atomic!SetsOf(vs) = SetsOf(vs)
<1> USE DEF Atomic!SetsOf, SetsOf, Atomic!Union, Union, Atomic!Result, Result,
            Atomic!ResultSet, ResultSet, Atomic!Str, Str, Atomic!None, None,
            Atomic!WrongType, WrongType, Atomic!Panic, Panic, Atomic!Members, Members
<1>1. Atomic!SUnion(vs) = SUnion(vs)
  BY Zenon DEF Atomic!SUnion, SUnion
<1>2. Atomic!SInter(vs) = SInter(vs)
  BY Zenon DEF Atomic!SInter, SInter, Atomic!Intersect, Intersect, Atomic!Cardinality, Cardinality
<1>3. Atomic!SDiff(vs) = SDiff(vs)
  BY Zenon DEF Atomic!SDiff, SDiff, Atomic!Difference, Difference
<1>4. Atomic!SetsOf(vs) = SetsOf(vs)
  BY Zenon
<1> QED
  BY <1>1, <1>2, <1>3, <1>4

-----------------------------------------------------------------------------
(* The settled map *)

\* c has a write of v to k left.
Writes(c, k, v) ==
  \/ todo[c] = <<Set(k, v)>> \/ todo[c] = <<Set(k, v), DelTTL(k)>>
  \/ v = None /\ todo[c] = <<Delete(k), DelTTL(k)>>

\* A key that is being written has its new value already.
SettledRight ==
  \A k \in Key :
    /\ \A c \in Proc : \A v : Writes(c, k, v) => Settled[k] = v
    /\ (\A c \in Proc : \A v : ~Writes(c, k, v)) => Settled[k] = db[k]

\* Only who holds the lock of a key for writing has writes to it left.
LEMMA WritersHold ==
  ASSUME SetInv, NEW c \in Proc, NEW k, NEW v, Writes(c, k, v)
  PROVE  k \in heldKeys[c] /\ heldMode[c] = "w"
<1>1. todo[c] # <<>>
  <2>1. \A a, b : <<a>> # <<>> /\ <<a, b>> # <<>>
    BY Zenon
  <2> QED
    BY <2>1, Zenon DEF Writes
<1>2. pc[c] = "run" /\ heldMode[c] = "w"
  BY <1>1, Zenon DEF SetInv, Runs, Holds
<1>3. PICK j \in heldKeys[c] : Left(j, todo[c])
  BY <1>2, Zenon DEF SetInv, Runs
<1>4. \A x, y : /\ Set(k, x) = Set(j, y) => k = j
               /\ Set(k, x) # DelTTL(j) /\ Set(k, x) # Delete(j) /\ Delete(k) # Set(j, y)
  BY Zenon DEF Set, Delete, DelTTL
<1>5. Delete(k) = Delete(j) => k = j
  BY Zenon DEF Delete
<1>6. Delete(k) # DelTTL(j)
  BY Zenon DEF Delete, DelTTL
<1>7. k = j
  <2>1. todo[c][1] = Set(k, v) \/ todo[c][1] = Delete(k)
    BY DEF Writes
  <2>2. todo[c][1] = DelTTL(j) \/ todo[c][1] = Delete(j) \/ \E y : todo[c][1] = Set(j, y)
    BY <1>3 DEF Left
  <2> QED
    BY <1>4, <1>5, <1>6, <2>1, <2>2, Zenon
<1> QED
  BY <1>2, <1>7, Zenon

\* The write to k among the accesses left.
Write(a, k) == a.k = k /\ a.do # "delttl"

LEMMA WriteFound ==
  ASSUME NEW c, NEW k, NEW v, Writes(c, k, v)
  PROVE  /\ \E a \in KeySet(todo[c]) : Write(a, k)
         /\ \A a \in KeySet(todo[c]) : Write(a, k) => a.v = v
<1>1. /\ Set(k, v).v = v /\ Write(Set(k, v), k) /\ Delete(k).v = None /\ Write(Delete(k), k)
      /\ ~Write(DelTTL(k), k)
  BY Zenon DEF Set, Delete, DelTTL, Write
<1>2. CASE todo[c] = <<Set(k, v)>>
  <2>1. KeySet(todo[c]) = {Set(k, v)}
    BY <1>2 DEF KeySet
  <2> QED
    BY <1>1, <2>1, Zenon
<1>3. CASE todo[c] = <<Set(k, v), DelTTL(k)>>
  <2>1. KeySet(todo[c]) = {Set(k, v), DelTTL(k)}
    BY <1>3 DEF KeySet
  <2> QED
    BY <1>1, <2>1, Zenon
<1>4. CASE v = None /\ todo[c] = <<Delete(k), DelTTL(k)>>
  <2>1. KeySet(todo[c]) = {Delete(k), DelTTL(k)}
    BY <1>4 DEF KeySet
  <2> QED
    BY <1>1, <1>4, <2>1, Zenon
<1> QED
  BY <1>2, <1>3, <1>4, Zenon DEF Writes

\* A client with a write left has one of the known forms.
LEMMA WriteKnown ==
  ASSUME SetInv, NEW c \in Proc, NEW k, NEW a \in KeySet(todo[c]), Write(a, k)
  PROVE  \E v : Writes(c, k, v)
<1>1. PICK i \in DOMAIN todo[c] : todo[c][i] = a
  BY Zenon DEF KeySet
<1>2. pc[c] = "run"
  <2>1. todo[c] # <<>>
    BY <1>1
  <2> QED
    BY <2>1, Zenon DEF SetInv, Runs
<1>3. PICK j \in heldKeys[c] : Left(j, todo[c])
  BY <1>2, Zenon DEF SetInv, Runs
<1>4. /\ ~Write(DelTTL(j), k) /\ \A y : Write(Set(j, y), k) => j = k
      /\ Write(Delete(j), k) => j = k
  BY Zenon DEF Set, Delete, DelTTL, Write
<1>5. CASE todo[c] = <<DelTTL(j)>>
  BY <1>1, <1>4, <1>5
<1>6. CASE todo[c] = <<Set(j, Str), DelTTL(j)>>
  <2>1. j = k
    BY <1>1, <1>4, <1>6
  <2> QED
    BY <1>6, <2>1, Zenon DEF Writes
<1>7. CASE todo[c] = <<Delete(j), DelTTL(j)>>
  <2>1. j = k
    BY <1>1, <1>4, <1>7
  <2> QED
    BY <1>7, <2>1, Zenon DEF Writes
<1>8. ASSUME NEW y, todo[c] = <<Set(j, y)>>
      PROVE  \E v : Writes(c, k, v)
  <2>1. j = k
    BY <1>1, <1>4, <1>8
  <2> QED
    BY <1>8, <2>1, Zenon DEF Writes
<1> QED
  BY <1>3, <1>5, <1>6, <1>7, <1>8, Zenon DEF Left

\* What Settled says of a key, with the names above.
LEMMA SettledAt ==
  ASSUME NEW k \in Key
  PROVE  LET W == {c \in Proc : \E a \in KeySet(todo[c]) : Write(a, k)}
         IN  Settled[k] = IF W = {} THEN db[k]
                          ELSE (CHOOSE a \in KeySet(todo[CHOOSE c \in W : TRUE]) : Write(a, k)).v
  BY Zenon DEF Settled, Write

IsFunction == Settled = [k \in Key |-> Settled[k]]

LEMMA SettledMap == IsFunction
<1> DEFINE S(k) ==
      LET writers == {c \in Proc : \E a \in KeySet(todo[c]) : a.k = k /\ a.do # "delttl"}
          access(c) == CHOOSE a \in KeySet(todo[c]) : a.k = k /\ a.do # "delttl"
      IN  IF writers = {} THEN db[k] ELSE access(CHOOSE c \in writers : TRUE).v
<1>1. Settled = [k \in Key |-> S(k)]
  BY Zenon DEF Settled
<1> HIDE DEF S
<1> QED
  BY <1>1, Zenon DEF IsFunction

LEMMA SettledMapThen == Settled' = [k \in Key |-> Settled'[k]]
<1>1. IsFunction'
  BY SettledMap, PTL
<1> QED
  BY <1>1, Zenon DEF IsFunction

LEMMA SettledIs ==
  SetInv => SettledRight
<1> SUFFICES ASSUME SetInv, NEW k \in Key
             PROVE  /\ \A c \in Proc : \A v : Writes(c, k, v) => Settled[k] = v
                    /\ (\A c \in Proc : \A v : ~Writes(c, k, v)) => Settled[k] = db[k]
  BY Zenon DEF SettledRight
<1> DEFINE W == {c \in Proc : \E a \in KeySet(todo[c]) : Write(a, k)}
           w == CHOOSE c \in W : TRUE
           a == CHOOSE b \in KeySet(todo[w]) : Write(b, k)
<1>1. Settled[k] = IF W = {} THEN db[k] ELSE a.v
  BY SettledAt, Zenon
<1>2. ASSUME NEW c \in Proc, NEW v, Writes(c, k, v)
      PROVE  Settled[k] = v
  <2>1. c \in W
    BY <1>2, WriteFound, Zenon
  <2>2. \A d \in W : d = c
    <3> SUFFICES ASSUME NEW d \in W, d # c PROVE FALSE
      BY Zenon
    <3>1. PICK x : Writes(d, k, x)
      BY WriteKnown, Zenon
    <3>2. k \in heldKeys[c] /\ heldMode[c] = "w" /\ k \in heldKeys[d]
      BY <1>2, <3>1, WritersHold, Zenon
    <3> QED
      BY <3>2, Zenon DEF SetInv, Excl
  <2>3. w = c
    BY <2>1, <2>2, Zenon
  <2>4. a \in KeySet(todo[c]) /\ Write(a, k)
    BY <1>2, <2>3, WriteFound, Zenon
  <2>5. a.v = v
    <3> HIDE DEF a
    <3> QED
      BY <1>2, <2>4, WriteFound, Zenon
  <2> HIDE DEF W, a
  <2> QED
    BY <1>1, <2>1, <2>5, Zenon
<1>3. ASSUME \A c \in Proc : \A v : ~Writes(c, k, v)
      PROVE  Settled[k] = db[k]
  <2>1. W = {}
    BY <1>3, WriteKnown, Zenon
  <2> HIDE DEF W
  <2> QED
    BY <1>1, <2>1, Zenon
<1> QED
  BY <1>2, <1>3, Zenon

\* Nobody writes to a key whose lock could be taken, or is held for reading.
LEMMA FreeSettled ==
  ASSUME SetInv, NEW c \in Proc, todo[c] = <<>>, NEW k \in Key,
         \A d \in Proc \ {c} : k \in heldKeys[d] => heldMode[d] # "w"
  PROVE  Settled[k] = db[k]
<1>1. ASSUME NEW d \in Proc, NEW v, Writes(d, k, v)
      PROVE  FALSE
  <2>1. CASE d = c
    <3>1. \A a, b : <<a>> # <<>> /\ <<a, b>> # <<>>
      BY Zenon
    <3> QED
      BY <1>1, <2>1, <3>1, Zenon DEF Writes
  <2>2. CASE d # c
    BY <1>1, <2>2, WritersHold, Zenon
  <2> QED
    BY <2>1, <2>2, Zenon
<1> QED
  BY <1>1, SettledIs, Zenon DEF SettledRight

\* A string in the map is one in the settled map: who replaces a string has put
\* the new value at once.
LEMMA StringSettled ==
  ASSUME SetInv, NEW k \in Key, db[k] = Str
  PROVE  Settled[k] = Str
<1>1. ASSUME NEW c \in Proc, NEW v, Writes(c, k, v)
      PROVE  v = Str
  <2>1. pc[c] = "run" /\ k \in heldKeys[c]
    BY <1>1, WritersHold, Zenon DEF SetInv, Holds
  <2>2. PICK j \in heldKeys[c] : Left(j, todo[c])
    BY <2>1, Zenon DEF SetInv, Runs
  <2>3. /\ \A x, y : Set(k, x) = Set(j, y) => k = j /\ x = y
        /\ \A x : Set(k, x) # DelTTL(j) /\ Set(k, x) # Delete(j) /\ Delete(k) # Set(j, x)
        /\ Delete(k) # DelTTL(j) /\ (Delete(k) = Delete(j) => k = j)
    BY Zenon DEF Set, Delete, DelTTL
  <2>4. todo[c][1] = Set(k, v) \/ todo[c][1] = Delete(k)
    BY <1>1 DEF Writes
  <2>5. \/ todo[c][1] = DelTTL(j) \/ todo[c][1] = Set(j, Str)
        \/ todo[c][1] = Delete(j) /\ db[j] # Str
        \/ db[j] # Str /\ \E y : todo[c][1] = Set(j, y)
    BY <2>2 DEF Left
  <2> QED
    BY <2>3, <2>4, <2>5, Zenon
<1>2. CASE \E c \in Proc : \E v : Writes(c, k, v)
  BY <1>1, <1>2, SettledIs, Zenon DEF SettledRight
<1>3. CASE \A c \in Proc : \A v : ~Writes(c, k, v)
  BY <1>3, SettledIs, Zenon DEF SettledRight
<1> QED
  BY <1>2, <1>3, Zenon

-----------------------------------------------------------------------------
(* What a step of a client changes in the abstract state *)

AtomicStep == [Atomic!SetsNext]_(Atomic!setsVars)

DraftOf(c) ==
  IF pc[c] \in {"recheck", "redelete", "store", "unlocked"} THEN <<result[c]>> ELSE <<>>

AnswerOf(c) == IF pc[c] = "dead" THEN <<Panic>> ELSE reply[c]

LEMMA SeenAt ==
  ASSUME NEW c \in Proc
  PROVE  Drafts[c] = DraftOf(c) /\ Answers[c] = AnswerOf(c)
  BY Zenon DEF Drafts, Answers, DraftOf, AnswerOf

\* The drafts and the answers change where the client is.
LEMMA SeenThere ==
  ASSUME NEW c \in Proc, \A d \in Proc \ {c} : Same(d)
  PROVE  /\ Drafts' = [Drafts EXCEPT ![c] = DraftOf(c)']
         /\ Answers' = [Answers EXCEPT ![c] = AnswerOf(c)']
<1>1. \A d \in Proc \ {c} : DraftOf(d)' = DraftOf(d) /\ AnswerOf(d)' = AnswerOf(d)
  BY Zenon DEF Same, DraftOf, AnswerOf
<1>2. Drafts = [d \in Proc |-> DraftOf(d)] /\ Answers = [d \in Proc |-> AnswerOf(d)]
  BY Zenon DEF Drafts, Answers, DraftOf, AnswerOf
<1>3. Drafts' = [d \in Proc |-> DraftOf(d)'] /\ Answers' = [d \in Proc |-> AnswerOf(d)']
  BY Zenon DEF Drafts, Answers, DraftOf, AnswerOf
<1> QED
  BY <1>1, <1>2, <1>3, Zenon

LEMMA SeenSame ==
  ASSUME NEW c \in Proc, \A d \in Proc \ {c} : Same(d)
  PROVE  /\ DraftOf(c)' = DraftOf(c) => Drafts' = Drafts
         /\ AnswerOf(c)' = AnswerOf(c) => Answers' = Answers
<1>1. DOMAIN Drafts = Proc /\ Drafts = [Drafts EXCEPT ![c] = Drafts[c]]
  BY Zenon DEF Drafts
<1>2. DOMAIN Answers = Proc /\ Answers = [Answers EXCEPT ![c] = Answers[c]]
  BY Zenon DEF Answers
<1> QED
  BY <1>1, <1>2, SeenThere, SeenAt

\* The settled map changes only with the map and the accesses left.
LEMMA SettledStays ==
  ASSUME UNCHANGED <<db, todo>>
  PROVE  Settled' = Settled
  BY DEF Settled

\* A step that changes neither the map nor what the clients have drafted and
\* answered is none of AtomicSets.
LEMMA Stutters ==
  ASSUME NEW c \in Proc, \A d \in Proc \ {c} : Same(d), UNCHANGED cmd, Settled' = Settled,
         DraftOf(c)' = DraftOf(c), AnswerOf(c)' = AnswerOf(c)
  PROVE  AtomicStep
<1>1. Drafts' = Drafts /\ Answers' = Answers
  BY SeenSame, Zenon
<1> QED
  BY <1>1, Zenon DEF AtomicStep, Atomic!setsVars

LEMMA Steps ==
  ASSUME NEW c \in Proc,
         \/ \E command \in Command : Atomic!SetsCall(c, command)
         \/ Atomic!Do(c) \/ Atomic!Compute(c) \/ Atomic!Refuse(c) \/ Atomic!Put(c)
         \/ Atomic!SetsReturn(c)
  PROVE  AtomicStep
  BY Zenon DEF AtomicStep, Atomic!SetsNext

\* A command is pending until it has its reply.
LEMMA Waits ==
  ASSUME SetInv, CalmInv, NEW c \in Proc, pc[c] \notin {"idle", "run", "done", "dead"}
  PROVE  Atomic!Pending(c) /\ cmd[c] \in Command /\ AnswerOf(c) = <<>>
<1>1. cmd[c] \in Command /\ cmd[c] # NoCommand
  BY HasCommand, SetCommandAssumption, Zenon
<1>2. AnswerOf(c) = <<>>
  BY Zenon DEF CalmInv, Replied, AnswerOf
<1> QED
  BY <1>1, <1>2, SeenAt, Zenon DEF Atomic!Pending

-----------------------------------------------------------------------------
(* The steps that call, return or change nothing *)

LEMMA CallRefines ==
  ASSUME SetInv, CalmInv, NEW c \in Proc, NEW command \in Command, ExecCommand(c, command),
         \A d \in Proc \ {c} : Same(d)
  PROVE  AtomicStep
<1>1. Settled' = Settled
  BY SettledStays, Zenon DEF ExecCommand
<1>2. DraftOf(c)' = DraftOf(c)
  BY Zenon DEF ExecCommand, Goto, DraftOf, SetInv, SetTypes
<1>3. AnswerOf(c)' = AnswerOf(c)
  BY Zenon DEF ExecCommand, Goto, AnswerOf, SetInv, SetTypes
<1>4. Drafts' = Drafts /\ Answers' = Answers
  BY <1>2, <1>3, SeenSame, Zenon
<1>5. Atomic!SetsCall(c, command)
  BY <1>1, <1>4 DEF Atomic!SetsCall, ExecCommand, SetInv, At
<1> QED
  BY <1>5, Steps, Zenon

LEMMA ReturnRefines ==
  ASSUME SetInv, CalmInv, NEW c \in Proc, Return(c), \A d \in Proc \ {c} : Same(d)
  PROVE  AtomicStep
<1>1. Settled' = Settled
  BY SettledStays, Zenon DEF Return
<1>2. DraftOf(c)' = DraftOf(c)
  BY Zenon DEF Return, Goto, DraftOf, SetInv, SetTypes
<1>3. AnswerOf(c)' = <<>>
  BY Zenon DEF Return, Goto, AnswerOf, SetInv, SetTypes
<1>4. Drafts' = Drafts
  BY <1>2, SeenSame, Zenon
<1>5. Answers' = [Answers EXCEPT ![c] = <<>>]
  BY <1>3, SeenThere, Zenon
<1>6. Answers[c] # <<>>
  BY SeenAt, Zenon DEF Return, AnswerOf, CalmInv, Replied
<1>7. Atomic!SetsReturn(c)
  BY <1>1, <1>4, <1>5, <1>6, Zenon DEF Atomic!SetsReturn, Return
<1> QED
  BY <1>7, Steps, Zenon

LEMMA CheckRefines ==
  ASSUME SetInv, CalmInv, NEW c \in Proc, CheckTTL(c), \A d \in Proc \ {c} : Same(d)
  PROVE  AtomicStep
<1>1. Settled' = Settled
  BY SettledStays, Zenon DEF CheckTTL
<1>2. AfterCheck(c, TRUE) /\ UNCHANGED cmd
  BY Zenon DEF CheckTTL, CalmInv
<1>3. pc'[c] \in {"peek", "body", "check"} /\ UNCHANGED reply
  BY <1>2, Zenon DEF AfterCheck, Goto, SetInv, SetTypes
<1>4. DraftOf(c)' = DraftOf(c)
  BY <1>3, Zenon DEF CheckTTL, DraftOf
<1>5. AnswerOf(c)' = AnswerOf(c)
  BY <1>3, Zenon DEF CheckTTL, AnswerOf
<1> QED
  BY <1>1, <1>2, <1>4, <1>5, Stutters, Zenon

LEMMA StartGatherRefines ==
  ASSUME SetInv, CalmInv, NEW c \in Proc, StartGather(c), \A d \in Proc \ {c} : Same(d)
  PROVE  AtomicStep
<1>1. Settled' = Settled
  BY SettledStays, Zenon DEF StartGather
<1>2. DraftOf(c)' = DraftOf(c)
  BY Zenon DEF StartGather, Goto, DraftOf, SetInv, SetTypes
<1>3. AnswerOf(c)' = AnswerOf(c)
  BY Zenon DEF StartGather, Goto, AnswerOf, SetInv, SetTypes
<1> QED
  BY <1>1, <1>2, <1>3, Stutters DEF StartGather

LEMMA GatherRefines ==
  ASSUME SetInv, CalmInv, NEW c \in Proc, Gather(c), \A d \in Proc \ {c} : Same(d)
  PROVE  AtomicStep
<1>1. Settled' = Settled
  BY SettledStays, Zenon DEF Gather
<1>2. DraftOf(c)' = DraftOf(c) /\ AnswerOf(c)' = AnswerOf(c)
  BY Zenon DEF Gather, DraftOf, AnswerOf
<1> QED
  BY <1>1, <1>2, Stutters, Zenon DEF Gather

LEMMA RecheckRefines ==
  ASSUME SetInv, CalmInv, NEW c \in Proc, Recheck(c), \A d \in Proc \ {c} : Same(d)
  PROVE  AtomicStep
<1>1. Settled' = Settled
  BY SettledStays, Zenon DEF Recheck
<1>2. DraftOf(c)' = DraftOf(c)
  BY Zenon DEF Recheck, Goto, DraftOf, SetInv, SetTypes
<1>3. AnswerOf(c)' = AnswerOf(c)
  BY Zenon DEF Recheck, Goto, AnswerOf, SetInv, SetTypes
<1> QED
  BY <1>1, <1>2, <1>3, Stutters, Zenon DEF Recheck

-----------------------------------------------------------------------------
(* The steps that read: they take effect on the settled map *)

LEMMA PeekRefines ==
  ASSUME SetInv, CalmInv, NEW c \in Proc, Peek(c), \A d \in Proc \ {c} : Same(d)
  PROVE  AtomicStep
<1>1. Settled' = Settled /\ UNCHANGED cmd
  BY SettledStays, Zenon DEF Peek
<1>2. CASE db[cmd[c].keys[1]] = Str
  <2>1. Atomic!Pending(c) /\ cmd[c] \in Command
    BY Waits, ZenonT(60) DEF Peek
  <2>2. cmd[c].op \in StoreOps /\ cmd[c].keys[1] \in Key
    BY <2>1, CommandKeys DEF Peek, SetInv, At
  <2>3. Settled[cmd[c].keys[1]] = Str
    BY <1>2, <2>2, StringSettled, Zenon
  <2>4. DraftOf(c)' = <<>>
    BY <1>2 DEF Peek, Answer, Goto, DraftOf, SetInv, SetTypes
  <2>5. AnswerOf(c)' = <<WrongType>>
    BY <1>2, Zenon DEF Peek, Answer, Goto, AnswerOf, SetInv, SetTypes
  <2>6. /\ Drafts' = [Drafts EXCEPT ![c] = <<>>]
        /\ Answers' = [Answers EXCEPT ![c] = <<WrongType>>]
    BY <2>4, <2>5, SeenThere, ZenonT(60)
  <2>7. Atomic!Refuse(c)
    BY <1>1, <2>1, <2>2, <2>3, <2>6, SameReplies, ZenonT(60)
       DEF Atomic!Refuse, Atomic!IsStore, Atomic!Reply, StoreOps
  <2> QED
    BY <2>7, Steps, Zenon
<1>3. CASE db[cmd[c].keys[1]] # Str
  <2>1. DraftOf(c)' = DraftOf(c)
    BY <1>3, Zenon DEF Peek, Goto, DraftOf, SetInv, SetTypes
  <2>2. AnswerOf(c)' = AnswerOf(c)
    BY <1>3, Zenon DEF Peek, Goto, AnswerOf, SetInv, SetTypes
  <2> QED
    BY <1>1, <2>1, <2>2, Stutters, Zenon
<1> QED
  BY <1>2, <1>3, Zenon

\* A key held for reading is settled.
LEMMA ReadSettled ==
  ASSUME SetInv, NEW c \in Proc, pc[c] = "gather", NEW k \in KeySet(kept[c])
  PROVE  k \in Key /\ Settled[k] = db[k]
<1>1. k \in heldKeys[c] /\ heldMode[c] = "r" /\ todo[c] = <<>> /\ k \in Key
  BY DEF SetInv, SetTypes, Holds, Runs
<1>2. \A d \in Proc \ {c} : k \in heldKeys[d] => heldMode[d] # "w"
  BY <1>1, Zenon DEF SetInv, Excl
<1> QED
  BY <1>1, <1>2, FreeSettled, Zenon

\* The values read are the settled ones of the sources, in order.
LEMMA ReadsSources ==
  ASSUME SetInv, CalmInv, NEW c \in Proc, pc[c] = "gather", Len(vals[c]) = Len(kept[c])
  PROVE  /\ cmd[c].op \notin StoreOps =>
              vals[c] = [i \in DOMAIN cmd[c].keys |-> Settled[cmd[c].keys[i]]]
         /\ cmd[c].op \in StoreOps =>
              LET sources == Tail(cmd[c].keys)
              IN  vals[c] = [i \in DOMAIN sources |-> Settled[sources[i]]]
<1> DEFINE ks == cmd[c].keys
<1>1. /\ cmd[c] \in Command /\ ks \in Seq(Key) /\ Len(ks) \in Nat \ {0}
      /\ cmd[c].op \in StoreOps => Len(ks) >= 2
  BY HasCommand, CommandKeys, Zenon
<1>2. cmd[c].op \in MultiOps /\ kept[c] \in Seq(Key) /\ Len(kept[c]) \in Nat
  BY DEF SetInv, SetTypes, At
<1>3. PICK n \in 0..Len(kept[c]) : vals[c] = [i \in 1..n |-> db[kept[c][i]]]
  BY Zenon DEF CalmInv, Snapshot
<1>4. n \in Nat /\ Len(vals[c]) = n
  BY <1>2, <1>3
<1>5. vals[c] = [i \in 1..Len(kept[c]) |-> db[kept[c][i]]]
  BY <1>3, <1>4, Zenon
<1>6. \A i \in 1..Len(kept[c]) : Settled[kept[c][i]] = db[kept[c][i]]
  BY <1>2, ReadSettled DEF KeySet
<1>7. /\ Len(kept[c]) = Len(ks) - Off(c)
      /\ \A i \in 1..Len(kept[c]) : kept[c][i] = ks[i + Off(c)]
  BY <1>2, ZenonT(60) DEF CalmInv, Collected
<1>8. CASE cmd[c].op \notin StoreOps
  <2>1. Off(c) = 0
    BY <1>8, Zenon DEF Off
  <2>2. 1..Len(kept[c]) = DOMAIN ks /\ \A i \in 1..Len(kept[c]) : kept[c][i] = ks[i]
    BY <1>1, <1>7, <2>1
  <2> QED
    BY <1>5, <1>6, <1>8, <2>2
<1>9. CASE cmd[c].op \in StoreOps
  <2> DEFINE sources == Tail(ks)
  <2>1. Off(c) = 1
    BY <1>9, Zenon DEF Off
  <2>2. Len(sources) = Len(ks) - 1 /\ \A i \in 1..Len(ks) - 1 : sources[i] = ks[i + 1]
    BY <1>1, <1>9
  <2>3. DOMAIN sources = 1..Len(ks) - 1
    BY <1>1, <1>9
  <2>4. 1..Len(kept[c]) = DOMAIN sources /\ \A i \in DOMAIN sources : kept[c][i] = sources[i]
    BY <1>7, <2>1, <2>2, <2>3, Zenon
  <2> HIDE DEF sources
  <2>5. vals[c] = [i \in DOMAIN sources |-> Settled[sources[i]]]
    BY <1>5, <1>6, <2>4
  <2> QED
    BY <1>9, <2>5, Zenon DEF sources
<1> QED
  BY <1>8, <1>9, Zenon

\* What a command on several sets answers on its own is what EndGather computes.
LEMMA ReadOutcome ==
  ASSUME SetInv, CalmInv, NEW c \in Proc, pc[c] = "gather", Len(vals[c]) = Len(kept[c]),
         cmd[c].op \notin StoreOps
  PROVE  Outcomes(Settled, cmd[c]) = {Outcome(Computed(c).reply, Settled)}
<1>1. vals[c] = [i \in DOMAIN cmd[c].keys |-> Settled[cmd[c].keys[i]]]
  BY ReadsSources, Zenon
<1>2. cmd[c].op \in {"sunion", "sinter", "sdiff"}
  BY Zenon DEF SetInv, At, MultiOps
<1>3. Outcomes(Settled, cmd[c]) = ReadSeveral(Settled, vals[c], cmd[c])
  BY <1>1, <1>2, Zenon DEF Outcomes
<1>4. CASE cmd[c].op = "sunion"
  BY <1>3, <1>4, Zenon DEF ReadSeveral, Computed
<1>5. CASE cmd[c].op = "sinter"
  BY <1>3, <1>5, Zenon DEF ReadSeveral, Computed
<1>6. CASE cmd[c].op = "sdiff"
  BY <1>3, <1>6, Zenon DEF ReadSeveral, Computed
<1> QED
  BY <1>2, <1>4, <1>5, <1>6, Zenon

\* The ways EndGather ends.
LEMMA EndGatherEnds ==
  ASSUME SetInv, NEW c \in Proc, EndGather(c)
  PROVE  LET r == Computed(c) IN
         /\ UNCHANGED <<db, todo, cmd>> /\ result'[c] = r.set
         /\ \/ r.reply = Panic /\ pc'[c] = "dead"
            \/ /\ \/ r.reply = WrongType \/ cmd[c].op \notin StoreOps
                  \/ cmd[c].op = "sunionstore" /\ SetsOf(vals[c]) = <<>>
               /\ r.reply # Panic /\ pc'[c] = "done" /\ reply'[c] = <<r.reply>>
            \/ /\ r.reply \notin {Panic, WrongType} /\ cmd[c].op \in StoreOps
               /\ pc'[c] = "recheck" /\ reply'[c] = reply[c]
<1> DEFINE r == Computed(c)
<1>1. UNCHANGED <<db, todo, cmd>>
  BY Zenon DEF EndGather
<1>2. result'[c] = r.set
  <2> HIDE DEF r
  <2>1. result' = [result EXCEPT ![c] = r.set]
    BY Zenon DEF EndGather, r
  <2> QED
    BY <2>1, Zenon DEF SetInv, SetTypes
<1>3. \/ r.reply = Panic /\ pc'[c] = "dead"
      \/ /\ \/ r.reply = WrongType \/ cmd[c].op \notin StoreOps
            \/ cmd[c].op = "sunionstore" /\ SetsOf(vals[c]) = <<>>
         /\ r.reply # Panic /\ pc'[c] = "done" /\ reply'[c] = <<r.reply>>
      \/ /\ r.reply \notin {Panic, WrongType} /\ cmd[c].op \in StoreOps
         /\ pc'[c] = "recheck" /\ reply'[c] = reply[c]
  <2>1. DOMAIN pc = Proc /\ DOMAIN reply = Proc
    BY Zenon DEF SetInv, SetTypes
  <2> HIDE DEF r
  <2>2. \/ r.reply = Panic /\ Goto(c, "dead")
        \/ /\ \/ r.reply = WrongType \/ cmd[c].op \notin StoreOps
              \/ cmd[c].op = "sunionstore" /\ SetsOf(vals[c]) = <<>>
           /\ r.reply # Panic /\ Answer(c, r.reply)
        \/ /\ r.reply \notin {Panic, WrongType} /\ cmd[c].op \in StoreOps
           /\ Goto(c, "recheck") /\ UNCHANGED reply
    BY Zenon DEF EndGather, r
  <2> QED
    BY <2>1, <2>2, Zenon DEF Goto, Answer
<1> QED
  BY <1>1, <1>2, <1>3, Zenon

\* SUNION of no set.
LEMMA UnionOfNone ==
  ASSUME NEW vs, SUnion(vs).reply # WrongType, SetsOf(vs) = <<>>
  PROVE  SUnion(vs).reply = Members({})
<1>1. SUnion(vs) = ResultSet(Union(<<>>))
  BY Zenon DEF SUnion, Result
<1>2. Union(<<>>) = {}
  BY DEF Union
<1> QED
  BY <1>1, <1>2 DEF ResultSet

LEMMA EndGatherRefines ==
  ASSUME SetInv, CalmInv, NEW c \in Proc, EndGather(c), \A d \in Proc \ {c} : Same(d)
  PROVE  AtomicStep
<1> DEFINE r == Computed(c)
<1>1. pc[c] = "gather" /\ Len(vals[c]) = Len(kept[c])
  BY Zenon DEF EndGather
<1>2. Settled' = Settled /\ UNCHANGED cmd
  BY SettledStays, Zenon DEF EndGather
<1>3. Atomic!Pending(c) /\ AnswerOf(c) = <<>>
  BY <1>1, Waits, Zenon
<1>4. DraftOf(c) = <<>>
  BY <1>1, Zenon DEF DraftOf
<1>5. /\ \/ r.reply = Panic /\ pc'[c] = "dead"
         \/ /\ \/ r.reply = WrongType \/ cmd[c].op \notin StoreOps
               \/ cmd[c].op = "sunionstore" /\ SetsOf(vals[c]) = <<>>
            /\ r.reply # Panic /\ pc'[c] = "done" /\ reply'[c] = <<r.reply>>
         \/ /\ r.reply \notin {Panic, WrongType} /\ cmd[c].op \in StoreOps
            /\ pc'[c] = "recheck" /\ reply'[c] = reply[c]
      /\ result'[c] = r.set
  BY EndGatherEnds, Zenon
<1> HIDE DEF r
<1>6. ASSUME \/ pc'[c] = "dead" /\ r.reply = Panic
             \/ pc'[c] = "done" /\ reply'[c] = <<r.reply>>
      PROVE  Drafts' = Drafts /\ Answers' = [Answers EXCEPT ![c] = <<r.reply>>]
  <2>1. DraftOf(c)' = <<>>
    BY <1>6, Zenon DEF DraftOf
  <2>2. AnswerOf(c)' = <<r.reply>>
    BY <1>6, Zenon DEF AnswerOf
  <2> QED
    BY <1>4, <2>1, <2>2, SeenSame, SeenThere, Zenon
<1>7. CASE cmd[c].op \notin StoreOps
  <2>1. Drafts' = Drafts /\ Answers' = [Answers EXCEPT ![c] = <<r.reply>>]
    BY <1>5, <1>6, <1>7, ZenonT(60)
  <2>2. Atomic!Outcomes(Settled, cmd[c]) = {Outcome(r.reply, Settled)}
    BY <1>1, <1>7, ReadOutcome, SameOutcomes, ZenonT(60) DEF r
  <2>3. Outcome(r.reply, Settled).map = Settled /\ Outcome(r.reply, Settled).reply = r.reply
    BY Zenon DEF Outcome
  <2>4. Atomic!Do(c)
    BY <1>2, <1>3, <1>7, <2>1, <2>2, <2>3, ZenonT(60) DEF Atomic!Do, Atomic!IsStore, Atomic!Reply, StoreOps
  <2> QED
    BY <2>4, Steps, ZenonT(60)
<1>8. CASE cmd[c].op \in StoreOps
  <2> DEFINE sources == Tail(cmd[c].keys)
             vs == [i \in DOMAIN sources |-> Settled[sources[i]]]
             ar == CASE cmd[c].op = "sunionstore" -> Atomic!SUnion(vs)
                     [] cmd[c].op = "sinterstore" -> Atomic!SInter(vs)
                     [] cmd[c].op = "sdiffstore"  -> Atomic!SDiff(vs)
  <2>1. vals[c] = vs
    BY <1>1, <1>8, ReadsSources, ZenonT(60)
  <2>2. Atomic!Pending(c) /\ Atomic!IsStore(cmd[c]) /\ Drafts[c] = <<>>
    BY <1>3, <1>4, <1>8, SeenAt, Zenon DEF Atomic!IsStore, StoreOps
  <2>3. ASSUME \/ ar.reply \in {WrongType, Panic} /\ Answers' = [Answers EXCEPT ![c] = <<ar.reply>>] /\ Drafts' = Drafts
               \/ /\ ar.reply \notin {WrongType, Panic}
                  /\ Drafts' = [Drafts EXCEPT ![c] = <<ar.set>>] /\ Answers' = Answers
               \/ /\ cmd[c].op = "sunionstore" /\ SetsOf(vs) = <<>>
                  /\ Answers' = [Answers EXCEPT ![c] = <<Members({})>>] /\ Drafts' = Drafts
        PROVE  Atomic!Compute(c)
    <3> HIDE DEF vs
    <3>1. Atomic!SetsOf(vs) = SetsOf(vs)
      BY SameResults, Zenon
    <3> HIDE DEF ar
    <3>2. \/ ar.reply \in {Atomic!WrongType, Atomic!Panic} /\ Atomic!Reply(c, ar.reply) /\ UNCHANGED Drafts
          \/ /\ ar.reply \notin {Atomic!WrongType, Atomic!Panic}
             /\ Drafts' = [Drafts EXCEPT ![c] = <<ar.set>>] /\ UNCHANGED Answers
          \/ /\ cmd[c].op = "sunionstore" /\ Atomic!SetsOf(vs) = <<>>
             /\ Atomic!Reply(c, Atomic!Members({})) /\ UNCHANGED Drafts
      BY <2>3, <3>1, SameReplies, ZenonT(60) DEF Atomic!Reply
    <3> QED
      BY <1>2, <2>2, <3>2, ZenonT(60) DEF Atomic!Compute, ar, vs
  <2> HIDE DEF vs
  <2>4. ar = r
    <3>1. Atomic!SUnion(vs) = SUnion(vs) /\ Atomic!SInter(vs) = SInter(vs) /\ Atomic!SDiff(vs) = SDiff(vs)
      BY SameResults, Zenon
    <3>2. CASE cmd[c].op = "sunionstore"
      BY <2>1, <3>1, <3>2, Zenon DEF r, Computed
    <3>3. CASE cmd[c].op = "sinterstore"
      BY <2>1, <3>1, <3>3 DEF r, Computed
    <3>4. CASE cmd[c].op = "sdiffstore"
      BY <2>1, <3>1, <3>4, ZenonT(60) DEF r, Computed
    <3> QED
      BY <1>8, <3>2, <3>3, <3>4, Zenon DEF StoreOps
  <2> HIDE DEF ar
  <2>5. CASE \/ r.reply = Panic /\ pc'[c] = "dead"
             \/ r.reply = WrongType /\ pc'[c] = "done" /\ reply'[c] = <<r.reply>>
    <3>1. Drafts' = Drafts /\ Answers' = [Answers EXCEPT ![c] = <<r.reply>>]
      BY <1>6, <2>5, ZenonT(60)
    <3> QED
      BY <2>3, <2>4, <2>5, <3>1, Steps, ZenonT(60)
  <2>6. CASE /\ cmd[c].op = "sunionstore" /\ SetsOf(vals[c]) = <<>> /\ r.reply # WrongType
             /\ pc'[c] = "done" /\ reply'[c] = <<r.reply>>
    <3>1. r.reply = Members({})
      BY <2>6, UnionOfNone, Zenon DEF r, Computed
    <3>2. Drafts' = Drafts /\ Answers' = [Answers EXCEPT ![c] = <<r.reply>>]
      BY <1>6, <2>6, ZenonT(60)
    <3> QED
      BY <2>1, <2>3, <2>6, <3>1, <3>2, Steps, ZenonT(60)
  <2>7. CASE r.reply \notin {Panic, WrongType} /\ pc'[c] = "recheck" /\ reply'[c] = reply[c]
    <3>1. DraftOf(c)' = <<r.set>>
      BY <1>5, <2>7 DEF DraftOf
    <3>2. AnswerOf(c)' = AnswerOf(c)
      BY <1>1, <2>7, ZenonT(60) DEF AnswerOf
    <3>3. Drafts' = [Drafts EXCEPT ![c] = <<r.set>>] /\ Answers' = Answers
      BY <3>1, <3>2, SeenSame, SeenThere, Zenon
    <3> QED
      BY <2>3, <2>4, <2>7, <3>3, Steps, ZenonT(60)
  <2> QED
    BY <1>5, <1>8, <2>5, <2>6, <2>7, Zenon
<1> QED
  BY <1>7, <1>8, Zenon

-----------------------------------------------------------------------------
(* The steps that write *)

\* Lists of accesses without a write.
LEMMA NoWriteLeft ==
  ASSUME NEW s, NEW k, NEW v, s = <<>> \/ \E j : s = <<DelTTL(j)>>
  PROVE  s # <<Set(k, v)>> /\ s # <<Set(k, v), DelTTL(k)>> /\ s # <<Delete(k), DelTTL(k)>>
<1>1. \A j : Set(k, v) # DelTTL(j)
  BY Zenon DEF Set, DelTTL
<1>2. \A a, b, d : <<a>> # <<>> /\ <<a, b>> # <<>> /\ <<a, b>> # <<d>> /\ (<<a>> = <<d>> => a = d)
  BY Zenon
<1> QED
  BY <1>1, <1>2, Zenon

\* One access, or two, to one key.
About(s, j) ==
  \/ s = <<DelTTL(j)>> \/ s = <<Delete(j), DelTTL(j)>>
  \/ \E y : s = <<Set(j, y)>> \/ s = <<Set(j, y), DelTTL(j)>>

LEMMA OneKeyWritten ==
  ASSUME NEW s, NEW j, NEW k, NEW v, k # j, About(s, j)
  PROVE  s # <<Set(k, v)>> /\ s # <<Set(k, v), DelTTL(k)>> /\ s # <<Delete(k), DelTTL(k)>>
<1>1. /\ \A y : Set(k, v) # Set(j, y) /\ Delete(k) # Set(j, y)
      /\ Set(k, v) # DelTTL(j) /\ Set(k, v) # Delete(j) /\ Delete(k) # Delete(j) /\ Delete(k) # DelTTL(j)
  BY Zenon DEF Set, Delete, DelTTL
<1>2. s[1] = DelTTL(j) \/ s[1] = Delete(j) \/ \E y : s[1] = Set(j, y)
  BY DEF About
<1>3. s[1] # Set(k, v) /\ s[1] # Delete(k)
  BY <1>1, <1>2, Zenon
<1> QED
  BY <1>3

\* How the settled map changes when c takes a step.
LEMMA SettledNow ==
  ASSUME SettledRight, SettledRight', NEW c \in Proc, \A d \in Proc \ {c} : Same(d), NEW k \in Key
  PROVE  /\ \A v : Writes(c, k, v)' => Settled'[k] = v
         /\ /\ db'[k] = db[k] /\ \A v : ~Writes(c, k, v) /\ ~Writes(c, k, v)'
            => Settled'[k] = Settled[k]
         /\ (\A d \in Proc : \A v : ~Writes(d, k, v)') => Settled'[k] = db'[k]
<1>1. \A d \in Proc \ {c} : \A v : Writes(d, k, v)' <=> Writes(d, k, v)
  BY Zenon DEF Same, Writes
<1>2. /\ \A d \in Proc : \A v : Writes(d, k, v)' => Settled'[k] = v
      /\ (\A d \in Proc : \A v : ~Writes(d, k, v)') => Settled'[k] = db'[k]
  BY Zenon DEF SettledRight
<1>3. ASSUME db'[k] = db[k], \A v : ~Writes(c, k, v) /\ ~Writes(c, k, v)'
      PROVE  Settled'[k] = Settled[k]
  <2>1. CASE \E d \in Proc : \E v : Writes(d, k, v)
    <3>1. PICK d \in Proc : \E v : Writes(d, k, v)
      BY <2>1, Zenon
    <3>2. PICK v : Writes(d, k, v)
      BY <3>1, Zenon
    <3>3. d # c
      BY <1>3, <3>2, Zenon
    <3>4. Writes(d, k, v)'
      BY <1>1, <3>2, <3>3
    <3>5. Settled[k] = v
      BY <3>2, Zenon DEF SettledRight
    <3> QED
      BY <1>2, <3>4, <3>5, Zenon
  <2>2. CASE \A d \in Proc : \A v : ~Writes(d, k, v)
    <3>1. \A d \in Proc : \A v : ~Writes(d, k, v)'
      BY <1>1, <1>3, <2>2, Zenon
    <3>2. Settled[k] = db[k]
      BY <2>2, Zenon DEF SettledRight
    <3> QED
      BY <1>2, <1>3, <3>1, <3>2, Zenon
  <2> QED
    BY <2>1, <2>2, ZenonT(60)
<1> QED
  BY <1>2, <1>3, Zenon

\* A key that nobody else holds for writing.
LEMMA SettledAlone ==
  ASSUME SetInv, SettledRight, SettledRight', NEW c \in Proc, \A d \in Proc \ {c} : Same(d),
         NEW k \in Key, \A d \in Proc \ {c} : k \in heldKeys[d] => heldMode[d] # "w",
         \A v : ~Writes(c, k, v)'
  PROVE  Settled'[k] = db'[k]
<1>1. ASSUME NEW d \in Proc, NEW v, Writes(d, k, v)'
      PROVE  FALSE
  <2>1. d # c
    BY <1>1
  <2>2. Writes(d, k, v)
    BY <1>1, <2>1, Zenon DEF Same, Writes
  <2> QED
    BY <2>1, <2>2, WritersHold
<1> QED
  BY <1>1, SettledNow, Zenon

LEMMA RunSettled ==
  ASSUME SetInv, SettledRight, SettledRight', NEW c \in Proc, RunAccess(c),
         \A d \in Proc \ {c} : Same(d)
  PROVE  Settled' = Settled
<1>1. PICK j \in heldKeys[c] : NextAccess(c, j)
  BY RunIsNextAccess, Zenon
<1>2. j \in Key /\ heldMode[c] = "w"
  BY RunIsNextAccess, Zenon DEF SetInv, SetTypes
<1>3. DOMAIN todo = Proc /\ DOMAIN db = Key
  BY Zenon DEF SetInv, SetTypes
<1>4. todo'[c] = <<>> \/ todo'[c] = <<DelTTL(j)>>
  BY <1>1, <1>3, Zenon DEF NextAccess
<1>5. \A k, v : ~Writes(c, k, v)'
  BY <1>4, NoWriteLeft, Zenon DEF Writes
<1>6. About(todo[c], j)
  BY <1>1, Zenon DEF NextAccess, About
<1>7. \A k \in Key \ {j} : db'[k] = db[k]
  BY <1>1, <1>3, Zenon DEF NextAccess
<1>8. ASSUME NEW k \in Key, k # j
      PROVE  Settled'[k] = Settled[k]
  <2>1. ASSUME NEW v, Writes(c, k, v) PROVE FALSE
    <3>1. /\ todo[c] # <<Set(k, v)>> /\ todo[c] # <<Set(k, v), DelTTL(k)>>
          /\ todo[c] # <<Delete(k), DelTTL(k)>>
      BY <1>6, <1>8, OneKeyWritten, ZenonT(60)
    <3> QED
      BY <2>1, <3>1, Zenon DEF Writes
  <2> QED
    BY <1>5, <1>7, <1>8, <2>1, SettledNow, Zenon
<1>9. Settled'[j] = Settled[j]
  <2>1. Settled'[j] = db'[j]
    <3>1. \A d \in Proc \ {c} : j \notin heldKeys[d]
      BY <1>2 DEF SetInv, Excl
    <3> QED
      BY <1>2, <1>5, <3>1, SettledAlone, Zenon
  <2>2. CASE todo[c] = <<DelTTL(j)>> /\ db' = db
    <3>1. \A v : ~Writes(c, j, v)
      BY <2>2, NoWriteLeft, Zenon DEF Writes
    <3> QED
      BY <1>2, <1>5, <2>2, <3>1, SettledNow, Zenon
  <2>3. ASSUME NEW v, Writes(c, j, v), db' = [db EXCEPT ![j] = v]
        PROVE  Settled'[j] = Settled[j]
    <3>1. db'[j] = v
      BY <1>2, <1>3, <2>3
    <3>2. Settled[j] = v
      BY <1>2, <2>3, Zenon DEF SettledRight
    <3> QED
      BY <2>1, <3>1, <3>2
  <2>4. \/ todo[c] = <<DelTTL(j)>> /\ db' = db
        \/ \E v : Writes(c, j, v) /\ db' = [db EXCEPT ![j] = v]
    BY <1>1, Zenon DEF NextAccess, Writes
  <2> QED
    BY <2>2, <2>3, <2>4, Zenon
<1> QED
  <2>1. \A k \in Key : Settled'[k] = Settled[k]
    BY <1>8, <1>9
  <2>2. Settled = [k \in Key |-> Settled[k]] /\ Settled' = [k \in Key |-> Settled'[k]]
    BY SettledMap, SettledMapThen, Zenon DEF IsFunction
  <2> QED
    BY <2>1, <2>2

LEMMA RunRefines ==
  ASSUME SetInv, SettledRight, SettledRight', NEW c \in Proc, RunAccess(c),
         \A d \in Proc \ {c} : Same(d)
  PROVE  AtomicStep
<1>1. Settled' = Settled
  BY RunSettled
<1>2. pc[c] = "run" /\ pc'[c] \in {"run", "done"} /\ UNCHANGED <<cmd, reply>>
  BY Zenon DEF RunAccess, Goto, SetInv, SetTypes
<1>3. DraftOf(c)' = DraftOf(c)
  BY <1>2, Zenon DEF DraftOf
<1>4. AnswerOf(c)' = AnswerOf(c)
  BY <1>2, Zenon DEF AnswerOf
<1> QED
  BY <1>1, <1>2, <1>3, <1>4, Stutters, Zenon

LEMMA SameSize ==
  ASSUME NEW S
  PROVE  Atomic!Number(Atomic!Cardinality(S)) = Number(Cardinality(S))
  BY Zenon DEF Atomic!Number, Number, Atomic!Cardinality, Cardinality

LEMMA StoreRefines ==
  ASSUME SetInv, CalmInv, SettledRight, SettledRight', NEW c \in Proc, Store(c),
         \A d \in Proc \ {c} : Same(d)
  PROVE  AtomicStep
<1> DEFINE dest == cmd[c].keys[1]
           S == result[c]
<1>1. pc[c] = "store" /\ UNCHANGED <<db, cmd>>
  BY Zenon DEF Store
<1>2. Atomic!Pending(c)
  BY <1>1, Waits, Zenon
<1>3. Atomic!IsStore(cmd[c])
  BY <1>1 DEF SetInv, At, StoreOps, Atomic!IsStore
<1>4. dest = Dest(c) /\ dest \in Key
  BY <1>1, DestKey DEF Dest
<1>5. \A d \in Proc \ {c} : dest \notin heldKeys[d]
  BY <1>4, Zenon DEF Store, CanAcquire
<1>6. todo[c] = <<>>
  BY <1>1, Zenon DEF SetInv, Runs
<1>7. Settled[dest] = db[dest]
  BY <1>4, <1>5, <1>6, FreeSettled, Zenon
<1>8. DraftOf(c) = <<S>>
  BY <1>1, Zenon DEF DraftOf
<1>9. Drafts[c] = <<S>> /\ Drafts[c] # <<>> /\ Drafts[c][1] = S
  BY <1>8, SeenAt
<1>10. DOMAIN pc = Proc /\ DOMAIN reply = Proc /\ DOMAIN todo = Proc
  BY Zenon DEF SetInv, SetTypes
<1>11. pc'[c] \in {"done", "run"}
  BY <1>10, Zenon DEF Store, StoreChecked, Answer, Goto
<1>12. Drafts' = [Drafts EXCEPT ![c] = <<>>]
  <2>1. DraftOf(c)' = <<>>
    BY <1>11, Zenon DEF DraftOf
  <2> QED
    BY <2>1, SeenThere, Zenon
<1>13. AnswerOf(c)' = reply'[c]
  BY <1>11, Zenon DEF AnswerOf
<1>14. CASE db[dest] = Str
  <2>1. reply'[c] = <<WrongType>> /\ UNCHANGED todo
    BY <1>4, <1>10, <1>14, ZenonT(60) DEF Store, StoreChecked, Answer
  <2>2. Settled' = Settled
    BY <1>1, <2>1, SettledStays, Zenon
  <2>3. Answers' = [Answers EXCEPT ![c] = <<WrongType>>]
    BY <1>13, <2>1, SeenThere, ZenonT(60)
  <2>4. Atomic!Refuse(c)
    BY <1>1, <1>2, <1>3, <1>7, <1>12, <1>14, <2>2, <2>3, SameReplies, ZenonT(60) DEF Atomic!Refuse, Atomic!Reply
  <2> QED
    BY <2>4, Steps, Zenon
<1>15. CASE db[dest] # Str
  <2>1. reply'[c] = <<Number(Cardinality(S))>>
    BY <1>4, <1>10, <1>15, Zenon DEF Store, StoreChecked, Answer
  <2>2. Answers' = [Answers EXCEPT ![c] = <<Number(Cardinality(S))>>]
    BY <1>13, <2>1, SeenThere, ZenonT(60)
  <2>3. Settled' = IF S = {} THEN Settled ELSE [Settled EXCEPT ![dest] = SetVal(S)]
    <3>1. CASE S = {}
      <4>1. UNCHANGED todo
        BY <1>4, <1>15, <3>1, Zenon DEF Store, StoreChecked
      <4> QED
        BY <1>1, <3>1, <4>1, SettledStays, ZenonT(60)
    <3>2. CASE S # {}
      <4>1. todo'[c] = <<Set(dest, SetVal(S))>>
        BY <1>4, <1>10, <1>15, <3>2, Zenon DEF Store, StoreChecked
      <4>2. Settled'[dest] = SetVal(S)
        <5>1. PICK j, x : j \in Key /\ j = dest /\ x = SetVal(S)
          BY <1>4, Zenon
        <5>2. Writes(c, j, x)'
          BY <4>1, <5>1, ZenonT(60) DEF Writes
        <5>3. Settled'[j] = x
          BY <5>1, <5>2, SettledNow
        <5> QED
          BY <5>1, <5>3, Zenon
      <4>3. ASSUME NEW k \in Key, k # dest
            PROVE  Settled'[k] = Settled[k]
        <5>1. ASSUME NEW v, Writes(c, k, v) \/ Writes(c, k, v)' PROVE FALSE
          <6>1. /\ todo[c] # <<Set(k, v)>> /\ todo[c] # <<Set(k, v), DelTTL(k)>>
                /\ todo[c] # <<Delete(k), DelTTL(k)>>
            BY <1>6, NoWriteLeft, Zenon
          <6>2. /\ todo'[c] # <<Set(k, v)>> /\ todo'[c] # <<Set(k, v), DelTTL(k)>>
                /\ todo'[c] # <<Delete(k), DelTTL(k)>>
            <7>1. PICK j, y, s : j = dest /\ y = SetVal(S) /\ s = todo'[c]
              BY ZenonT(60)
            <7>2. s = <<Set(j, y)>> /\ k # j
              BY <4>1, <4>3, <7>1
            <7>3. s # <<Set(k, v)>> /\ s # <<Set(k, v), DelTTL(k)>> /\ s # <<Delete(k), DelTTL(k)>>
              <8>1. About(s, j)
                BY <7>2, Zenon DEF About
              <8> QED
                BY <7>2, <8>1, OneKeyWritten, Zenon
            <7> QED
              BY <7>1, <7>3, Zenon
          <6> QED
            BY <5>1, <6>1, <6>2, Zenon DEF Writes
        <5> QED
          BY <1>1, <5>1, SettledNow, Zenon
      <4>4. Settled = [k \in Key |-> Settled[k]] /\ Settled' = [k \in Key |-> Settled'[k]]
        BY SettledMap, SettledMapThen, Zenon DEF IsFunction
      <4> QED
        BY <1>4, <3>2, <4>2, <4>3, <4>4, Zenon
    <3> QED
      BY <3>1, <3>2, Zenon
  <2>4. Atomic!Put(c)
    <3>1. Settled[dest] # Atomic!Str
      BY <1>7, <1>15, SameReplies, Zenon
    <3>2. Settled' = IF S = {} THEN Settled ELSE [Settled EXCEPT ![dest] = Atomic!SetVal(S)]
      BY <2>3, SameReplies, Zenon
    <3>3. Atomic!Reply(c, Atomic!Number(Atomic!Cardinality(S)))
      BY <2>2, SameSize, Zenon DEF Atomic!Reply
    <3>4. UNCHANGED cmd
      BY <1>1, Zenon
    <3> HIDE DEF S
    <3> QED
      BY <1>2, <1>3, <1>9, <1>12, <3>1, <3>2, <3>3, <3>4, ZenonT(60) DEF Atomic!Put
  <2> QED
    BY <2>4, Steps, Zenon
<1> QED
  BY <1>14, <1>15

-----------------------------------------------------------------------------
(* Handlers on one key look at the keys of their command only *)

IsMap(n) == n = [k \in Key |-> n[k]]

PutAt(m, k, v) == [m EXCEPT ![k] = v]

\* n with the values of f at the keys ks.
Patched(n, ks, f) == [k \in Key |-> IF k \in ks THEN f[k] ELSE n[k]]

LEMMA PatchSame ==
  ASSUME NEW ks, NEW m, NEW n, IsMap(n), \A k \in Key \cap ks : n[k] = m[k]
  PROVE  Patched(n, ks, m) = n
  BY Zenon DEF Patched, IsMap

LEMMA PatchPut ==
  ASSUME NEW ks, NEW m, DOMAIN m = Key, NEW n, IsMap(n),
         \A k \in Key \cap ks : n[k] = m[k], NEW j \in Key \cap ks, NEW v
  PROVE  Patched(n, ks, PutAt(m, j, v)) = PutAt(n, j, v)
  BY Zenon DEF Patched, IsMap, PutAt

\* An outcome on the map m, carried over to n.
Carried(o, n, ks) == Outcome(o.reply, Patched(n, ks, o.map))

LEMMA CarriedOver ==
  ASSUME NEW r, NEW f, NEW n, NEW ks, NEW g, Patched(n, ks, f) = g
  PROVE  Carried(Outcome(r, f), n, ks) = Outcome(r, g)
  BY Zenon DEF Carried, Outcome

LEMMA OnSetCarried ==
  ASSUME NEW ks, NEW m, NEW n, NEW k, n[k] = m[k], Patched(n, ks, m) = n, NEW absent, NEW R, NEW Q,
         \A r \in R : Carried(r, n, ks) \in Q,
         NEW o \in OnSet(m, k, absent, R)
  PROVE  Carried(o, n, ks) \in OnSet(n, k, absent, Q)
  BY CarriedOver DEF OnSet

\* A handler gives the same replies, and makes the same of its keys, on two
\* maps that agree on them.
LEMMA OutcomesCarried ==
  ASSUME NEW command \in Command, command.op \notin MultiOps,
         NEW m, DOMAIN m = Key, NEW n, IsMap(n),
         NEW ks, ks = KeySet(command.keys), \A k \in ks : n[k] = m[k],
         NEW o \in Outcomes(m, command)
  PROVE  Carried(o, n, ks) \in Outcomes(n, command)
<1> DEFINE op == command.op
           x == CHOOSE y \in command.args : TRUE
<1>1. PICK k : k = command.keys[1]
  BY Zenon
<1>2. k \in Key /\ k \in ks /\ n[k] = m[k]
  <2>1. command.keys \in Seq(Key) /\ Len(command.keys) \in Nat \ {0} /\ command.keys[1] \in Key
    BY CommandKeys, Zenon
  <2>2. k \in ks
    BY <1>1, <2>1 DEF KeySet
  <2> QED
    BY <1>1, <2>1, <2>2, Zenon
<1>3. Patched(n, ks, m) = n
  BY PatchSame
<1>4. ASSUME NEW v
      PROVE  Patched(n, ks, PutAt(m, k, v)) = PutAt(n, k, v)
  BY <1>2, PatchPut
<1>5. \A r : Carried(Outcome(r, m), n, ks) = Outcome(r, n)
  BY <1>3, Zenon DEF Carried, Outcome
<1>6. ASSUME NEW r, NEW v
      PROVE  Carried(Outcome(r, PutAt(m, k, v)), n, ks) = Outcome(r, PutAt(n, k, v))
  BY <1>4, Zenon DEF Carried, Outcome
<1>7. CASE op = "set"
  <2>1. \A f : Outcomes(f, command) = IF IsSet(f[k]) THEN {Outcome(WrongType, f)}
                                      ELSE {Outcome(Ok, PutAt(f, k, Str))}
    BY <1>1, <1>7, Zenon DEF Outcomes, PutAt
  <2> QED
    BY <1>2, <1>5, <1>6, <2>1, Zenon
<1>8. CASE op = "del"
  <2>1. PICK r : r = Number(IF m[k] = None THEN 0 ELSE 1)
    BY Zenon
  <2>2. \A f : f[k] = m[k] => Outcomes(f, command) = {Outcome(r, PutAt(f, k, None))}
    BY <1>1, <1>8, <2>1, ZenonT(60) DEF Outcomes, PutAt
  <2> QED
    BY <1>2, <1>6, <2>2, Zenon
<1>9. CASE op = "sadd"
  <2>1. \A f : Outcomes(f, command) = SAdd(f, k, command.args)
    BY <1>1, <1>9 DEF Outcomes
  <2>2. PICK S, a : S = m[k].m /\ a = command.args
    BY Zenon
  <2>3. PICK r, v : r = Number(Cardinality(a \ S)) /\ v = SetVal(S \cup a)
    BY Zenon
  <2>4. \A f : f[k] = m[k] => SAdd(f, k, command.args) =
                 IF m[k] = Str THEN {Outcome(WrongType, f)} ELSE {Outcome(r, PutAt(f, k, v))}
    BY <2>2, <2>3, Zenon DEF SAdd, PutAt
  <2>5. CASE m[k] = Str
    BY <1>2, <1>5, <2>1, <2>4, <2>5
  <2>6. CASE m[k] # Str
    <3>1. o = Outcome(r, PutAt(m, k, v)) /\ Outcome(r, PutAt(n, k, v)) \in Outcomes(n, command)
      BY <1>2, <2>1, <2>4, <2>6, ZenonT(60)
    <3> QED
      BY <1>6, <3>1, Zenon
  <2> QED
    BY <2>5, <2>6
<1>10. CASE op = "srem"
  <2>1. PICK S, a : S = m[k].m /\ a = command.args
    BY Zenon
  <2> DEFINE R(f) == {Outcome(Number(Cardinality(S \cap a)), PutAt(f, k, OrDeleted(S \ a)))}
  <2>2. \A f : f[k] = m[k] => Outcomes(f, command) = OnSet(f, k, Number(0), R(f))
    BY <1>1, <1>10, <2>1, Zenon DEF Outcomes, SRem, PutAt
  <2>3. \A r \in R(m) : Carried(r, n, ks) \in R(n)
    BY <1>6, Zenon
  <2> HIDE DEF R
  <2>4. o \in OnSet(m, k, Number(0), R(m))
    BY <2>2, Zenon
  <2>5. Carried(o, n, ks) \in OnSet(n, k, Number(0), R(n))
    BY <1>2, <1>3, <2>3, <2>4, OnSetCarried, Zenon
  <2> QED
    BY <1>2, <2>2, <2>5, Zenon
<1>11. CASE op = "spop"
  <2>1. PICK S, P : S = m[k].m /\ P = Pops(S, command.n)
    BY Zenon
  <2> DEFINE R(f) == IF command.n = 0 THEN {Outcome(Members({}), f)}
                     ELSE {Outcome(Members(p.given), PutAt(f, k, OrDeleted(S \ p.taken))) : p \in P}
  <2>2. \A f : f[k] = m[k] => Outcomes(f, command) = OnSet(f, k, Nil, R(f))
    BY <1>1, <1>11, <2>1 DEF Outcomes, SPop, PutAt
  <2>3. ASSUME NEW r \in R(m) PROVE Carried(r, n, ks) \in R(n)
    <3>1. CASE command.n = 0
      BY <1>5, <3>1, Zenon
    <3>2. CASE command.n # 0
      <4>1. PICK p \in P : r = Outcome(Members(p.given), PutAt(m, k, OrDeleted(S \ p.taken)))
        BY <3>2, Zenon
      <4>2. Carried(r, n, ks) = Outcome(Members(p.given), PutAt(n, k, OrDeleted(S \ p.taken)))
        BY <1>6, <4>1
      <4> QED
        BY <3>2, <4>2, Zenon
    <3> QED
      BY <3>1, <3>2, Zenon
  <2> HIDE DEF R
  <2>4. o \in OnSet(m, k, Nil, R(m))
    BY <2>2, Zenon
  <2>5. Carried(o, n, ks) \in OnSet(n, k, Nil, R(n))
    BY <1>2, <1>3, <2>3, <2>4, OnSetCarried, Zenon
  <2> QED
    BY <1>2, <2>2, <2>5
<1>12. CASE op = "scard"
  <2>1. PICK size : size = Number(Cardinality(m[k].m))
    BY Zenon
  <2> DEFINE R(f) == {Outcome(size, f)}
  <2>2. \A f : f[k] = m[k] => Outcomes(f, command) = OnSet(f, k, Number(0), R(f))
    BY <1>1, <1>12, <2>1 DEF Outcomes, SCard
  <2>3. \A r \in R(m) : Carried(r, n, ks) \in R(n)
    BY <1>5
  <2> HIDE DEF R
  <2>4. o \in OnSet(m, k, Number(0), R(m))
    BY <2>2, Zenon
  <2>5. Carried(o, n, ks) \in OnSet(n, k, Number(0), R(n))
    BY <1>2, <1>3, <2>3, <2>4, OnSetCarried, ZenonT(60)
  <2> QED
    BY <1>2, <2>2, <2>5, Zenon
<1>13. CASE op = "sismember"
  <2>1. PICK is : is = Number(IF x \in m[k].m THEN 1 ELSE 0)
    BY Zenon
  <2> DEFINE R(f) == {Outcome(is, f)}
  <2>2. \A f : f[k] = m[k] => Outcomes(f, command) = OnSet(f, k, Number(0), R(f))
    BY <1>1, <1>13, <2>1 DEF Outcomes, SIsMember
  <2>3. \A r \in R(m) : Carried(r, n, ks) \in R(n)
    BY <1>5, ZenonT(60)
  <2> HIDE DEF R
  <2>4. o \in OnSet(m, k, Number(0), R(m))
    BY <2>2, Zenon
  <2>5. Carried(o, n, ks) \in OnSet(n, k, Number(0), R(n))
    BY <1>2, <1>3, <2>3, <2>4, OnSetCarried, Zenon
  <2> QED
    BY <1>2, <2>2, <2>5, Zenon
<1>14. CASE op = "smembers"
  <2>1. PICK all : all = Members(m[k].m)
    BY Zenon
  <2> DEFINE R(f) == {Outcome(all, f)}
  <2>2. \A f : f[k] = m[k] => Outcomes(f, command) = OnSet(f, k, Members({}), R(f))
    BY <1>1, <1>14, <2>1, Zenon DEF Outcomes, SMembers
  <2>3. \A r \in R(m) : Carried(r, n, ks) \in R(n)
    BY <1>5, Zenon
  <2> HIDE DEF R
  <2>4. o \in OnSet(m, k, Members({}), R(m))
    BY <2>2, Zenon
  <2>5. Carried(o, n, ks) \in OnSet(n, k, Members({}), R(n))
    BY <1>2, <1>3, <2>3, <2>4, OnSetCarried, ZenonT(60)
  <2> QED
    BY <1>2, <2>2, <2>5
<1>15. CASE op = "srandmember"
  <2>1. PICK drawn : drawn = Random(m[k].m, command.n)
    BY Zenon
  <2> DEFINE R(f) == {Outcome(IF T = {} THEN Nil ELSE Members(T), f) : T \in drawn}
  <2>2. \A f : f[k] = m[k] => Outcomes(f, command) = OnSet(f, k, Nil, R(f))
    BY <1>1, <1>15, <2>1, Zenon DEF Outcomes, SRandMember
  <2>3. \A r \in R(m) : Carried(r, n, ks) \in R(n)
    BY <1>5, ZenonT(60)
  <2> HIDE DEF R
  <2>4. o \in OnSet(m, k, Nil, R(m))
    BY <2>2, Zenon
  <2>5. Carried(o, n, ks) \in OnSet(n, k, Nil, R(n))
    BY <1>2, <1>3, <2>3, <2>4, OnSetCarried, ZenonT(60)
  <2> QED
    BY <1>2, <2>2, <2>5, Zenon
<1>16. CASE op = "smove"
  <2>1. PICK des : des = command.keys[2]
    BY Zenon
  <2>2. PICK y : y = x
    BY Zenon
  <2>3. des \in Key /\ des \in ks /\ n[des] = m[des]
    <3>1. command.keys \in Seq(Key) /\ Len(command.keys) = 2 /\ command.keys[2] \in Key
      BY <1>16, CommandKeys, ZenonT(60)
    <3>2. des \in ks
      BY <2>1, <3>1 DEF KeySet
    <3> QED
      BY <2>1, <3>1, <3>2, Zenon
  <2>4. \A f : Outcomes(f, command) = SMove(f, k, des, y)
    BY <1>1, <1>16, <2>1, <2>2, ZenonT(60) DEF Outcomes
  <2>5. CASE m[k] = None
    BY <1>2, <1>5, <2>4, <2>5, Zenon DEF SMove
  <2>6. CASE m[k] # None /\ Str \in {m[k], m[des]}
    BY <1>2, <1>5, <2>3, <2>4, <2>6, ZenonT(60) DEF SMove
  <2>7. CASE m[k] # None /\ Str \notin {m[k], m[des]} /\ y \notin m[k].m
    BY <1>2, <1>5, <2>3, <2>4, <2>7, ZenonT(60) DEF SMove
  <2>8. CASE m[k] # None /\ Str \notin {m[k], m[des]} /\ y \in m[k].m
    <3> DEFINE taken(f) == [f EXCEPT ![k] = SetVal(f[k].m \ {y})]
               both(f) == [taken(f) EXCEPT ![des] = SetVal(taken(f)[des].m \cup {y})]
    <3>1. \A f : f[k] = m[k] /\ f[des] = m[des] => Outcomes(f, command) = {Outcome(Number(1), both(f))}
      BY <2>4, <2>8, Zenon DEF SMove
    <3>2. Patched(n, ks, both(m)) = both(n)
      <4>1. IsMap(taken(n)) /\ DOMAIN taken(m) = Key
        <5>1. DOMAIN n = Key
          BY Zenon DEF IsMap
        <5>2. DOMAIN taken(n) = Key /\ taken(n) = [j \in DOMAIN taken(n) |-> taken(n)[j]]
          BY <1>2, <5>1, Zenon
        <5> HIDE DEF taken
        <5>3. IsMap(taken(n))
          BY <5>2, Zenon DEF IsMap
        <5>4. DOMAIN taken(m) = Key
          BY Zenon DEF taken
        <5> QED
          BY <5>3, <5>4, Zenon
      <4>2. \A j \in Key \cap ks : taken(n)[j] = taken(m)[j]
        <5>1. DOMAIN n = Key
          BY Zenon DEF IsMap
        <5> QED
          BY <1>2, <5>1, Zenon
      <4>3. Patched(n, ks, both(m)) = Patched(taken(n), ks, both(m))
        <5>1. \A j \in Key \ ks : taken(n)[j] = n[j]
          BY <1>2
        <5> QED
          BY <5>1, Zenon DEF Patched
      <4>4. taken(n)[des] = taken(m)[des]
        BY <2>3, <4>2, Zenon
      <4>5. PICK tm, tn, v : tm = taken(m) /\ tn = taken(n) /\ v = SetVal(taken(m)[des].m \cup {y})
        BY Zenon
      <4>6. both(m) = PutAt(tm, des, v) /\ both(n) = PutAt(tn, des, v)
        BY <4>4, <4>5, Zenon DEF PutAt
      <4> HIDE DEF taken, both
      <4>7. IsMap(tn) /\ DOMAIN tm = Key /\ \A j \in Key \cap ks : tn[j] = tm[j]
        BY <4>1, <4>2, <4>5, ZenonT(60)
      <4>8. Patched(tn, ks, PutAt(tm, des, v)) = PutAt(tn, des, v)
        BY <2>3, <4>7, PatchPut
      <4> QED
        BY <4>3, <4>5, <4>6, <4>8, Zenon
    <3> HIDE DEF both
    <3>3. Carried(Outcome(Number(1), both(m)), n, ks) = Outcome(Number(1), both(n))
      BY <3>2, Zenon DEF Carried, Outcome
    <3> QED
      BY <1>2, <2>3, <3>1, <3>3, Zenon
  <2> QED
    BY <2>5, <2>6, <2>7, <2>8, ZenonT(60)
<1>17. CASE op \notin {"set", "del", "sadd", "srem", "spop", "scard", "sismember", "smembers",
                      "srandmember", "smove"}
  <2> DEFINE vs(f) == [i \in DOMAIN command.keys |-> f[command.keys[i]]]
  <2>1. vs(n) = vs(m)
    BY Zenon DEF KeySet
  <2>2. \A f : Outcomes(f, command) = ReadSeveral(f, vs(f), command)
    BY <1>17, Zenon DEF Outcomes
  <2> HIDE DEF vs
  <2>3. PICK r : \A f : ReadSeveral(f, vs(m), command) = {Outcome(r, f)}
    BY Zenon DEF ReadSeveral
  <2> QED
    BY <1>5, <2>1, <2>2, <2>3
<1> QED
  BY <1>7, <1>8, <1>9, <1>10, <1>11, <1>12, <1>13, <1>14, <1>15, <1>16, <1>17, ZenonT(60)

-----------------------------------------------------------------------------
(* The first step of these handlers *)

\* The settled map after it: the keys of the command have their new values.
LEMMA BodySettled ==
  ASSUME SetInv, SettledRight, SettledRight', NEW c \in Proc, pc[c] = "body", cmd[c].op \notin MultiOps,
         CanAcquire(c, Locked(c), LockMode(c)), NEW o \in Outcomes(db, cmd[c]),
         db' = InPlace(c, o.map), todo' = [todo EXCEPT ![c] = Later(c, o.map)],
         \A d \in Proc \ {c} : Same(d)
  PROVE  Settled' = Patched(Settled, Locked(c), o.map)
<1>1. PICK ks, m, t, left : /\ ks = Locked(c) /\ m = o.map /\ t = Target(cmd[c])
                            /\ left = Later(c, o.map)
  BY Zenon
<1>2. t \in ks /\ ks \subseteq Key
  BY <1>1, BodyTouches, Zenon
<1>3. /\ Leaves(cmd[c].op, t, db[t], m[t], left, db'[t])
      /\ \A j \in Key \ {t} : db'[j] = m[j] /\ (m[j] = db[j] \/ j \in ks)
  BY <1>1, BodyTouches, Zenon DEF Touches
<1>4. todo'[c] = left /\ todo[c] = <<>>
  BY <1>1, Zenon DEF SetInv, SetTypes, Runs
<1>5. \A d \in Proc \ {c} : \A k \in ks : k \in heldKeys[d] => heldMode[d] # "w"
  BY <1>1, Zenon DEF CanAcquire
<1>6. left = <<>> \/ About(left, t)
  BY <1>3, Zenon DEF Leaves, About
<1>7. ASSUME NEW k, k # t, NEW v, Writes(c, k, v)'
      PROVE  FALSE
  <2>1. left = <<Set(k, v)>> \/ left = <<Set(k, v), DelTTL(k)>> \/ left = <<Delete(k), DelTTL(k)>>
    BY <1>4, <1>7, Zenon DEF Writes
  <2>2. CASE left = <<>>
    BY <2>1, <2>2, NoWriteLeft, Zenon
  <2>3. CASE left # <<>>
    <3>1. About(left, t)
      BY <1>6, <2>3, Zenon
    <3>2. /\ left # <<Set(k, v)>> /\ left # <<Set(k, v), DelTTL(k)>>
          /\ left # <<Delete(k), DelTTL(k)>>
      BY <1>7, <3>1, OneKeyWritten, Zenon
    <3> QED
      BY <2>1, <3>2, Zenon
  <2> QED
    BY <2>2, <2>3, Zenon
<1>8. \A k, v : ~Writes(c, k, v)
  BY <1>4, NoWriteLeft, Zenon DEF Writes
<1>9. ASSUME NEW k \in Key \ ks
      PROVE  Settled'[k] = Settled[k]
  <2>1. k # t /\ db'[k] = db[k]
    BY <1>2, <1>3, <1>9, Zenon
  <2> QED
    BY <1>7, <1>8, <2>1, SettledNow, Zenon
<1>10. ASSUME NEW k \in ks, k # t
       PROVE  Settled'[k] = m[k]
  <2>1. k \in Key /\ db'[k] = m[k]
    BY <1>2, <1>3, <1>10, Zenon
  <2> QED
    BY <1>5, <1>7, <1>10, <2>1, SettledAlone, Zenon
<1>11. Settled'[t] = m[t]
  <2>1. ASSUME \A v : ~Writes(c, t, v)', db'[t] = m[t]
        PROVE  Settled'[t] = m[t]
    BY <1>2, <1>5, <2>1, SettledAlone, Zenon
  <2>2. CASE left = <<>> \/ left = <<DelTTL(t)>>
    <3>1. \A v : ~Writes(c, t, v)'
      BY <1>4, <2>2, NoWriteLeft, Zenon DEF Writes
    <3>2. left # <<Set(t, Str), DelTTL(t)>> /\ left # <<Delete(t), DelTTL(t)>> /\ left # <<Set(t, m[t])>>
      BY <2>2, NoWriteLeft, Zenon
    <3>3. db'[t] = m[t]
      BY <1>3, <3>2, Zenon DEF Leaves
    <3> QED
      BY <2>1, <3>1, <3>3, Zenon
  <2>3. CASE left # <<>> /\ left # <<DelTTL(t)>>
    <3>1. Writes(c, t, m[t])'
      BY <1>3, <1>4, <2>3, Zenon DEF Leaves, Writes
    <3> QED
      BY <1>2, <3>1, SettledNow, Zenon
  <2> QED
    BY <2>2, <2>3, Zenon
<1>12. Settled' = [k \in Key |-> Settled'[k]]
  BY SettledMapThen, Zenon
<1>13. \A k \in Key : Settled'[k] = IF k \in ks THEN m[k] ELSE Settled[k]
  BY <1>9, <1>10, <1>11, Zenon
<1> QED
  BY <1>1, <1>12, <1>13, Zenon DEF Patched

LEMMA BodyRefines ==
  ASSUME SetInv, CalmInv, SettledRight, SettledRight', NEW c \in Proc, Body(c),
         \A d \in Proc \ {c} : Same(d)
  PROVE  AtomicStep
<1>1. /\ pc[c] = "body" /\ cmd[c].op \notin MultiOps /\ UNCHANGED cmd
      /\ CanAcquire(c, Locked(c), LockMode(c))
  BY Zenon DEF Body
<1>2. PICK o \in Outcomes(db, cmd[c]) :
        /\ db' = InPlace(c, o.map) /\ todo' = [todo EXCEPT ![c] = Later(c, o.map)]
        /\ reply' = [reply EXCEPT ![c] = <<o.reply>>]
        /\ Goto(c, "done") \/ Goto(c, "run")
  BY Zenon DEF Body
<1>3. Settled' = Patched(Settled, Locked(c), o.map)
  BY <1>1, <1>2, BodySettled, Zenon
<1>4. Atomic!Pending(c) /\ cmd[c] \in Command
  BY <1>1, Waits, Zenon
<1>5. todo[c] = <<>> /\ DOMAIN db = Key /\ DOMAIN pc = Proc /\ DOMAIN reply = Proc
  BY <1>1, Zenon DEF SetInv, SetTypes, Runs
<1>6. \A k \in Locked(c) : Settled[k] = db[k]
  <2>1. Locked(c) \subseteq Key
    BY <1>1, BodyTouches, Zenon
  <2>2. \A d \in Proc \ {c} : \A k \in Locked(c) : k \in heldKeys[d] => heldMode[d] # "w"
    BY <1>1, Zenon DEF CanAcquire
  <2> QED
    BY <1>5, <2>1, <2>2, FreeSettled, Zenon
<1>7. Carried(o, Settled, Locked(c)) \in Outcomes(Settled, cmd[c])
  <2>1. IsMap(Settled)
    BY SettledMap, Zenon DEF IsMap, IsFunction
  <2>2. Locked(c) = KeySet(cmd[c].keys)
    BY Zenon DEF Locked
  <2> QED
    BY <1>1, <1>4, <1>5, <1>6, <2>1, <2>2, OutcomesCarried, ZenonT(60)
<1>8. PICK p : p = Carried(o, Settled, Locked(c))
  BY Zenon
<1>9. p.map = Settled' /\ p.reply = o.reply
  BY <1>3, <1>8, Zenon DEF Carried, Outcome
<1>10. pc'[c] \in {"done", "run"} /\ reply'[c] = <<o.reply>>
  BY <1>2, <1>5, Zenon DEF Goto
<1>11. DraftOf(c)' = DraftOf(c)
  BY <1>1, <1>10, Zenon DEF DraftOf
<1>12. AnswerOf(c)' = <<o.reply>>
  BY <1>10, Zenon DEF AnswerOf
<1>13. Drafts' = Drafts /\ Answers' = [Answers EXCEPT ![c] = <<o.reply>>]
  BY <1>11, <1>12, SeenSame, SeenThere
<1>14. p \in Atomic!Outcomes(Settled, cmd[c])
  BY <1>7, <1>8, SameOutcomes, Zenon
<1>15. ~Atomic!IsStore(cmd[c])
  BY <1>1, Zenon DEF Atomic!IsStore, MultiOps, StoreOps
<1>16. Settled' = p.map /\ Atomic!Reply(c, p.reply) /\ UNCHANGED <<cmd, Drafts>>
  BY <1>1, <1>9, <1>13, Zenon DEF Atomic!Reply
<1>17. Atomic!Do(c)
  BY <1>4, <1>14, <1>15, <1>16, Zenon DEF Atomic!Do
<1> QED
  BY <1>17, Steps, Zenon

-----------------------------------------------------------------------------
(* The refinement *)

\* Something is collected by the time the values are read.
LEMMA SomethingKept ==
  ASSUME SetInv, CalmInv, NEW c \in Proc
  PROVE  ~NothingKept(c)
<1> SUFFICES ASSUME NothingKept(c) PROVE FALSE
  BY Zenon
<1>1. pc[c] = "body" /\ cmd[c].op \in MultiOps /\ kept[c] = <<>>
  BY Zenon DEF NothingKept
<1>2. Len(kept[c]) = Len(cmd[c].keys) - Off(c)
  BY <1>1, Zenon DEF CalmInv, Collected
<1>3. /\ Len(cmd[c].keys) \in Nat \ {0}
      /\ cmd[c].op \in StoreOps => Len(cmd[c].keys) >= 2
  BY <1>1, HasCommand, CommandKeys, Zenon
<1>4. Len(kept[c]) = 0
  BY <1>1
<1>5. Len(cmd[c].keys) - Off(c) # 0
  BY <1>3 DEF Off
<1> QED
  BY <1>2, <1>4, <1>5, Zenon

LEMMA StepRefines ==
  ASSUME SetInv, CalmStays, SettledRight, SettledRight', SetDbNext, Calm'
  PROVE  AtomicStep
<1>1. Calm /\ CalmInv
  BY CalmBefore, Zenon DEF CalmStays
<1>2. ASSUME NEW c \in Proc, CommandStep(c)
      PROVE  AtomicStep
  <2>1. \A d \in Proc \ {c} : Same(d)
    BY <1>2, StepsAreOwn, Zenon
  <2>2. ~DeleteExpired(c) /\ ~Redelete(c) /\ ~UnionStore(c) /\ ~Overwrite(c)
    BY <1>1, Zenon DEF CalmInv, DeleteExpired, Redelete, UnionStore, Overwrite
  <2>3. ~LockUnLock(c)
    BY Zenon DEF LockUnLock, Calm
  <2>4. ~NothingKept(c)
    BY <1>1, SomethingKept, Zenon
  <2>5. CASE CheckTTL(c)
    BY <1>1, <2>1, <2>5, CheckRefines, Zenon
  <2>6. CASE Body(c)
    BY <1>1, <2>1, <2>6, BodyRefines, Zenon
  <2>7. CASE RunAccess(c)
    BY <2>1, <2>7, RunRefines, Zenon
  <2>8. CASE Peek(c)
    BY <1>1, <2>1, <2>8, PeekRefines, Zenon
  <2>9. CASE StartGather(c)
    BY <1>1, <2>1, <2>9, StartGatherRefines, Zenon
  <2>10. CASE Gather(c)
    BY <1>1, <2>1, <2>10, GatherRefines, Zenon
  <2>11. CASE EndGather(c)
    BY <1>1, <2>1, <2>11, EndGatherRefines, Zenon
  <2>12. CASE Recheck(c)
    BY <1>1, <2>1, <2>12, RecheckRefines, Zenon
  <2>13. CASE Store(c)
    BY <1>1, <2>1, <2>13, StoreRefines, Zenon
  <2>14. CASE Return(c)
    BY <1>1, <2>1, <2>14, ReturnRefines, Zenon
  <2>15. CASE \E command \in Command : ExecCommand(c, command)
    BY <1>1, <2>1, <2>15, CallRefines, Zenon
  <2> QED
    BY <1>2, <2>2, <2>3, <2>4, <2>5, <2>6, <2>7, <2>8, <2>9, <2>10, <2>11, <2>12, <2>13, <2>14, <2>15, ZenonT(60)
       DEF CommandStep, SetStep
<1>3. ASSUME NEW k \in Key, DeadlinePasses(k) \/ Collect(k) \/ CleanupDelete(k)
      PROVE  FALSE
  <2>1. CASE DeadlinePasses(k)
    <3>1. passed' = passed + 1 /\ passed \in Nat
      BY <2>1, Zenon DEF DeadlinePasses, SetInv, SetTypes
    <3> QED
      BY <3>1 DEF Calm
  <2>2. CASE Collect(k) \/ CleanupDelete(k)
    BY <1>1, <2>2, Zenon DEF CalmInv, Collect, CleanupDelete
  <2> QED
    BY <1>3, <2>1, <2>2, Zenon
<1> QED
  BY <1>2, <1>3, Zenon DEF SetDbNext, CommandStep

LEMMA AtomicStart ==
  ASSUME SetDbInit
  PROVE  Atomic!SetsInit
<1>1. SettledRight
  BY SetInit, SettledIs, Zenon
<1>2. \A c \in Proc : todo[c] = <<>>
  BY Zenon DEF SetDbInit
<1>3. \A c \in Proc : \A k, v : ~Writes(c, k, v)
  BY <1>2, NoWriteLeft, Zenon DEF Writes
<1>4. \A k \in Key : Settled[k] = None
  BY <1>1, <1>3, Zenon DEF SettledRight, SetDbInit
<1>5. Settled = [k \in Key |-> Settled[k]]
  BY SettledMap, Zenon DEF IsFunction
<1>6. Settled = [k \in Key |-> None]
  BY <1>4, <1>5, Zenon
<1>7. Drafts = [c \in Proc |-> <<>>]
  BY Zenon DEF SetDbInit, Drafts
<1>8. Answers = [c \in Proc |-> <<>>]
  BY Zenon DEF SetDbInit, Answers
<1> QED
  BY <1>6, <1>7, <1>8, SameReplies, Zenon DEF Atomic!SetsInit, SetDbInit

\* Whatever the commands, the keys and the clients, each command of set.go acts
\* on the map in one step, as if it ran alone, and a STORE in two: the sources
\* are read at one time, the destination is checked and set at another. This
\* ends when a deadline passes or SUNIONSTORE releases its lock before it
\* stores.
THEOREM SetCommandsAreAtomic == SetDbSpec => SetCommandsAtomic
<1>1. SetDbInit => Atomic!SetsInit
  BY AtomicStart, Zenon
<1>2. /\ SetInv /\ CalmStays /\ SettledRight /\ SettledRight' /\ [SetDbNext]_setVars
      => [passed' = 0 /\ ~loose' => [Atomic!SetsNext]_(Atomic!setsVars)]_setVars
  BY StepRefines, Zenon DEF Calm, AtomicStep
<1> QED
  BY <1>1, <1>2, CalmInvariant, SettledIs, PTL DEF SetDbSpec, SetCommandsAtomic
=============================================================================
