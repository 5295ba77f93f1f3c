----------------------------- MODULE MapProofs ------------------------------
(***************************************************************************)
(* The steps that write to a shard, the safety theorems of the sharded     *)
(* map, and that it implements the atomic map.                             *)
(***************************************************************************)
EXTENDS MapLemmas

-----------------------------------------------------------------------------
(* Steps that write to a shard *)

\* A step of p that gives shard s new entries, a new structure or a new writer.
ShardStep(p, s) ==
  /\ data' = [data EXCEPT ![s] = data'[s]] /\ kind' = [kind EXCEPT ![s] = kind'[s]]
  /\ writer' = [writer EXCEPT ![s] = writer'[s]]
  /\ \A q \in Proc \ {p} : /\ pc'[q] = pc[q] /\ call'[q] = call[q] /\ ret'[q] = ret[q]
                           /\ diff'[q] = diff[q] /\ at'[q] = at[q] /\ keys'[q] = keys[q]

LEMMA ShardStepKeeps ==
  ASSUME MapInv, NEW p \in Proc, NEW s \in Shard, ShardStep(p, s), MapTypeOK',
         writer[s] \subseteq {p}, writer'[s] \subseteq {p},
         Inside(p) => ShardOf[call[p].key] = s,
         Phase(p)', Locked(p)', Writers(s)', Sound(s)', Size(s)', Counted',
         \A q \in Proc : Scanned(q)'
  PROVE  MapInv'
<1>1. MapTypeOK
  BY Zenon DEF MapInv
<1>2. ASSUME NEW t \in Shard, t # s
      PROVE  data'[t] = data[t] /\ kind'[t] = kind[t] /\ writer'[t] = writer[t] /\ p \notin writer[t]
  <2>1. data'[t] = data[t] /\ kind'[t] = kind[t] /\ writer'[t] = writer[t]
    BY <1>1, <1>2, Zenon DEF ShardStep, MapTypeOK
  <2>2. p \notin writer[t]
    BY <1>2, Zenon DEF MapInv, Writers
  <2> QED
    BY <2>1, <2>2, Zenon
<1>3. ASSUME NEW q \in Proc, q # p
      PROVE  Phase(q)' /\ Locked(q)' /\ (Inside(q)' <=> Inside(q))
  <2>1. pc'[q] = pc[q] /\ call'[q] = call[q] /\ ret'[q] = ret[q] /\ diff'[q] = diff[q]
    BY <1>3, Zenon DEF ShardStep
  <2>2. Phase(q) /\ Locked(q)
    BY Zenon DEF MapInv
  <2>3. Inside(q)' <=> Inside(q)
    BY <2>1, Zenon DEF Inside
  <2>4. Phase(q)'
    BY <2>1, <2>2, <2>3, Zenon DEF Phase
  <2>5. ASSUME Inside(q) PROVE q \in writer'[ShardOf[call[q].key]]
    <3>1. call[q] \in Calls
      BY <2>2, <2>5, Zenon DEF Phase, Inside
    <3>2. ShardOf[call[q].key] \in Shard
      BY <3>1, MapAssumption, Zenon DEF Calls, Shard
    <3>3. q \in writer[ShardOf[call[q].key]]
      BY <2>2, <2>5, Zenon DEF Locked
    <3> QED
      BY <1>2, <1>3, <3>2, <3>3, Zenon
  <2> QED
    BY <2>1, <2>3, <2>4, <2>5, Zenon DEF Locked
<1>4. ASSUME NEW t \in Shard, t # s
      PROVE  Writers(t)' /\ Sound(t)' /\ Size(t)'
  <2>1. Writers(t) /\ Sound(t) /\ Size(t)
    BY Zenon DEF MapInv
  <2>2. data'[t] = data[t] /\ kind'[t] = kind[t] /\ writer'[t] = writer[t] /\ p \notin writer[t]
    BY <1>2, <1>4, Zenon
  <2>3. \A q \in writer[t] : (Inside(q)' <=> Inside(q)) /\ call'[q] = call[q] /\ diff'[q] = diff[q]
    BY <1>1, <1>3, <2>2, Zenon DEF ShardStep, MapTypeOK
  <2>4. Writers(t)'
    BY <2>1, <2>2, <2>3, Zenon DEF Writers
  <2>5. Sound(t)'
    BY <2>1, <2>2, Zenon DEF Sound
  <2>6. Size(t)'
    BY <2>1, <2>2, <2>3, Zenon DEF Size
  <2> QED
    BY <2>4, <2>5, <2>6, Zenon
<1>5. \A q \in Proc : Phase(q)' /\ Locked(q)' /\ Scanned(q)'
  BY <1>3, Zenon
<1>6. \A t \in Shard : Writers(t)' /\ Sound(t)' /\ Size(t)'
  BY <1>4, Zenon
<1> QED
  BY <1>5, <1>6, Zenon DEF MapInv

\* A filled structure has the keys and the size of the one it comes from.
LEMMA FilledKeys ==
  ASSUME NEW to, NEW s \in Seq(Entry), NEW t, FilledWith(to, s, Len(s), t)
  PROVE  Entries(t) = Entries(s) /\ KeysOf(t) = KeysOf(s)
<1>1. Entries(t) = {s[i] : i \in 1 .. Len(s)}
  BY Zenon DEF FilledWith
<1>2. DOMAIN s = 1 .. Len(s)
  OBVIOUS
<1>3. Entries(s) = {s[i] : i \in 1 .. Len(s)}
  BY <1>2, Zenon DEF Entries
<1> QED
  BY <1>1, <1>3, KeysInEntries, Zenon

\* What the conversion and the unlock do to the shard of p: its entries stay, and
\* its size fits the structure it has then.
LEMMA Converted ==
  ASSUME MapInv, NEW p \in Proc, Convert(p), NEW s, s = ShardOf[call[p].key]
  PROVE  /\ s \in Shard /\ writer[s] = {p} /\ writer'[s] = {} /\ ShardStep(p, s)
         /\ data'[s] \in Seq(Entry) /\ Unique(data'[s]) /\ Len(data'[s]) = Len(data[s])
         /\ Entries(data'[s]) = Entries(data[s]) /\ KeysOf(data'[s]) = KeysOf(data[s])
         /\ kind'[s] \in {"list", "tree"} /\ (kind'[s] = "tree" => Ordered(data'[s]))
         /\ kind'[s] = "list" => Len(data[s]) < TreeifyThreshold
         /\ kind'[s] = "tree" => Len(data[s]) > UntreeifyThreshold
<1> DEFINE old == data[s]
<1>1. MapTypeOK /\ Phase(p) /\ Locked(p) /\ pc[p] = "convert" /\ Inside(p)
  BY Zenon DEF MapInv, Convert, Inside
<1>2. call[p] \in Calls /\ diff[p] \in {-1, 1}
  BY <1>1, Zenon DEF Phase
<1>3. s \in Shard
  BY <1>2, MapAssumption, Zenon DEF Calls, Shard
<1>4. Writers(s) /\ Sound(s) /\ Size(s)
  BY <1>3, Zenon DEF MapInv
<1>5. writer[s] = {p}
  BY <1>1, <1>4, Zenon DEF Locked, Writers
<1>6. old \in Seq(Entry) /\ Unique(old) /\ Len(old) \in Nat /\ kind[s] \in {"list", "tree"}
  BY <1>1, <1>3, <1>4 DEF MapTypeOK, Sound
<1>7. /\ writer' = [writer EXCEPT ![s] = {}] /\ diff' = [diff EXCEPT ![p] = 0]
      /\ pc' = [pc EXCEPT ![p] = "done"] /\ UNCHANGED <<count, call, ret, at, keys, stay, seen>>
  BY Zenon DEF Convert, Goto, scanVars
<1>8. \/ /\ diff[p] = 1 /\ kind[s] = "list" /\ Len(old) >= TreeifyThreshold
         /\ data' = [data EXCEPT ![s] = DrainIntoTree(old)] /\ kind' = [kind EXCEPT ![s] = "tree"]
      \/ /\ diff[p] = -1 /\ kind[s] = "tree" /\ Len(old) <= UntreeifyThreshold
         /\ data' = [data EXCEPT ![s] = IntoList(old)] /\ kind' = [kind EXCEPT ![s] = "list"]
      \/ /\ ~(diff[p] = 1 /\ kind[s] = "list" /\ Len(old) >= TreeifyThreshold)
         /\ ~(diff[p] = -1 /\ kind[s] = "tree" /\ Len(old) <= UntreeifyThreshold)
         /\ data' = data /\ kind' = kind
  BY Zenon DEF Convert
<1>9. writer'[s] = {}
  BY <1>1, <1>3, <1>7, Zenon DEF MapTypeOK
<1>10. /\ data' = [data EXCEPT ![s] = data'[s]] /\ kind' = [kind EXCEPT ![s] = kind'[s]]
       /\ writer' = [writer EXCEPT ![s] = writer'[s]]
  BY <1>1, <1>3, <1>7, <1>8, Zenon DEF MapTypeOK
<1>11. ShardStep(p, s)
  BY <1>1, <1>7, <1>10, Zenon DEF ShardStep, MapTypeOK
<1>12. ASSUME NEW to \in {"list", "tree"}, data'[s] = Refilled(to, old), kind'[s] = to
       PROVE  /\ data'[s] \in Seq(Entry) /\ Unique(data'[s]) /\ Len(data'[s]) = Len(old)
              /\ Entries(data'[s]) = Entries(old) /\ KeysOf(data'[s]) = KeysOf(old)
              /\ (kind'[s] = "tree" => Ordered(data'[s]))
  <2>1. FilledWith(to, old, Len(old), data'[s])
    BY <1>6, <1>12, RefilledKeeps, Zenon
  <2>2. Entries(data'[s]) = Entries(old) /\ KeysOf(data'[s]) = KeysOf(old)
    BY <1>6, <2>1, FilledKeys, Zenon
  <2> QED
    BY <1>12, <2>1, <2>2, Zenon DEF FilledWith
<1>13. UntreeifyThreshold \in Nat /\ TreeifyThreshold \in Nat /\ UntreeifyThreshold < TreeifyThreshold
  BY MapAssumption, Zenon
<1>14. CASE /\ diff[p] = 1 /\ kind[s] = "list" /\ Len(old) >= TreeifyThreshold
            /\ data' = [data EXCEPT ![s] = DrainIntoTree(old)] /\ kind' = [kind EXCEPT ![s] = "tree"]
  <2>1. data'[s] = Refilled("tree", old) /\ kind'[s] = "tree"
    BY <1>1, <1>3, <1>14, ZenonT(60) DEF MapTypeOK, DrainIntoTree
  <2>2. Len(old) > UntreeifyThreshold
    BY <1>6, <1>13, <1>14
  <2> QED
    BY <1>3, <1>5, <1>9, <1>11, <1>12, <2>1, <2>2, ZenonT(60)
<1>15. CASE /\ diff[p] = -1 /\ kind[s] = "tree" /\ Len(old) <= UntreeifyThreshold
            /\ data' = [data EXCEPT ![s] = IntoList(old)] /\ kind' = [kind EXCEPT ![s] = "list"]
  <2>1. data'[s] = Refilled("list", old) /\ kind'[s] = "list"
    BY <1>1, <1>3, <1>15, ZenonT(60) DEF MapTypeOK, IntoList
  <2>2. Len(old) < TreeifyThreshold
    BY <1>6, <1>13, <1>15
  <2> QED
    BY <1>3, <1>5, <1>9, <1>11, <1>12, <2>1, <2>2, ZenonT(60)
<1>16. CASE /\ ~(diff[p] = 1 /\ kind[s] = "list" /\ Len(old) >= TreeifyThreshold)
            /\ ~(diff[p] = -1 /\ kind[s] = "tree" /\ Len(old) <= UntreeifyThreshold)
            /\ data' = data /\ kind' = kind
  <2>1. p \in writer[s]
    BY <1>5, Zenon
  <2>2. /\ diff[p] = 1 => (kind[s] = "tree" => Len(old) > UntreeifyThreshold)
        /\ diff[p] = -1 => (kind[s] = "list" => Len(old) < TreeifyThreshold)
    BY <1>4, <2>1, ZenonT(60) DEF Size
  <2>3. /\ kind[s] = "list" => Len(old) < TreeifyThreshold
        /\ kind[s] = "tree" => Len(old) > UntreeifyThreshold
    BY <1>2, <1>6, <1>13, <1>16, <2>2
  <2>4. kind[s] = "tree" => Ordered(old)
    BY <1>4, Zenon DEF Sound
  <2> QED
    BY <1>3, <1>5, <1>6, <1>9, <1>11, <1>16, <2>3, <2>4, Zenon
<1> QED
  BY <1>8, <1>14, <1>15, <1>16, Zenon

LEMMA ConvertKeeps ==
  ASSUME MapInv, NEW p \in Proc, Convert(p)
  PROVE  MapInv'
<1> PICK s : s = ShardOf[call[p].key]
  BY Zenon
<1>1. s \in Shard /\ writer[s] = {p} /\ writer'[s] = {} /\ ShardStep(p, s)
  BY Converted, Zenon
<1>2. data'[s] \in Seq(Entry) /\ Unique(data'[s]) /\ Len(data'[s]) = Len(data[s])
  BY Converted, Zenon
<1>3. KeysOf(data'[s]) = KeysOf(data[s])
  BY Converted, Zenon
<1>4. /\ kind'[s] \in {"list", "tree"} /\ (kind'[s] = "tree" => Ordered(data'[s]))
      /\ kind'[s] = "list" => Len(data[s]) < TreeifyThreshold
      /\ kind'[s] = "tree" => Len(data[s]) > UntreeifyThreshold
  BY Converted, Zenon
<1>5. /\ diff' = [diff EXCEPT ![p] = 0] /\ pc' = [pc EXCEPT ![p] = "done"] /\ pc[p] = "convert"
      /\ UNCHANGED <<count, call, ret, at, keys, stay, seen>>
  BY Zenon DEF Convert, Goto, scanVars
<1>6. MapTypeOK /\ Phase(p) /\ \A t \in Shard : Sound(t)
  BY Zenon DEF MapInv
<1>7. MapTypeOK'
  <2>1. /\ data' = [data EXCEPT ![s] = data'[s]] /\ kind' = [kind EXCEPT ![s] = kind'[s]]
        /\ writer' = [writer EXCEPT ![s] = writer'[s]]
    BY <1>1, Zenon DEF ShardStep
  <2>2. data' \in [Shard -> Seq(Entry)]
    BY <1>1, <1>2, <1>6, <2>1, Zenon DEF MapTypeOK
  <2>3. kind' \in [Shard -> {"list", "tree"}]
    BY <1>1, <1>4, <1>6, <2>1, Zenon DEF MapTypeOK
  <2>4. writer' \in [Shard -> SUBSET Proc]
    <3>1. writer' = [writer EXCEPT ![s] = {}] /\ writer \in [Shard -> SUBSET Proc]
      BY <1>1, <1>6, <2>1, Zenon DEF MapTypeOK
    <3> QED
      BY <3>1, Zenon
  <2> QED
    BY <1>5, <1>6, <2>2, <2>3, <2>4, Zenon DEF MapTypeOK
<1>8. pc'[p] = "done" /\ ~Inside(p)'
  BY <1>5, <1>6, Zenon DEF MapTypeOK, Inside
<1>9. Phase(p)' /\ Locked(p)'
  BY <1>5, <1>6, <1>8, Zenon DEF Phase, Locked, Inside
<1>10. Sound(s)'
  BY <1>1, <1>2, <1>3, <1>4, <1>6, ZenonT(60) DEF Sound
<1>11. Writers(s)' /\ Size(s)'
  BY <1>1, <1>2, <1>4, Zenon DEF Writers, Size
<1>12. ASSUME NEW t \in Shard PROVE KeysOf(data'[t]) = KeysOf(data[t])
  BY <1>1, <1>3, <1>6, Zenon DEF ShardStep, MapTypeOK
<1>13. Present' = Present
  BY <1>12, PresentIs, Zenon DEF AllKeys
<1>14. Counted'
  <2>1. \A q \in Proc \ {p} : pc'[q] = pc[q] /\ diff'[q] = diff[q]
    BY <1>1, Zenon DEF ShardStep
  <2>2. Pending(1)' = Pending(1) /\ Pending(-1)' = Pending(-1)
    BY <1>5, <1>8, <2>1, SamePending, Zenon
  <2> QED
    BY <1>5, <1>13, <2>2, Zenon DEF MapInv, Counted
<1>15. ASSUME NEW q \in Proc PROVE Scanned(q)'
  <2>1. Scanned(q)
    BY Zenon DEF MapInv
  <2>2. Collected(q)' = Collected(q)
    BY <1>5, Zenon DEF Collected
  <2>3. CASE q = p
    <3>1. call[p] # Scan /\ call'[p] # Scan
      BY <1>5, <1>6, Zenon DEF Phase
    <3> QED
      BY <1>5, <1>8, <2>1, <2>2, <2>3, <3>1, ZenonT(60) DEF Scanned
  <2>4. CASE q # p
    <3>1. pc'[q] = pc[q] /\ call'[q] = call[q]
      BY <1>1, <2>4, Zenon DEF ShardStep
    <3> QED
      BY <1>5, <1>13, <2>1, <2>2, <3>1 DEF Scanned
  <2> QED
    BY <2>3, <2>4, Zenon
<1>16. writer[s] \subseteq {p} /\ writer'[s] \subseteq {p}
  BY <1>1, Zenon
<1> QED
  BY <1>1, <1>7, <1>9, <1>10, <1>11, <1>14, <1>15, <1>16, ShardStepKeeps, ZenonT(60)

\* The entries new are a sound content of shard s, with change keys more than the
\* present one: k is the key that comes or goes.
Fits(s, k, new, change) ==
  /\ new \in Seq(Entry) /\ Unique(new) /\ (kind[s] = "tree" => Ordered(new))
  /\ Len(new) = Len(data[s]) + change
  /\ change = 1 => k \notin KeysOf(data[s]) /\ KeysOf(new) = KeysOf(data[s]) \cup {k}
  /\ change = -1 => k \in KeysOf(data[s]) /\ KeysOf(new) = KeysOf(data[s]) \ {k}
  /\ change = 0 => KeysOf(new) = KeysOf(data[s])

LEMMA ShardsAfter ==
  ASSUME MapInv, NEW k \in Key, NEW s \in Shard, s = ShardOf[k], NEW new, NEW change \in {-1, 0, 1},
         Fits(s, k, new, change), data' = [data EXCEPT ![s] = new]
  PROVE  /\ data' \in [Shard -> Seq(Entry)] /\ data'[s] = new
         /\ \A t \in Shard : t # s => data'[t] = data[t]
         /\ \A t \in Shard : \A m \in KeysOf(data'[t]) : ShardOf[m] = t
<1>1. data \in [Shard -> Seq(Entry)] /\ \A t \in Shard : \A m \in KeysOf(data[t]) : ShardOf[m] = t
  BY Zenon DEF MapInv, MapTypeOK, Sound
<1>2. new \in Seq(Entry)
  BY Zenon DEF Fits
<1>3. data' \in [Shard -> Seq(Entry)] /\ data'[s] = new /\ \A t \in Shard : t # s => data'[t] = data[t]
  BY <1>1, <1>2, Zenon
<1>4. \A m \in KeysOf(new) : ShardOf[m] = s
  BY <1>1, Zenon DEF Fits
<1> QED
  BY <1>1, <1>3, <1>4, Zenon

\* The keys of the map after such a change.
KeysMove(k, change) ==
  /\ change = 0 => Present' = Present
  /\ change = 1 => k \notin Present /\ Present' = Present \cup {k}
  /\ change = -1 => k \in Present /\ Present' = Present \ {k}

LEMMA PresentAfter ==
  ASSUME MapInv, NEW k \in Key, NEW s \in Shard, s = ShardOf[k], NEW new, NEW change \in {-1, 0, 1},
         Fits(s, k, new, change), data' = [data EXCEPT ![s] = new]
  PROVE  KeysMove(k, change)
<1>1. data \in [Shard -> Seq(Entry)] /\ \A t \in Shard : \A m \in KeysOf(data[t]) : ShardOf[m] = t
  BY Zenon DEF MapInv, MapTypeOK, Sound
<1>3. data' \in [Shard -> Seq(Entry)] /\ data'[s] = new /\ \A t \in Shard : t # s => data'[t] = data[t]
  BY ShardsAfter, Zenon
<1>5. \A t \in Shard : \A m \in KeysOf(data'[t]) : ShardOf[m] = t
  BY ShardsAfter, Zenon
<1>6. \A m : m \in Present <=> m \in Key /\ m \in KeysOf(data[ShardOf[m]])
  BY <1>1, AllKeysOf, PresentIs, Zenon
<1>7. \A m : m \in Present' <=> m \in Key /\ m \in KeysOf(data'[ShardOf[m]])
  BY <1>3, <1>5, AllKeysOf, PresentIs, Zenon
<1>9. \A m \in Key : ShardOf[m] \in Shard
  BY MapAssumption, Zenon DEF Shard
<1>10. \A m \in Key : ShardOf[m] # s => (m \in Present' <=> m \in Present)
  BY <1>3, <1>6, <1>7, <1>9, Zenon
<1>11. \A m \in Key : ShardOf[m] = s => /\ m \in Present' <=> m \in KeysOf(new)
                                        /\ m \in Present <=> m \in KeysOf(data[s])
  BY <1>3, <1>6, <1>7, <1>9, Zenon
<1>12. \A m : m \in Present \/ m \in Present' => m \in Key
  BY <1>6, <1>7, Zenon
<1>13. change = 0 => Present' = Present
  BY <1>10, <1>11, <1>12, Zenon DEF Fits
<1>14. change = 1 => k \notin Present /\ Present' = Present \cup {k}
  <2> SUFFICES ASSUME change = 1 PROVE k \notin Present /\ Present' = Present \cup {k}
    BY Zenon
  <2>1. k \notin KeysOf(data[s]) /\ \A m : m \in KeysOf(new) <=> m \in KeysOf(data[s]) \/ m = k
    BY Zenon DEF Fits
  <2>2. k \notin Present
    BY <1>11, <2>1, Zenon
  <2>3. \A m \in Key : m \in Present' <=> m \in Present \/ m = k
    BY <1>10, <1>11, <2>1, Zenon
  <2> QED
    BY <1>12, <2>2, <2>3, Zenon
<1>15. change = -1 => k \in Present /\ Present' = Present \ {k}
  <2> SUFFICES ASSUME change = -1 PROVE k \in Present /\ Present' = Present \ {k}
    BY Zenon
  <2>1. k \in KeysOf(data[s]) /\ \A m : m \in KeysOf(new) <=> m \in KeysOf(data[s]) /\ m # k
    BY Zenon DEF Fits
  <2>2. k \in Present
    BY <1>11, <2>1, Zenon
  <2>3. \A m \in Key : m \in Present' <=> m \in Present /\ m # k
    BY <1>10, <1>11, <2>1, Zenon
  <2> QED
    BY <1>12, <2>2, <2>3, Zenon
<1> QED
  BY <1>13, <1>14, <1>15, Zenon DEF KeysMove

\* Scans learn what comes and goes.
LEMMA ScannedAfter ==
  ASSUME MapInv, NEW p \in Proc, NEW q \in Proc, NEW k, k = call[p].key, NEW change \in {-1, 0, 1},
         call[p] # Scan, call'[p] = call[p], at' = at, keys' = keys, pc'[p] \in {"done", "count"},
         q # p => pc'[q] = pc[q] /\ call'[q] = call[q],
         stay'[q] = (IF change = -1 THEN stay[q] \ {k} ELSE stay[q]),
         seen'[q] = (IF change = 1 /\ pc[q] = "scan" THEN seen[q] \cup {k} ELSE seen[q]),
         KeysMove(k, change)
  PROVE  Scanned(q)'
<1>1. Scanned(q) /\ Collected(q)' = Collected(q)
  BY Zenon DEF MapInv, Collected
<1>2. CASE q = p
  <2>1. keys[p] = <<>> /\ at[p] = 1 /\ Collected(p) = {}
    BY <1>1, <1>2 DEF Scanned, Collected
  <2> QED
    BY <1>1, <1>2, <2>1, Zenon DEF Scanned
<1>3. CASE q # p
  <2>1. pc'[q] = pc[q] /\ call'[q] = call[q] /\ at'[q] = at[q] /\ keys'[q] = keys[q]
    BY <1>3, Zenon
  <2>2. stay'[q] \subseteq stay[q] /\ seen[q] \subseteq seen'[q]
    BY Zenon
  <2>3. ASSUME pc[q] = "scan" PROVE Present' \subseteq seen'[q] /\ stay'[q] \subseteq Present'
    <3>1. Present \subseteq seen[q] /\ stay[q] \subseteq Present
      BY <1>1, <2>3, Zenon DEF Scanned
    <3> QED
      BY <2>3, <3>1, Zenon DEF KeysMove
  <2> QED
    BY <1>1, <2>1, <2>2, <2>3, Zenon DEF Scanned
<1> QED
  BY <1>2, <1>3, Zenon

\* The counter is exact up to the goroutines that have still to add to it, p one of
\* them now.
LEMMA CountedAfter ==
  ASSUME MapInv, NEW p \in Proc, pc[p] # "count", NEW k, NEW change \in {-1, 0, 1}, count' = count,
         \A q \in Proc \ {p} : pc'[q] = pc[q] /\ diff'[q] = diff[q],
         change = 0 => pc'[p] # "count",
         change # 0 => pc'[p] = "count" /\ diff'[p] = change,
         KeysMove(k, change)
  PROVE  Counted'
<1>0. IsFiniteSet(Present)
  BY PresentKeys, Zenon DEF MapInv
<1>1. /\ IsFiniteSet(Pending(1)) /\ IsFiniteSet(Pending(-1)) /\ Counted
      /\ p \notin Pending(1) /\ p \notin Pending(-1)
  BY Zenon DEF MapInv, Counted, Pending
<1>2. /\ Cardinality(Present) \in Nat /\ Cardinality(Pending(1)) \in Nat
      /\ Cardinality(Pending(-1)) \in Nat
  BY <1>0, <1>1, FS_CardinalityType, Zenon
<1>3. CASE change = 0
  <2>1. Pending(1)' = Pending(1) /\ Pending(-1)' = Pending(-1)
    BY <1>3, SamePending, Zenon
  <2> QED
    BY <1>1, <1>3, <2>1, Zenon DEF Counted, KeysMove
<1>4. CASE change = 1
  <2>1. Pending(1)' = Pending(1) \cup {p} /\ Pending(-1)' = Pending(-1)
    BY <1>4 DEF Pending
  <2>2. IsFiniteSet(Pending(1)') /\ Cardinality(Pending(1)') = Cardinality(Pending(1)) + 1
    BY <1>1, <2>1, FS_AddElement
  <2>3. Cardinality(Present') = Cardinality(Present) + 1
    BY <1>0, <1>4, FS_AddElement, Zenon DEF KeysMove
  <2> QED
    BY <1>1, <1>2, <2>1, <2>2, <2>3 DEF Counted
<1>5. CASE change = -1
  <2>1. Pending(-1)' = Pending(-1) \cup {p} /\ Pending(1)' = Pending(1)
    BY <1>5 DEF Pending
  <2>2. IsFiniteSet(Pending(-1)') /\ Cardinality(Pending(-1)') = Cardinality(Pending(-1)) + 1
    BY <1>1, <2>1, FS_AddElement
  <2>3. Cardinality(Present') = Cardinality(Present) - 1
    BY <1>0, <1>5, FS_RemoveElement, Zenon DEF KeysMove
  <2> QED
    BY <1>1, <1>2, <2>1, <2>2, <2>3 DEF Counted
<1> QED
  BY <1>3, <1>4, <1>5, Zenon

\* A change of a shard that fits keeps the invariant.
LEMMA ChangeKeeps ==
  ASSUME MapInv, NEW p \in Proc, pc[p] \in {"called", "recheck"}, call[p] \in Calls, call[p] # Scan,
         NEW k \in Key, k = call[p].key, NEW s \in Shard, s = ShardOf[k],
         NEW new, NEW change \in {-1, 0, 1}, NEW result \in {0, 1},
         Change(p, s, new, change, result), Fits(s, k, new, change)
  PROVE  MapInv'
<1>1. /\ writer[s] = {} /\ data' = [data EXCEPT ![s] = new] /\ ret' = [ret EXCEPT ![p] = <<result>>]
      /\ UNCHANGED <<kind, count, call, at, keys>>
  BY Zenon DEF Change, Readable
<1>2. \/ change = 0 /\ pc' = [pc EXCEPT ![p] = "done"] /\ writer' = writer /\ diff' = diff
      \/ /\ change # 0 /\ pc' = [pc EXCEPT ![p] = "count"]
         /\ writer' = [writer EXCEPT ![s] = {p}] /\ diff' = [diff EXCEPT ![p] = change]
  BY Zenon DEF Change, Goto
<1>3. /\ stay' = [q \in Proc |-> IF change = -1 THEN stay[q] \ {k} ELSE stay[q]]
      /\ seen' = [q \in Proc |-> IF change = 1 /\ pc[q] = "scan" THEN seen[q] \cup {k} ELSE seen[q]]
  BY Zenon DEF Change
<1>4. MapTypeOK /\ Phase(p) /\ Writers(s) /\ Sound(s) /\ Size(s)
  BY Zenon DEF MapInv
<1>5. KeysMove(k, change)
  BY <1>1, PresentAfter, Zenon
<1>6. /\ data' \in [Shard -> Seq(Entry)] /\ data'[s] = new
      /\ \A t \in Shard : \A m \in KeysOf(data'[t]) : ShardOf[m] = t
  BY <1>1, ShardsAfter, Zenon
<1>7. /\ stay' \in [Proc -> SUBSET Key] /\ seen' \in [Proc -> SUBSET Key]
  BY <1>3, <1>4, Zenon DEF MapTypeOK
<1>8. /\ pc' \in [Proc -> {"idle", "called", "recheck", "count", "convert", "scan", "done"}]
      /\ writer' \in [Shard -> SUBSET Proc] /\ diff' \in [Proc -> {-1, 0, 1}]
  <2>1. CASE change = 0 /\ pc' = [pc EXCEPT ![p] = "done"] /\ writer' = writer /\ diff' = diff
    BY <1>4, <2>1, Zenon DEF MapTypeOK
  <2>2. CASE /\ change # 0 /\ pc' = [pc EXCEPT ![p] = "count"]
             /\ writer' = [writer EXCEPT ![s] = {p}] /\ diff' = [diff EXCEPT ![p] = change]
    <3>1. pc \in [Proc -> {"idle", "called", "recheck", "count", "convert", "scan", "done"}]
          /\ writer \in [Shard -> SUBSET Proc] /\ diff \in [Proc -> {-1, 0, 1}]
      BY <1>4, Zenon DEF MapTypeOK
    <3>2. {p} \in SUBSET Proc
      BY Zenon
    <3> QED
      BY <2>2, <3>1, <3>2, Zenon
  <2> QED
    BY <1>2, <2>1, <2>2, Zenon
<1>9. ret' \in [Proc -> Seq(Val \cup {NoVal, 0, 1})]
  <2>1. <<result>> \in Seq(Val \cup {NoVal, 0, 1})
    OBVIOUS
  <2> QED
    BY <1>1, <1>4, <2>1, Zenon DEF MapTypeOK
<1>10. MapTypeOK'
  BY <1>1, <1>4, <1>6, <1>7, <1>8, <1>9, Zenon DEF MapTypeOK
<1>11. /\ ret'[p] = <<result>> /\ ret'[p] # <<>> /\ call'[p] = call[p]
       /\ change = 0 => pc'[p] = "done" /\ writer'[s] = {} /\ ~Inside(p)'
       /\ change # 0 => pc'[p] = "count" /\ writer'[s] = {p} /\ diff'[p] = change /\ Inside(p)'
  BY <1>1, <1>2, <1>4, Zenon DEF MapTypeOK, Inside
<1>12. ~Inside(p) /\ pc[p] # "count"
  BY Zenon DEF Inside
<1>13. ShardStep(p, s)
  <2>1. /\ data' = [data EXCEPT ![s] = data'[s]] /\ kind' = [kind EXCEPT ![s] = kind'[s]]
    BY <1>1, <1>4, <1>6, Zenon DEF MapTypeOK
  <2>2. writer' = [writer EXCEPT ![s] = writer'[s]]
    BY <1>2, <1>4, Zenon DEF MapTypeOK
  <2>3. \A q \in Proc \ {p} : pc'[q] = pc[q] /\ diff'[q] = diff[q] /\ ret'[q] = ret[q]
    BY <1>1, <1>2, <1>4, Zenon DEF MapTypeOK
  <2> QED
    BY <1>1, <2>1, <2>2, <2>3 DEF ShardStep
<1>14. Phase(p)'
  BY <1>1, <1>4, <1>11, MapAssumption, Zenon DEF Phase, Inside
<1>15. Locked(p)' /\ Writers(s)'
  BY <1>11, Zenon DEF Locked, Writers
<1>16. Sound(s)'
  BY <1>1, <1>6, Zenon DEF Sound, Fits
<1>17. Size(s)'
  <2>1. Len(data[s]) \in Nat /\ Len(new) = Len(data[s]) + change /\ TreeifyThreshold \in Nat
        /\ UntreeifyThreshold \in Nat
    BY <1>4, MapAssumption DEF MapTypeOK, Fits
  <2>2. /\ kind[s] = "list" => Len(data[s]) < TreeifyThreshold
        /\ kind[s] = "tree" => Len(data[s]) > UntreeifyThreshold
    BY <1>1, <1>4, ZenonT(60) DEF Size
  <2>3. CASE change = 0
    <3>1. writer'[s] = {} /\ kind'[s] = kind[s] /\ data'[s] = new
      BY <1>1, <1>6, <1>11, <2>3, Zenon
    <3>2. Len(new) = Len(data[s])
      BY <2>1, <2>3
    <3> QED
      BY <2>2, <3>1, <3>2, Zenon DEF Size
  <2>4. CASE change = 1
    <3>1. k \in KeysOf(new)
      BY <2>4, Zenon DEF Fits
    <3>2. kind[s] = "tree" => Len(new) > UntreeifyThreshold
      BY <2>1, <2>2, <2>4
    <3>3. writer'[s] = {p} /\ diff'[p] = 1 /\ call'[p].key = k /\ kind'[s] = kind[s] /\ data'[s] = new
      BY <1>1, <1>6, <1>11, <2>4
    <3>4. writer'[s] # {} /\ \A q \in writer'[s] : q = p
      BY <3>3, Zenon
    <3> QED
      BY <3>1, <3>2, <3>3, <3>4 DEF Size
  <2>5. CASE change = -1
    <3>1. kind[s] = "list" => Len(new) < TreeifyThreshold
      BY <2>1, <2>2, <2>5
    <3>2. writer'[s] = {p} /\ diff'[p] = -1 /\ kind'[s] = kind[s] /\ data'[s] = new
      BY <1>1, <1>6, <1>11, <2>5
    <3>3. writer'[s] # {} /\ \A q \in writer'[s] : q = p
      BY <3>2, Zenon
    <3> QED
      BY <3>1, <3>2, <3>3 DEF Size
  <2> QED
    BY <2>3, <2>4, <2>5, ZenonT(60)
<1>18. Counted'
  <2>1. \A q \in Proc \ {p} : pc'[q] = pc[q] /\ diff'[q] = diff[q]
    BY <1>13, Zenon DEF ShardStep
  <2>2. count' = count /\ pc[p] # "count"
    BY <1>1, <1>12, Zenon
  <2>3. /\ change = 0 => pc'[p] # "count"
        /\ change # 0 => pc'[p] = "count" /\ diff'[p] = change
    BY <1>11, Zenon
  <2> QED
    BY <1>5, <2>1, <2>2, <2>3, CountedAfter, Zenon
<1>19. ASSUME NEW q \in Proc PROVE Scanned(q)'
  <2>1. q # p => pc'[q] = pc[q] /\ call'[q] = call[q]
    BY <1>13, Zenon DEF ShardStep
  <2>2. pc'[p] \in {"done", "count"}
    BY <1>11, Zenon
  <2>3. stay'[q] = (IF change = -1 THEN stay[q] \ {k} ELSE stay[q])
    BY <1>3, Zenon
  <2>4. seen'[q] = (IF change = 1 /\ pc[q] = "scan" THEN seen[q] \cup {k} ELSE seen[q])
    BY <1>3, Zenon
  <2> QED
    BY <1>1, <1>5, <1>11, <2>1, <2>2, <2>3, <2>4, ScannedAfter, ZenonT(60)
<1>20. writer[s] \subseteq {p} /\ writer'[s] \subseteq {p} /\ (Inside(p) => ShardOf[call[p].key] = s)
  BY <1>1, <1>11, Zenon
<1> QED
  BY <1>10, <1>13, <1>14, <1>15, <1>16, <1>17, <1>18, <1>19, <1>20, ShardStepKeeps, ZenonT(60)

\* What the writers make of a shard fits.
LEMMA PutFits ==
  ASSUME MapInv, NEW s \in Shard, NEW k \in Key, NEW v \in Val
  PROVE  /\ Has(data[s], k) => Fits(s, k, Put(s, k, v), 0)
         /\ ~Has(data[s], k) => Fits(s, k, Put(s, k, v), 1)
<1> PICK e : e = [key |-> k, val |-> v]
  BY Zenon
<1> PICK new : new = PutInto(kind[s], data[s], e)
  BY Zenon
<1>1. e \in Entry /\ e.key = k
  BY Zenon DEF Entry
<1>2. /\ data[s] \in Seq(Entry) /\ kind[s] \in {"list", "tree"} /\ Unique(data[s])
      /\ kind[s] = "tree" => Ordered(data[s])
  BY Zenon DEF MapInv, MapTypeOK, Sound
<1>3. new \in Seq(Entry) /\ Unique(new) /\ (kind[s] = "tree" => Ordered(new))
  BY <1>1, <1>2, PutKeeps, Zenon
<1>4. (Has(data[s], e.key) => Len(new) = Len(data[s])) /\ (~Has(data[s], e.key) => Len(new) = Len(data[s]) + 1)
  BY <1>1, <1>2, PutLength, Zenon
<1>5. KeysOf(new) = KeysOf(data[s]) \cup {e.key}
  BY <1>1, <1>2, PutKeeps, ZenonT(60)
<1>6. Has(data[s], k) <=> k \in KeysOf(data[s])
  BY KeysInEntries, Zenon
<1>7. Len(data[s]) \in Nat /\ Len(data[s]) + 0 = Len(data[s])
  BY <1>2
<1>8. Put(s, k, v) = new
  BY Zenon DEF Put
<1>9. ASSUME Has(data[s], k) PROVE Fits(s, k, new, 0)
  <2>1. KeysOf(new) = KeysOf(data[s])
    BY <1>1, <1>5, <1>6, <1>9, ZenonT(60)
  <2> QED
    BY <1>1, <1>3, <1>4, <1>7, <1>9, <2>1 DEF Fits
<1>10. ASSUME ~Has(data[s], k) PROVE Fits(s, k, new, 1)
  <2>1. KeysOf(new) = KeysOf(data[s]) \cup {k} /\ k \notin KeysOf(data[s])
    BY <1>1, <1>5, <1>6, <1>10, Zenon
  <2>2. Len(new) = Len(data[s]) + 1
    BY <1>1, <1>4, <1>10, Zenon
  <2> QED
    BY <1>3, <1>7, <2>1, <2>2 DEF Fits
<1> QED
  BY <1>8, <1>9, <1>10, Zenon

LEMMA SameFits ==
  ASSUME MapInv, NEW s \in Shard, NEW k
  PROVE  Fits(s, k, data[s], 0)
<1>1. /\ data[s] \in Seq(Entry) /\ Unique(data[s]) /\ (kind[s] = "tree" => Ordered(data[s]))
  BY Zenon DEF MapInv, MapTypeOK, Sound
<1>2. Len(data[s]) = Len(data[s]) + 0
  BY <1>1
<1> QED
  BY <1>1, <1>2 DEF Fits

LEMMA RemoveFits ==
  ASSUME MapInv, NEW s \in Shard, NEW k, Has(data[s], k)
  PROVE  Fits(s, k, RemoveKey(s, k), -1)
<1> PICK new : new = Removed(data[s], NodeOf(data[s], k))
  BY Zenon
<1>1. /\ data[s] \in Seq(Entry) /\ Unique(data[s]) /\ (kind[s] = "tree" => Ordered(data[s]))
  BY Zenon DEF MapInv, MapTypeOK, Sound
<1>2. /\ new \in Seq(Entry) /\ Len(new) = Len(data[s]) - 1 /\ Unique(new)
      /\ Ordered(data[s]) => Ordered(new)
  BY <1>1, NodeRemoved
<1>3. Entries(new) = Others(data[s], k)
  BY <1>1, NodeRemoved, Zenon
<1>4. KeysOf(new) = KeysOf(data[s]) \ {k}
  <2>1. KeysOf(new) = {x.key : x \in Others(data[s], k)}
    BY <1>3, KeysInEntries, Zenon
  <2>2. KeysOf(data[s]) = {x.key : x \in Entries(data[s])}
    BY KeysInEntries, Zenon
  <2> QED
    BY <2>1, <2>2, Zenon DEF Others
<1>5. k \in KeysOf(data[s])
  BY KeysInEntries, Zenon
<1>6. Len(data[s]) \in Nat /\ Len(data[s]) - 1 = Len(data[s]) + (-1)
  BY <1>1
<1>7. RemoveKey(s, k) = new
  BY Zenon DEF RemoveKey, Removed
<1> QED
  BY <1>1, <1>2, <1>4, <1>5, <1>6, <1>7 DEF Fits

\* The shard that a writer makes, with the difference and the result it goes with.
Writing(p, s, k, v, new, change, result) ==
  \/ /\ call[p].op = "set" /\ ~Has(data[s], k)
     /\ new = Put(s, k, v) /\ change = 1 /\ result = 1
  \/ /\ call[p].op = "set" /\ Has(data[s], k)
     /\ new = Put(s, k, v) /\ change = 0 /\ result = 0
  \/ /\ call[p].op = "setifexist" /\ Has(data[s], k)
     /\ new = Put(s, k, v) /\ change = 0 /\ result = 1
  \/ /\ call[p].op = "setifnotexist" /\ ~Has(data[s], k)
     /\ new = Put(s, k, v) /\ change = 1 /\ result = 1
  \/ /\ call[p].op = "delete" /\ Has(data[s], k)
     /\ new = RemoveKey(s, k) /\ change = -1 /\ result = 1
  \/ /\ \/ call[p].op \in {"setifexist", "delete"} /\ ~Has(data[s], k)
        \/ call[p].op = "setifnotexist" /\ Has(data[s], k)
     /\ new = data[s] /\ change = 0 /\ result = 0

Write(p) == Set(p) \/ SetIfExist(p) \/ SetIfNotExist(p) \/ Delete(p)

\* The four writers are changes of that kind.
LEMMA Written ==
  ASSUME MapInv, NEW p \in Proc, Write(p),
         NEW k, k = call[p].key, NEW v, v = call[p].val, NEW s, s = ShardOf[k]
  PROVE  /\ pc[p] \in {"called", "recheck"} /\ call[p] \in Calls /\ call[p] # Scan
         /\ k \in Key /\ v \in Val /\ s \in Shard
         /\ \E new : \E change \in {-1, 0, 1} : \E result \in {0, 1} :
              Writing(p, s, k, v, new, change, result) /\ Change(p, s, new, change, result)
<1>1. PICK label \in {"called", "recheck"} :
        Starts(p, {"set", "setifexist", "setifnotexist", "delete"}, label)
  BY Zenon DEF Write, Set, SetIfExist, SetIfNotExist, Delete, Starts
<1>2. /\ pc[p] \in {"called", "recheck"} /\ call[p] \in Calls /\ call[p] # Scan
      /\ k \in Key /\ v \in Val /\ s \in Shard
  BY <1>1, Started, Zenon
<1>3. ASSUME Set(p)
      PROVE  \E new : \E change \in {-1, 0, 1} : \E result \in {0, 1} :
               Writing(p, s, k, v, new, change, result) /\ Change(p, s, new, change, result)
  <2>1. CASE Has(data[s], k)
    <3>1. call[p].op = "set" /\ Change(p, s, Put(s, k, v), 0, 0)
      BY <1>3, <2>1, Zenon DEF Set, Starts
    <3>2. Writing(p, s, k, v, Put(s, k, v), 0, 0)
      BY <2>1, <3>1, Zenon DEF Writing
    <3> QED
      BY <3>1, <3>2, Zenon
  <2>2. CASE ~Has(data[s], k)
    <3>1. call[p].op = "set" /\ Change(p, s, Put(s, k, v), 1, 1)
      BY <1>3, <2>2, Zenon DEF Set, Starts
    <3>2. Writing(p, s, k, v, Put(s, k, v), 1, 1)
      BY <2>2, <3>1 DEF Writing
    <3> QED
      BY <3>1, <3>2, Zenon
  <2> QED
    BY <2>1, <2>2, Zenon
<1>4. ASSUME SetIfExist(p)
      PROVE  \E new : \E change \in {-1, 0, 1} : \E result \in {0, 1} :
               Writing(p, s, k, v, new, change, result) /\ Change(p, s, new, change, result)
  <2>1. CASE Has(data[s], k)
    <3>1. call[p].op = "setifexist" /\ Change(p, s, Put(s, k, v), 0, 1)
      BY <1>4, <2>1, Zenon DEF SetIfExist, Starts
    <3>2. Writing(p, s, k, v, Put(s, k, v), 0, 1)
      BY <2>1, <3>1, Zenon DEF Writing
    <3> QED
      BY <3>1, <3>2, Zenon
  <2>2. CASE ~Has(data[s], k)
    <3>1. call[p].op = "setifexist" /\ Change(p, s, data[s], 0, 0)
      BY <1>4, <2>2, Zenon DEF SetIfExist, Starts
    <3>2. Writing(p, s, k, v, data[s], 0, 0)
      BY <2>2, <3>1, Zenon DEF Writing
    <3> QED
      BY <3>1, <3>2, Zenon
  <2> QED
    BY <2>1, <2>2, Zenon
<1>5. ASSUME SetIfNotExist(p)
      PROVE  \E new : \E change \in {-1, 0, 1} : \E result \in {0, 1} :
               Writing(p, s, k, v, new, change, result) /\ Change(p, s, new, change, result)
  <2>1. CASE ~Has(data[s], k)
    <3>1. call[p].op = "setifnotexist" /\ Change(p, s, Put(s, k, v), 1, 1)
      BY <1>5, <2>1, Zenon DEF SetIfNotExist, Starts
    <3>2. Writing(p, s, k, v, Put(s, k, v), 1, 1)
      BY <2>1, <3>1, Zenon DEF Writing
    <3> QED
      BY <3>1, <3>2, Zenon
  <2>2. CASE Has(data[s], k)
    <3>1. call[p].op = "setifnotexist" /\ Change(p, s, data[s], 0, 0)
      BY <1>5, <2>2, ZenonT(60) DEF SetIfNotExist, Starts
    <3>2. Writing(p, s, k, v, data[s], 0, 0)
      BY <2>2, <3>1, Zenon DEF Writing
    <3> QED
      BY <3>1, <3>2, Zenon
  <2> QED
    BY <2>1, <2>2, Zenon
<1>6. ASSUME Delete(p)
      PROVE  \E new : \E change \in {-1, 0, 1} : \E result \in {0, 1} :
               Writing(p, s, k, v, new, change, result) /\ Change(p, s, new, change, result)
  <2>1. CASE Has(data[s], k)
    <3>1. call[p].op = "delete" /\ Change(p, s, RemoveKey(s, k), -1, 1)
      BY <1>6, <2>1, Zenon DEF Delete, Starts
    <3>2. Writing(p, s, k, v, RemoveKey(s, k), -1, 1)
      BY <2>1, <3>1, Zenon DEF Writing
    <3> QED
      BY <3>1, <3>2, Zenon
  <2>2. CASE ~Has(data[s], k)
    <3>1. call[p].op = "delete" /\ Change(p, s, RemoveKey(s, k), 0, 0)
      BY <1>6, <2>2, Zenon DEF Delete, Starts
    <3>2. RemoveKey(s, k) = data[s]
      BY <2>2, Zenon DEF RemoveKey
    <3>3. Change(p, s, data[s], 0, 0)
      BY <3>1, <3>2, Zenon
    <3>4. Writing(p, s, k, v, data[s], 0, 0)
      BY <2>2, <3>1, Zenon DEF Writing
    <3> QED
      BY <3>3, <3>4, Zenon
  <2> QED
    BY <2>1, <2>2, Zenon
<1> QED
  BY <1>2, <1>3, <1>4, <1>5, <1>6, Zenon DEF Write

LEMMA WriteKeeps ==
  ASSUME MapInv, NEW p \in Proc, Write(p)
  PROVE  MapInv'
<1> PICK k : k = call[p].key
  BY Zenon
<1> PICK v : v = call[p].val
  BY Zenon
<1> PICK s : s = ShardOf[k]
  BY Zenon
<1>1. /\ pc[p] \in {"called", "recheck"} /\ call[p] \in Calls /\ call[p] # Scan
      /\ k \in Key /\ v \in Val /\ s \in Shard
  BY Written, Zenon
<1>2. PICK new : \E change \in {-1, 0, 1} : \E result \in {0, 1} :
        Writing(p, s, k, v, new, change, result) /\ Change(p, s, new, change, result)
  BY Written
<1>3. PICK change \in {-1, 0, 1} : \E result \in {0, 1} :
        Writing(p, s, k, v, new, change, result) /\ Change(p, s, new, change, result)
  BY <1>2, Zenon
<1>4. PICK result \in {0, 1} :
        Writing(p, s, k, v, new, change, result) /\ Change(p, s, new, change, result)
  BY <1>3, Zenon
<1>5. \/ Has(data[s], k) /\ new = Put(s, k, v) /\ change = 0
      \/ ~Has(data[s], k) /\ new = Put(s, k, v) /\ change = 1
      \/ Has(data[s], k) /\ new = RemoveKey(s, k) /\ change = -1
      \/ new = data[s] /\ change = 0
  BY <1>4, Zenon DEF Writing
<1>6. Fits(s, k, new, change)
  BY <1>1, <1>5, PutFits, RemoveFits, SameFits, Zenon
<1> QED
  BY <1>1, <1>4, <1>6, ChangeKeeps

-----------------------------------------------------------------------------
(* The invariants *)

LEMMA MapInitInv == MapInit => MapInv
<1> SUFFICES ASSUME MapInit PROVE MapInv
  BY Zenon
<1> USE DEF MapInit
<1>1. <<>> \in Seq(Entry) /\ <<>> \in Seq(Val \cup {NoVal, 0, 1}) /\ <<>> \in Seq(Key)
      /\ Len(<<>>) = 0 /\ DOMAIN <<>> = {}
  OBVIOUS
<1>2. MapTypeOK
  BY <1>1 DEF MapTypeOK
<1>3. ASSUME NEW p \in Proc PROVE Phase(p) /\ Locked(p) /\ Scanned(p)
  <2>1. Phase(p)
    BY MapAssumption, Zenon DEF Phase, Inside
  <2>2. Locked(p)
    BY Zenon DEF Locked, Inside
  <2>3. Scanned(p)
    BY <1>1, MapAssumption, Zenon DEF Scanned, Collected
  <2> QED
    BY <2>1, <2>2, <2>3, Zenon
<1>4. ASSUME NEW s \in Shard PROVE Writers(s) /\ Sound(s) /\ Size(s)
  <2>1. Writers(s)
    BY Zenon DEF Writers
  <2>2. data[s] = <<>> /\ kind[s] = "list" /\ writer[s] = {}
    BY Zenon
  <2>3. Sound(s)
    BY <1>1, <2>2, Zenon DEF Sound, KeysOf, Unique
  <2>4. 0 < TreeifyThreshold
    BY MapAssumption
  <2>5. Size(s)
    BY <1>1, <2>2, <2>4, ZenonT(60) DEF Size
  <2> QED
    BY <2>1, <2>3, <2>5, Zenon
<1>5. Counted
  <2>1. Pending(1) = {} /\ Pending(-1) = {}
    BY Zenon DEF Pending
  <2>2. Present = {}
    <3>1. \A s \in Shard : DOMAIN data[s] = {}
      BY <1>1, Zenon
    <3>2. \A s \in Shard : {data[s][i].key : i \in DOMAIN data[s]} = {}
      BY <3>1, Zenon
    <3> QED
      BY <3>2, Zenon DEF Present
  <2>3. IsFiniteSet({}) /\ Cardinality({}) = 0
    BY FS_EmptySet, Zenon
  <2>4. /\ IsFiniteSet(Pending(1)) /\ IsFiniteSet(Pending(-1)) /\ Cardinality(Present) = 0
        /\ Cardinality(Pending(1)) = 0 /\ Cardinality(Pending(-1)) = 0
    BY <2>1, <2>2, <2>3, Zenon
  <2>5. count = 0
    BY Zenon
  <2> HIDE DEF MapInit
  <2> QED
    BY <2>4, <2>5 DEF Counted
<1> QED
  BY <1>2, <1>3, <1>4, <1>5, Zenon DEF MapInv

LEMMA MapStutters ==
  ASSUME MapInv, UNCHANGED vars
  PROVE  MapInv'
<1>1. UNCHANGED <<kind, data, writer, count, pc, call, ret, diff, at, keys, stay, seen>>
  BY Zenon DEF vars, shardVars, scanVars
<1>2. Present' = Present /\ Pending(1)' = Pending(1) /\ Pending(-1)' = Pending(-1)
  BY <1>1 DEF Present, Pending
<1>3. MapTypeOK' /\ Counted'
  BY <1>1, <1>2, ZenonT(60) DEF MapInv, MapTypeOK, Counted
<1>4. ASSUME NEW p \in Proc PROVE Phase(p)' /\ Locked(p)' /\ Scanned(p)'
  <2>1. Phase(p)' /\ Locked(p)'
    BY <1>1, Zenon DEF MapInv, Phase, Locked, Inside
  <2>2. Collected(p)' = Collected(p)
    BY <1>1, Zenon DEF Collected
  <2>3. Scanned(p)'
    BY <1>1, <1>2, <2>2, ZenonT(60) DEF MapInv, Scanned
  <2> QED
    BY <2>1, <2>3, Zenon
<1>5. ASSUME NEW s \in Shard PROVE Writers(s)' /\ Sound(s)' /\ Size(s)'
  BY <1>1, ZenonT(60) DEF MapInv, Writers, Sound, Size, Inside
<1> QED
  BY <1>3, <1>4, <1>5, ZenonT(60) DEF MapInv

LEMMA MapNextInv == MapInv /\ [MapNext]_vars => MapInv'
<1> SUFFICES ASSUME MapInv, [MapNext]_vars PROVE MapInv'
  BY Zenon
<1>1. CASE UNCHANGED vars
  BY <1>1, MapStutters, Zenon
<1>2. ASSUME NEW p \in Proc, MapStep(p) PROVE MapInv'
  <2>1. CASE Get(p)
    BY <2>1, GetKeeps, Zenon
  <2>2. CASE CheckFirst(p)
    BY <2>2, CheckFirstKeeps, Zenon
  <2>3. CASE Write(p)
    BY <2>3, WriteKeeps, Zenon
  <2>4. CASE AddCount(p)
    BY <2>4, AddCountKeeps, Zenon
  <2>5. CASE Convert(p)
    BY <2>5, ConvertKeeps, Zenon
  <2>6. CASE KeysStart(p)
    BY <2>6, KeysStartKeeps, Zenon
  <2>7. CASE KeysShard(p)
    BY <2>7, KeysShardKeeps, Zenon
  <2>8. CASE KeysReturns(p)
    BY <2>8, KeysReturnsKeeps, Zenon
  <2>9. CASE Return(p)
    BY <2>9, ReturnKeeps, Zenon
  <2> QED
    BY <1>2, <2>1, <2>2, <2>3, <2>4, <2>5, <2>6, <2>7, <2>8, <2>9, ZenonT(60) DEF MapStep, Write
<1>3. ASSUME NEW p \in Proc, NEW c \in Calls \cup {Scan}, Call(p, c) PROVE MapInv'
  BY <1>3, CallKeeps, Zenon
<1> QED
  BY <1>1, <1>2, <1>3, Zenon DEF MapNext

\* The inductive invariant of ConcurrentMap holds.
THEOREM MapInvariant == MapSpec => []MapInv
<1>1. MapInit => MapInv
  BY MapInitInv, Zenon
<1>2. MapInv /\ [MapNext]_vars => MapInv'
  BY MapNextInv, Zenon
<1> QED
  BY <1>1, <1>2, PTL DEF MapSpec

\* Whatever the goroutines do, a key is at most once in the map and in the shard
\* of its hash, a tree is in order, and an unlocked shard has the structure of its
\* size: for every number of shards, every hash and every pair of thresholds.
THEOREM MapShardsSound == MapSpec => []ShardsSound
<1>1. MapInv => ShardsSound
  <2> SUFFICES ASSUME MapInv, NEW s \in Shard
               PROVE  /\ \A i \in DOMAIN data[s] : ShardOf[data[s][i].key] = s
                      /\ \A i, j \in DOMAIN data[s] : data[s][i].key = data[s][j].key => i = j
                      /\ kind[s] = "tree" =>
                           \A i, j \in DOMAIN data[s] : i < j => data[s][i].key < data[s][j].key
                      /\ writer[s] = {} => IF kind[s] = "list" THEN Len(data[s]) < TreeifyThreshold
                                           ELSE Len(data[s]) > UntreeifyThreshold
    BY Zenon DEF ShardsSound
  <2>1. Sound(s) /\ Size(s) /\ kind[s] \in {"list", "tree"}
    BY Zenon DEF MapInv, MapTypeOK
  <2>2. \A i \in DOMAIN data[s] : ShardOf[data[s][i].key] = s
    BY <2>1, Zenon DEF Sound, KeysOf
  <2>3. \A i, j \in DOMAIN data[s] : data[s][i].key = data[s][j].key => i = j
    BY <2>1, Zenon DEF Sound, Unique
  <2>4. kind[s] = "tree" => \A i, j \in DOMAIN data[s] : i < j => data[s][i].key < data[s][j].key
    BY <2>1, Zenon DEF Sound, Ordered
  <2>5. writer[s] = {} => IF kind[s] = "list" THEN Len(data[s]) < TreeifyThreshold
                          ELSE Len(data[s]) > UntreeifyThreshold
    BY <2>1, Zenon DEF Size
  <2> QED
    BY <2>2, <2>3, <2>4, <2>5, Zenon
<1> QED
  BY <1>1, MapInvariant, PTL

\* The counter that Len returns is the number of keys, up to the writers between
\* the change of a shard and atomic.AddInt32.
THEOREM MapCountExact == MapSpec => []CountExact
<1>1. MapInv => CountExact
  BY ZenonT(60) DEF MapInv, Counted, CountExact, Pending
<1> QED
  BY <1>1, MapInvariant, PTL

\* Keys, which reads the shards one by one while others write, misses no key that
\* stays in the map, returns none that was never there and none twice.
THEOREM MapKeysComplete == MapSpec => []KeysComplete
<1>1. MapInv => KeysComplete
  <2> SUFFICES ASSUME MapInv, NEW p \in Proc, pc[p] = "done", call[p] = Scan
               PROVE  /\ stay[p] \subseteq Entries(keys[p]) /\ Entries(keys[p]) \subseteq seen[p]
                      /\ Cardinality(Entries(keys[p])) = Len(keys[p])
    BY Zenon DEF KeysComplete, Entries
  <2> PICK t : t = keys[p]
    BY Zenon
  <2>1. Scanned(p) /\ t \in Seq(Key)
    BY Zenon DEF MapInv, MapTypeOK
  <2>2. Entries(t) = Collected(p)
    BY Zenon DEF Entries, Collected
  <2>3. stay[p] \subseteq Entries(t) /\ Entries(t) \subseteq seen[p]
    BY <2>1, <2>2, Zenon DEF Scanned
  <2>4. \A i, j \in DOMAIN t : t[i] = t[j] => i = j
    BY <2>1, Zenon DEF Scanned
  <2>5. DOMAIN t = 1 .. Len(t) /\ Len(t) \in Nat
    BY <2>1
  <2>6. t \in Bijection(1 .. Len(t), Entries(t))
    <3>1. t \in [1 .. Len(t) -> Entries(t)]
      BY <2>1, <2>5 DEF Entries
    <3>2. t \in Surjection(1 .. Len(t), Entries(t))
      BY <2>5, <3>1, Zenon DEF Surjection, Entries
    <3>3. t \in Injection(1 .. Len(t), Entries(t))
      BY <2>4, <2>5, <3>1, Zenon DEF Injection, IsInjective
    <3> QED
      BY <3>2, <3>3, Zenon DEF Bijection
  <2>7. ExistsBijection(1 .. Len(t), Entries(t))
    BY <2>6, Zenon DEF ExistsBijection
  <2>8. IsFiniteSet(1 .. Len(t)) /\ Cardinality(1 .. Len(t)) = Len(t)
    <3>1. 1 \in Int /\ Len(t) \in Int
      BY <2>5
    <3>2. IsFiniteSet(1 .. Len(t)) /\ Cardinality(1 .. Len(t)) = IF 1 > Len(t) THEN 0 ELSE Len(t) - 1 + 1
      BY <3>1, FS_Interval, Zenon
    <3> QED
      BY <2>5, <3>2
  <2>9. Cardinality(Entries(t)) = Len(t)
    BY <2>7, <2>8, FS_Bijection, Zenon
  <2> QED
    BY <2>3, <2>9, Zenon
<1> QED
  BY <1>1, MapInvariant, PTL

-----------------------------------------------------------------------------
(* The refinement *)

\* The calls as AtomicMap sees them: Keys is not one of its calls.
MapCallOf == [p \in Proc |-> IF call[p] = Scan THEN NoCall ELSE call[p]]

LEMMA CallsAreNotScans ==
  ASSUME NEW c \in Calls
  PROVE  c # Scan /\ c.key \in Key /\ c.val \in Val
BY DEF Calls, Scan

\* What call c does to the map, with its result.
Effect(c, old, r) ==
  \/ c.op = "get" /\ r = old /\ Content' = Content
  \/ /\ c.op \in {"set", "setifnotexist"} /\ old = NoVal /\ r = 1
     /\ Content' = [Content EXCEPT ![c.key] = c.val]
  \/ c.op = "set" /\ old # NoVal /\ r = 0 /\ Content' = [Content EXCEPT ![c.key] = c.val]
  \/ c.op = "setifnotexist" /\ old # NoVal /\ r = 0 /\ Content' = Content
  \/ c.op = "setifexist" /\ old # NoVal /\ r = 1 /\ Content' = [Content EXCEPT ![c.key] = c.val]
  \/ c.op = "setifexist" /\ old = NoVal /\ r = 0 /\ Content' = Content
  \/ c.op = "delete" /\ old # NoVal /\ r = 1 /\ Content' = [Content EXCEPT ![c.key] = NoVal]
  \/ c.op = "delete" /\ old = NoVal /\ r = 0 /\ Content' = Content

\* A call of one key takes effect.
LEMMA Takes ==
  ASSUME MapTypeOK, NEW p \in Proc, NEW c \in Calls, call[p] = c, ret[p] = <<>>, call' = call,
         NEW r, ret' = [ret EXCEPT ![p] = <<r>>],
         NEW old, old = Content[c.key],
         Effect(c, old, r)
  PROVE  AsMap!MapDo(p)
<1>1. MapCallOf[p] = c /\ c # NoCall /\ MapCallOf' = MapCallOf
  BY CallsAreNotScans, MapAssumption, Zenon DEF MapCallOf
<1>2. /\ c.op = "get" => ~AsMap!Writes(c)
      /\ c.op = "set" => AsMap!Writes(c)
      /\ c.op = "setifexist" => (AsMap!Writes(c) <=> old # NoVal)
      /\ c.op = "setifnotexist" => (AsMap!Writes(c) <=> old = NoVal)
      /\ c.op = "delete" => ~AsMap!Writes(c)
  BY Zenon DEF AsMap!Writes
<1>3. /\ c.op = "get" => AsMap!Result(c) = old
      /\ c.op \in {"set", "setifnotexist"} => AsMap!Result(c) = (IF old = NoVal THEN 1 ELSE 0)
      /\ c.op \in {"delete", "setifexist"} => AsMap!Result(c) = (IF old # NoVal THEN 1 ELSE 0)
  BY Zenon DEF AsMap!Result, AsMap!Found
<1>4. c.op = "delete" /\ old = NoVal => Content = [Content EXCEPT ![c.key] = NoVal]
  BY CallsAreNotScans, Zenon DEF Content
<1>5. r = AsMap!Result(c)
  BY <1>3, Zenon DEF Effect
<1>6. Content' = IF AsMap!Writes(c) THEN [Content EXCEPT ![c.key] = c.val]
                 ELSE IF c.op = "delete" THEN [Content EXCEPT ![c.key] = NoVal] ELSE Content
  BY <1>2, <1>4, Zenon DEF Effect
<1> QED
  BY <1>1, <1>5, <1>6, ZenonT(60) DEF AsMap!MapDo, MapCallOf

LEMMA ContentSame ==
  ASSUME data' = data
  PROVE  Content' = Content
BY Zenon DEF Content

\* Two shards differ in the value of k alone.
SameBut(new, old, k) == \A m : m # k => Lookup(new, m) = Lookup(old, m)

\* The map after a change of the value of k alone.
LEMMA ContentAfter ==
  ASSUME MapTypeOK, NEW k \in Key, NEW s \in Shard, s = ShardOf[k], NEW new,
         data' = [data EXCEPT ![s] = new], SameBut(new, data[s], k)
  PROVE  Content' = [Content EXCEPT ![k] = Lookup(new, k)]
<1>1. \A t \in Shard : data'[t] = IF t = s THEN new ELSE data[t]
  BY Zenon DEF MapTypeOK
<1>2. \A m \in Key : ShardOf[m] \in Shard
  BY MapAssumption, Zenon DEF Shard
<1>3. ASSUME NEW m \in Key
      PROVE  Lookup(data'[ShardOf[m]], m) = IF m = k THEN Lookup(new, k) ELSE Lookup(data[ShardOf[m]], m)
  <2>1. CASE m = k
    BY <1>1, <1>2, <2>1
  <2>2. CASE m # k /\ ShardOf[m] = s
    BY <1>1, <1>2, <2>2, Zenon DEF SameBut
  <2>3. CASE m # k /\ ShardOf[m] # s
    BY <1>1, <1>2, <2>3
  <2> QED
    BY <2>1, <2>2, <2>3, Zenon
<1>4. Content' = [m \in Key |-> Lookup(data'[ShardOf[m]], m)]
  BY Zenon DEF Content
<1>5. [Content EXCEPT ![k] = Lookup(new, k)]
      = [m \in Key |-> IF m = k THEN Lookup(new, k) ELSE Lookup(data[ShardOf[m]], m)]
  BY Zenon DEF Content
<1> QED
  BY <1>3, <1>4, <1>5, Zenon

\* What Get finds in a shard before and after the writers.
LEMMA LookupIs ==
  ASSUME MapInv, NEW s \in Shard, NEW k \in Key
  PROVE  Lookup(data[s], k) # NoVal <=> Has(data[s], k)
<1>1. data[s] \in Seq(Entry)
  BY Zenon DEF MapInv, MapTypeOK
<1> QED
  BY <1>1, LookupFound, LookupNone, Zenon

LEMMA PutLooksUp ==
  ASSUME MapInv, NEW s \in Shard, NEW k \in Key, NEW v \in Val
  PROVE  /\ Lookup(Put(s, k, v), k) = v
         /\ \A m : m # k => Lookup(Put(s, k, v), m) = Lookup(data[s], m)
<1> PICK e : e = [key |-> k, val |-> v]
  BY Zenon
<1>1. e \in Entry /\ e.key = k /\ e.val = v
  BY Zenon DEF Entry
<1>2. /\ data[s] \in Seq(Entry) /\ kind[s] \in {"list", "tree"} /\ Unique(data[s])
      /\ kind[s] = "tree" => Ordered(data[s])
  BY Zenon DEF MapInv, MapTypeOK, Sound
<1>3. Put(s, k, v) = PutInto(kind[s], data[s], e)
  BY Zenon DEF Put
<1>4. Lookup(PutInto(kind[s], data[s], e), e.key) = e.val
  BY <1>1, <1>2, LookupAfterPut, Zenon
<1>5. \A m : m # e.key => Lookup(PutInto(kind[s], data[s], e), m) = Lookup(data[s], m)
  BY <1>1, <1>2, LookupAfterPut, Zenon
<1> QED
  BY <1>1, <1>3, <1>4, <1>5, Zenon

LEMMA RemoveLooksUp ==
  ASSUME MapInv, NEW s \in Shard, NEW k \in Key, Has(data[s], k)
  PROVE  /\ Lookup(RemoveKey(s, k), k) = NoVal
         /\ \A m : m # k => Lookup(RemoveKey(s, k), m) = Lookup(data[s], m)
<1> PICK new : new = Removed(data[s], NodeOf(data[s], k))
  BY Zenon
<1>1. data[s] \in Seq(Entry) /\ Unique(data[s])
  BY Zenon DEF MapInv, MapTypeOK, Sound
<1>2. new \in Seq(Entry) /\ Unique(new)
  BY <1>1, NodeRemoved, Zenon
<1>3. Entries(new) = Others(data[s], k)
  BY <1>1, NodeRemoved, Zenon
<1>4. Lookup(new, k) = NoVal /\ \A m : m # k => Lookup(new, m) = Lookup(data[s], m)
  BY <1>1, <1>2, <1>3, LookupAfterRemove
<1> QED
  BY <1>4, Zenon DEF RemoveKey, Removed

\* A writer takes effect when it changes its shard.
LEMMA WriteTakes ==
  ASSUME MapInv, NEW p \in Proc, Write(p)
  PROVE  AsMap!MapDo(p)
<1> PICK c : c = call[p]
  BY Zenon
<1> PICK k : k = c.key
  BY Zenon
<1> PICK v : v = c.val
  BY Zenon
<1> PICK s : s = ShardOf[k]
  BY Zenon
<1>1. /\ pc[p] \in {"called", "recheck"} /\ c \in Calls /\ k \in Key /\ v \in Val /\ s \in Shard
  BY Written, Zenon
<1>2. PICK new : \E change \in {-1, 0, 1} : \E result \in {0, 1} :
        Writing(p, s, k, v, new, change, result) /\ Change(p, s, new, change, result)
  BY Written
<1>3. PICK change \in {-1, 0, 1} : \E result \in {0, 1} :
        Writing(p, s, k, v, new, change, result) /\ Change(p, s, new, change, result)
  BY <1>2, Zenon
<1>4. PICK result \in {0, 1} :
        Writing(p, s, k, v, new, change, result) /\ Change(p, s, new, change, result)
  BY <1>3, Zenon
<1>5. MapTypeOK /\ ret[p] = <<>>
  BY <1>1, Zenon DEF MapInv, Phase
<1>6. data' = [data EXCEPT ![s] = new] /\ ret' = [ret EXCEPT ![p] = <<result>>] /\ call' = call
  BY <1>4, Zenon DEF Change
<1> PICK old : old = Content[k]
  BY Zenon
<1>7. old # NoVal <=> Has(data[s], k)
  <2>1. old = Lookup(data[s], k)
    BY <1>1, Zenon DEF Content
  <2> QED
    BY <1>1, <2>1, LookupIs, Zenon
<1>8. ASSUME new = Put(s, k, v) PROVE Content' = [Content EXCEPT ![k] = v]
  <2>1. Lookup(new, k) = v
    BY <1>1, <1>8, PutLooksUp, ZenonT(60)
  <2>2. SameBut(new, data[s], k)
    BY <1>1, <1>8, PutLooksUp DEF SameBut
  <2>3. Content' = [Content EXCEPT ![k] = Lookup(new, k)]
    BY <1>1, <1>5, <1>6, <2>2, ContentAfter, Zenon
  <2> QED
    BY <2>1, <2>3, ZenonT(60)
<1>9. ASSUME Has(data[s], k), new = RemoveKey(s, k) PROVE Content' = [Content EXCEPT ![k] = NoVal]
  <2>1. Lookup(new, k) = NoVal
    BY <1>1, <1>9, RemoveLooksUp, ZenonT(60)
  <2>2. SameBut(new, data[s], k)
    BY <1>1, <1>9, RemoveLooksUp, ZenonT(60) DEF SameBut
  <2>3. Content' = [Content EXCEPT ![k] = Lookup(new, k)]
    BY <1>1, <1>5, <1>6, <2>2, ContentAfter, Zenon
  <2> QED
    BY <2>1, <2>3, Zenon
<1>10. new = data[s] => Content' = Content
  <2> SUFFICES ASSUME new = data[s] PROVE data' = data
    BY ContentSame, Zenon
  <2> QED
    BY <1>1, <1>5, <1>6, ZenonT(60) DEF MapTypeOK
<1>11. Effect(c, old, result)
  BY <1>4, <1>7, <1>8, <1>9, <1>10, ZenonT(60) DEF Writing, Effect
<1> QED
  BY <1>1, <1>5, <1>6, <1>11, Takes, ZenonT(60)

LEMMA GetTakes ==
  ASSUME MapInv, NEW p \in Proc, Get(p)
  PROVE  AsMap!MapDo(p)
<1> PICK c : c = call[p]
  BY Zenon
<1>1. Starts(p, {"get"}, "called")
  BY Zenon DEF Get
<1>2. pc[p] = "called" /\ c \in Calls /\ c.op = "get" /\ c.key \in Key
  BY <1>1, Started, Zenon
<1>3. MapTypeOK /\ ret[p] = <<>>
  BY <1>2, Zenon DEF MapInv, Phase
<1>4. /\ ret' = [ret EXCEPT ![p] = <<Lookup(data[ShardOf[c.key]], c.key)>>] /\ call' = call
      /\ data' = data
  BY Zenon DEF Get, Finish, shardVars
<1>5. Content[c.key] = Lookup(data[ShardOf[c.key]], c.key) /\ Content' = Content
  BY <1>2, <1>4, ContentSame, ZenonT(60) DEF Content
<1>6. Effect(c, Content[c.key], Lookup(data[ShardOf[c.key]], c.key))
  BY <1>2, <1>5, ZenonT(60) DEF Effect
<1> QED
  BY <1>2, <1>3, <1>4, <1>6, Takes, ZenonT(60)

\* The first look of SetIfNotExist takes effect when it finds the key.
LEMMA CheckFirstTakes ==
  ASSUME MapInv, NEW p \in Proc, CheckFirst(p)
  PROVE  AsMap!MapDo(p) \/ UNCHANGED <<data, call, ret>>
<1> PICK c : c = call[p]
  BY Zenon
<1>1. Starts(p, {"setifnotexist"}, "called") /\ call' = call /\ data' = data
  BY Zenon DEF CheckFirst, shardVars
<1>2. /\ pc[p] = "called" /\ c \in Calls /\ c.op = "setifnotexist" /\ c.key \in Key
      /\ ShardOf[c.key] \in Shard
  BY <1>1, Started, Zenon
<1>3. MapTypeOK /\ ret[p] = <<>>
  BY <1>2, Zenon DEF MapInv, Phase
<1>4. \/ Has(data[ShardOf[c.key]], c.key) /\ ret' = [ret EXCEPT ![p] = <<0>>]
      \/ ret' = ret
  BY Zenon DEF CheckFirst, Finish
<1>5. Content[c.key] = Lookup(data[ShardOf[c.key]], c.key) /\ Content' = Content
  BY <1>1, <1>2, ContentSame, ZenonT(60) DEF Content
<1>6. CASE Has(data[ShardOf[c.key]], c.key) /\ ret' = [ret EXCEPT ![p] = <<0>>]
  <2>1. Content[c.key] # NoVal
    BY <1>2, <1>5, <1>6, LookupIs, ZenonT(60)
  <2>2. Effect(c, Content[c.key], 0)
    BY <1>2, <1>5, <2>1, Zenon DEF Effect
  <2> QED
    BY <1>1, <1>2, <1>3, <1>6, <2>2, Takes, ZenonT(60)
<1>7. CASE ret' = ret
  BY <1>1, <1>7, Zenon
<1> QED
  BY <1>4, <1>6, <1>7, Zenon

\* A conversion changes no value that Get finds.
LEMMA ConvertHides ==
  ASSUME MapInv, NEW p \in Proc, Convert(p)
  PROVE  Content' = Content /\ call' = call /\ ret' = ret
<1> PICK s : s = ShardOf[call[p].key]
  BY Zenon
<1>1. s \in Shard /\ ShardStep(p, s)
  BY Converted, Zenon
<1>2. data'[s] \in Seq(Entry) /\ Unique(data'[s])
  BY Converted, Zenon
<1>3. Entries(data'[s]) = Entries(data[s])
  BY Converted, Zenon
<1>4. data[s] \in Seq(Entry) /\ Unique(data[s]) /\ MapTypeOK
  BY <1>1, ZenonT(60) DEF MapInv, MapTypeOK, Sound
<1>5. \A m : Lookup(data'[s], m) = Lookup(data[s], m)
  BY <1>2, <1>3, <1>4, LookupAgrees, ZenonT(60)
<1>6. \A t \in Shard : t # s => data'[t] = data[t]
  BY <1>1, <1>4, Zenon DEF ShardStep, MapTypeOK
<1>7. \A m \in Key : Lookup(data'[ShardOf[m]], m) = Lookup(data[ShardOf[m]], m)
  BY <1>5, <1>6, MapAssumption, Zenon DEF Shard
<1>8. Content' = Content
  BY <1>7, Zenon DEF Content
<1> QED
  BY <1>8, Zenon DEF Convert

LEMMA CallMaps ==
  ASSUME MapInv, NEW p \in Proc, NEW c \in Calls \cup {Scan}, Call(p, c)
  PROVE  (c \in Calls /\ AsMap!MapCall(p, c)) \/ UNCHANGED <<data, MapCallOf, ret>>
<1>1. pc[p] = "idle" /\ call' = [call EXCEPT ![p] = c] /\ data' = data /\ ret' = ret
  BY Zenon DEF Call, shardVars
<1>2. MapTypeOK /\ call[p] = NoCall
  BY <1>1, Zenon DEF MapInv, Phase
<1>3. MapCallOf[p] = NoCall
  BY <1>2, Zenon DEF MapCallOf
<1>4. CASE c = Scan
  <2>1. \A q \in Proc : MapCallOf'[q] = MapCallOf[q]
    BY <1>1, <1>2, <1>4, Zenon DEF MapCallOf, MapTypeOK
  <2>2. MapCallOf' = MapCallOf
    BY <2>1, Zenon DEF MapCallOf
  <2> QED
    BY <1>1, <2>2, Zenon
<1>5. CASE c \in Calls
  <2>1. c # Scan
    BY <1>5, CallsAreNotScans, Zenon
  <2>2. MapCallOf' = [MapCallOf EXCEPT ![p] = c]
    BY <1>1, <1>2, <2>1, Zenon DEF MapCallOf, MapTypeOK
  <2>3. Content' = Content
    BY <1>1, ContentSame, Zenon
  <2> QED
    BY <1>1, <1>3, <1>5, <2>2, <2>3, ZenonT(60) DEF AsMap!MapCall, MapCallOf
<1> QED
  BY <1>4, <1>5, Zenon

LEMMA ReturnMaps ==
  ASSUME MapInv, NEW p \in Proc, Return(p)
  PROVE  AsMap!MapReturn(p) \/ UNCHANGED <<data, MapCallOf, ret>>
<1>1. /\ pc[p] = "done" /\ call' = [call EXCEPT ![p] = NoCall] /\ ret' = [ret EXCEPT ![p] = <<>>]
      /\ data' = data
  BY Zenon DEF Return, shardVars
<1>2. MapTypeOK /\ Phase(p) /\ call[p] # NoCall
  BY <1>1, Zenon DEF MapInv, Phase
<1>3. CASE call[p] = Scan
  <2>1. ret[p] = <<>>
    BY <1>2, <1>3, Zenon DEF Phase
  <2>2. ret' = ret
    BY <1>1, <1>2, <2>1, Zenon DEF MapTypeOK
  <2>3. \A q \in Proc : MapCallOf'[q] = MapCallOf[q]
    BY <1>1, <1>2, <1>3, Zenon DEF MapCallOf, MapTypeOK
  <2>4. MapCallOf' = MapCallOf
    BY <2>3, Zenon DEF MapCallOf
  <2> QED
    BY <1>1, <2>2, <2>4, Zenon
<1>4. CASE call[p] # Scan
  <2>1. ret[p] # <<>> /\ MapCallOf[p] # NoCall
    BY <1>1, <1>2, <1>4, Zenon DEF Phase, MapCallOf
  <2>2. MapCallOf' = [MapCallOf EXCEPT ![p] = NoCall]
    BY <1>1, <1>2, MapAssumption, Zenon DEF MapCallOf, MapTypeOK
  <2>3. Content' = Content
    BY <1>1, ContentSame, Zenon
  <2> QED
    BY <1>1, <2>1, <2>2, <2>3, Zenon DEF AsMap!MapReturn, MapCallOf
<1> QED
  BY <1>3, <1>4, Zenon

\* Every call of Set, Get, Delete, SetIfExist and SetIfNotExist takes effect in one
\* step between its call and its return, whatever the other goroutines do and
\* whichever shards are converted meanwhile.
THEOREM MapIsAtomic == MapSpec => ImplementsMap
<1>1. MapInit => AsMap!MapInit
  <2> SUFFICES ASSUME MapInit PROVE AsMap!MapInit
    BY Zenon
  <2>1. \A k \in Key : data[ShardOf[k]] = <<>>
    BY MapAssumption, Zenon DEF MapInit, Shard
  <2>2. \A k \in Key : Lookup(data[ShardOf[k]], k) = NoVal
    BY <2>1 DEF Lookup, Has
  <2>3. Content = [k \in Key |-> NoVal]
    BY <2>2, Zenon DEF Content
  <2>4. MapCallOf = [p \in Proc |-> NoCall] /\ ret = [p \in Proc |-> <<>>]
    BY Zenon DEF MapInit, MapCallOf
  <2> QED
    BY <2>3, <2>4, Zenon DEF AsMap!MapInit, MapCallOf
<1>2. MapInv /\ [MapNext]_vars => [AsMap!MapNext(AsMap!MapCalls)]_(AsMap!mapVars)
  <2> SUFFICES ASSUME MapInv, [MapNext]_vars
               PROVE  AsMap!MapNext(AsMap!MapCalls) \/ UNCHANGED <<Content, MapCallOf, ret>>
    BY Zenon DEF AsMap!mapVars, MapCallOf
  <2>1. data' = data => Content' = Content
    BY ContentSame, Zenon
  <2>2. call' = call => MapCallOf' = MapCallOf
    BY Zenon DEF MapCallOf
  <2>3. CASE UNCHANGED vars
    BY <2>1, <2>2, <2>3, Zenon DEF vars, shardVars
  <2>4. ASSUME NEW p \in Proc, AsMap!MapDo(p) \/ AsMap!MapReturn(p) PROVE AsMap!MapNext(AsMap!MapCalls)
    BY <2>4, Zenon DEF AsMap!MapNext
  <2>5. ASSUME NEW p \in Proc, MapStep(p)
        PROVE  AsMap!MapNext(AsMap!MapCalls) \/ UNCHANGED <<Content, MapCallOf, ret>>
    <3>1. CASE Get(p)
      BY <2>4, <3>1, GetTakes, Zenon
    <3>2. CASE CheckFirst(p)
      BY <2>1, <2>2, <2>4, <3>2, CheckFirstTakes, ZenonT(60)
    <3>3. CASE Write(p)
      BY <2>4, <3>3, WriteTakes, Zenon
    <3>4. CASE AddCount(p)
      BY <2>1, <2>2, <3>4, Zenon DEF AddCount, shardVars
    <3>5. CASE Convert(p)
      BY <2>2, <3>5, ConvertHides, Zenon
    <3>6. CASE KeysStart(p)
      BY <2>1, <2>2, <3>6, Zenon DEF KeysStart, shardVars
    <3>7. CASE KeysShard(p)
      BY <2>1, <2>2, <3>7, Zenon DEF KeysShard, shardVars
    <3>8. CASE KeysReturns(p)
      BY <2>1, <2>2, <3>8, Zenon DEF KeysReturns, shardVars
    <3>9. CASE Return(p)
      BY <2>1, <2>4, <3>9, ReturnMaps, Zenon
    <3> QED
      BY <2>5, <3>1, <3>2, <3>3, <3>4, <3>5, <3>6, <3>7, <3>8, <3>9, ZenonT(60) DEF MapStep, Write
  <2>6. ASSUME NEW p \in Proc, NEW c \in Calls \cup {Scan}, Call(p, c)
        PROVE  AsMap!MapNext(AsMap!MapCalls) \/ UNCHANGED <<Content, MapCallOf, ret>>
    <3>1. AsMap!MapCalls = Calls
      BY Zenon DEF AsMap!MapCalls, Calls
    <3> QED
      BY <2>1, <2>6, <3>1, CallMaps DEF AsMap!MapNext
  <2> QED
    BY <2>3, <2>5, <2>6, Zenon DEF MapNext
<1> QED
  BY <1>1, <1>2, MapInvariant, PTL DEF MapSpec, ImplementsMap, AsMap!Map
=============================================================================
