---------------------------- MODULE SetDbProofs ----------------------------
(***************************************************************************)
(* Proofs about the set commands (module SetDb): their locks are released, *)
(* only SMOVE leaves an empty set in the map, and only SUNIONSTORE puts a  *)
(* set in the place of a string.                                           *)
(*                                                                         *)
(* The inductive invariant says what a client holds and has still to do at *)
(* each point of its handler.                                              *)
(***************************************************************************)
EXTENDS SetDb, TLAPS

-----------------------------------------------------------------------------
(* The inductive invariant *)

Labels == {"idle", "check", "expired", "peek", "body", "run", "gather", "recheck", "redelete",
           "store", "unlocked", "overwrite", "done", "dead"}

IsValue(v) == v = None \/ v = Str \/ v = SetVal(v.m)

SetTypes ==
  /\ DOMAIN db = Key /\ \A k \in Key : IsValue(db[k])
  /\ due \in SUBSET Key /\ doomed \in SUBSET Key /\ passed \in Nat /\ loose \in BOOLEAN
  /\ pc \in [Proc -> Labels] /\ cmd \in [Proc -> Command \cup {NoCommand}]
  /\ idx \in [Proc -> Nat] /\ kept \in [Proc -> Seq(Key)]
  /\ DOMAIN vals = Proc /\ DOMAIN result = Proc /\ DOMAIN todo = Proc /\ DOMAIN reply = Proc
  /\ heldKeys \in [Proc -> SUBSET Key] /\ heldMode \in [Proc -> {"none", "r", "w"}]

\* Two clients have a key in common only as readers.
Excl ==
  \A c, d \in Proc :
    c # d /\ heldKeys[c] \cap heldKeys[d] # {} => heldMode[c] = "r" /\ heldMode[d] = "r"

\* Where c holds locks, and which.
Holds(c) ==
  /\ heldMode[c] = "w" <=> pc[c] = "run"
  /\ heldMode[c] = "r" => pc[c] = "gather" \/ (pc[c] = "dead" /\ cmd[c].op = "sinterstore")
  /\ pc[c] = "gather" => heldMode[c] = "r" /\ heldKeys[c] = KeySet(kept[c])
  /\ heldMode[c] = "none" => heldKeys[c] = {}

\* The accesses to k that a section may have left.
Left(k, s) ==
  \/ s = <<DelTTL(k)>>
  \/ s = <<Set(k, Str), DelTTL(k)>>
  \/ s = <<Delete(k), DelTTL(k)>> /\ db[k] # Str
  \/ s = <<Set(k, SetVal(s[1].v.m))>> /\ s[1].v.m # {} /\ db[k] # Str

Runs(c) ==
  IF pc[c] = "run" THEN \E k \in heldKeys[c] : Left(k, todo[c]) ELSE todo[c] = <<>>

\* What c knows of its command at the points of the handler.
At(c) ==
  /\ pc[c] = "idle" <=> cmd[c] = NoCommand
  /\ pc[c] \in {"check", "expired"} => idx[c] \in 1..Len(cmd[c].keys)
  /\ pc[c] = "peek" => idx[c] = 1
  /\ pc[c] = "gather" => cmd[c].op \in MultiOps
  /\ pc[c] \in {"peek", "recheck", "redelete", "store"} => cmd[c].op \in StoreOps
  /\ pc[c] \in {"unlocked", "overwrite"} => cmd[c].op = "sunionstore"
  /\ pc[c] = "overwrite" => result[c] # {}

SetInv == SetTypes /\ Excl /\ \A c \in Proc : Holds(c) /\ Runs(c) /\ At(c)

-----------------------------------------------------------------------------
(* What the handlers of one key, and SMOVE, make of the map *)

\* The new value of the key of a command other than SMOVE.
Fits(op, old, new) ==
  \/ op # "del" /\ new = old
  \/ op = "del" /\ new = None
  \/ op = "set" /\ ~IsSet(old) /\ new = Str
  \/ op = "sadd" /\ old # Str /\ new = SetVal(new.m) /\ new.m # {}
  \/ op \in {"srem", "spop"} /\ IsSet(old) /\ (new = None \/ (new = SetVal(new.m) /\ new.m # {}))

\* The map of a command other than SMOVE.
Fitting(m, command, n) ==
  /\ DOMAIN n = DOMAIN m
  /\ \A j \in DOMAIN m : j # command.keys[1] => n[j] = m[j]
  /\ Fits(command.op, m[command.keys[1]], n[command.keys[1]])

\* The map of SMOVE.
Moved(m, command, n) ==
  LET src == command.keys[1]
      des == command.keys[2]
  IN \/ n = m
     \/ /\ DOMAIN n = DOMAIN m
        /\ \A j \in DOMAIN m : j \notin {src, des} => n[j] = m[j]
        /\ IsSet(m[src]) /\ n[src] = SetVal(n[src].m)
        /\ m[des] # Str /\ n[des] = SetVal(n[des].m) /\ n[des].m # {}

\* Deletion of an emptied set.
LEMMA OrDeletedFits ==
  ASSUME NEW old, NEW T, NEW op \in {"srem", "spop"}, IsSet(old)
  PROVE  Fits(op, old, OrDeleted(T))
  BY Zenon DEF Fits, OrDeleted, SetVal, None

\* The handlers that only read leave the map alone.
LEMMA ReadersKeep ==
  ASSUME NEW m, NEW k, NEW absent, NEW R, NEW o \in OnSet(m, k, absent, R),
         \A r \in R : r.map = m
  PROVE  o.map = m
  BY DEF OnSet, Outcome

\* SREM and SPOP leave the map alone or their set without some members.
LEMMA RemoversFit ==
  ASSUME NEW m, NEW k \in DOMAIN m, NEW absent, NEW R, NEW o \in OnSet(m, k, absent, R),
         \A r \in R : r.map = m \/ \E T : r.map = [m EXCEPT ![k] = OrDeleted(T)]
  PROVE  o.map = m \/ (IsSet(m[k]) /\ \E T : o.map = [m EXCEPT ![k] = OrDeleted(T)])
  BY DEF OnSet, Outcome

LEMMA CommandKeys ==
  ASSUME NEW command \in Command
  PROVE  /\ command.keys \in Seq(Key) /\ Len(command.keys) \in Nat \ {0}
         /\ command.keys[1] \in Key
         /\ command.op = "smove" => Len(command.keys) = 2 /\ command.keys[2] \in Key
         /\ command.op \notin MultiOps \cup {"smove"} => Len(command.keys) = 1
         /\ command.op \in StoreOps => Len(command.keys) >= 2
  BY SetCommandAssumption

\* Every handler of one key fits.
LEMMA OutcomesFit ==
  ASSUME NEW command \in Command, command.op \notin MultiOps \cup {"smove"},
         NEW m, DOMAIN m = Key, \A k \in Key : IsValue(m[k]),
         NEW o \in Outcomes(m, command)
  PROVE  Fitting(m, command, o.map)
<1> DEFINE op == command.op
           k == command.keys[1]
           x == CHOOSE y \in command.args : TRUE
<1>1. k \in Key
  BY CommandKeys, Zenon
<1>2. ASSUME o.map = m, op # "del"  PROVE Fitting(m, command, o.map)
  BY <1>1, <1>2, Zenon DEF Fitting, Fits
<1>3. ASSUME NEW v, o.map = [m EXCEPT ![k] = v], Fits(op, m[k], v)
      PROVE  Fitting(m, command, o.map)
  BY <1>1, <1>3, Zenon DEF Fitting
<1>4. CASE op = "set"
  <2>1. o \in IF IsSet(m[k]) THEN {Outcome(WrongType, m)} ELSE {Outcome(Ok, [m EXCEPT ![k] = Str])}
    BY <1>4, Zenon DEF Outcomes
  <2>2. CASE IsSet(m[k])
    BY <1>2, <1>4, <2>1, <2>2 DEF Outcome
  <2>3. CASE ~IsSet(m[k])
    <3>1. o.map = [m EXCEPT ![k] = Str]
      BY <2>1, <2>3 DEF Outcome
    <3>2. Fits(op, m[k], Str)
      BY <1>4, <2>3, Zenon DEF Fits
    <3> QED
      BY <1>3, <3>1, <3>2, Zenon
  <2> QED
    BY <2>2, <2>3, Zenon
<1>5. CASE op = "del"
  <2>1. o.map = [m EXCEPT ![k] = None]
    BY <1>5 DEF Outcomes, Outcome
  <2>2. Fits(op, m[k], None)
    BY <1>5, Zenon DEF Fits
  <2> QED
    BY <1>3, <2>1, <2>2, Zenon
<1>6. CASE op = "sadd"
  <2>1. o \in SAdd(m, k, command.args)
    BY <1>6, Zenon DEF Outcomes
  <2>2. CASE m[k] = Str
    BY <1>2, <1>6, <2>1, <2>2 DEF SAdd, Outcome
  <2>3. CASE m[k] # Str
    <3> DEFINE T == m[k].m \cup command.args
    <3>1. o.map = [m EXCEPT ![k] = SetVal(T)]
      BY <2>1, <2>3 DEF SAdd, Outcome
    <3>2. T # {}
      BY <1>6, SetCommandAssumption, Zenon
    <3>3. Fits(op, m[k], SetVal(T))
      <4> HIDE DEF T
      <4> QED
        BY <1>6, <2>3, <3>2, Zenon DEF Fits, SetVal
    <3> QED
      BY <1>3, <3>1, <3>3, Zenon
  <2> QED
    BY <2>2, <2>3, Zenon
<1>7. CASE op \in {"srem", "spop"}
  <2>1. PICK absent, R : /\ o \in OnSet(m, k, absent, R)
                         /\ \A r \in R : r.map = m \/ \E T : r.map = [m EXCEPT ![k] = OrDeleted(T)]
    <3>1. CASE op = "srem"
      <4> DEFINE R == {Outcome(Number(Cardinality(m[k].m \cap command.args)),
                               [m EXCEPT ![k] = OrDeleted(m[k].m \ command.args)])}
      <4>1. o \in OnSet(m, k, Number(0), R)
        BY <3>1, Zenon DEF Outcomes, SRem
      <4>2. \A r \in R : \E T : r.map = [m EXCEPT ![k] = OrDeleted(T)]
        BY DEF Outcome
      <4> HIDE DEF R
      <4> QED
        BY <4>1, <4>2, Zenon
    <3>2. CASE op = "spop"
      <4> DEFINE P == Pops(m[k].m, command.n)
                 R == IF command.n = 0 THEN {Outcome(Members({}), m)}
                      ELSE {Outcome(Members(p.given), [m EXCEPT ![k] = OrDeleted(m[k].m \ p.taken)]) :
                              p \in P}
      <4>1. o \in OnSet(m, k, Nil, R)
        BY <3>2, Zenon DEF Outcomes, SPop
      <4> HIDE DEF P
      <4>2. ASSUME NEW r \in R
            PROVE  r.map = m \/ \E T : r.map = [m EXCEPT ![k] = OrDeleted(T)]
        <5>1. CASE command.n = 0
          BY <5>1 DEF Outcome
        <5>2. CASE command.n # 0
          <6>1. PICK p \in P :
                  r = Outcome(Members(p.given), [m EXCEPT ![k] = OrDeleted(m[k].m \ p.taken)])
            BY <5>2, Zenon
          <6>2. r.map = [m EXCEPT ![k] = OrDeleted(m[k].m \ p.taken)]
            BY <6>1, Zenon DEF Outcome
          <6> QED
            BY <6>2, Zenon
        <5> QED
          BY <5>1, <5>2, Zenon
      <4> HIDE DEF R
      <4> QED
        BY <4>1, <4>2, Zenon
    <3> QED
      BY <1>7, <3>1, <3>2, Zenon
  <2>2. o.map = m \/ (IsSet(m[k]) /\ \E T : o.map = [m EXCEPT ![k] = OrDeleted(T)])
    BY <1>1, <2>1, RemoversFit
  <2>3. CASE o.map = m
    BY <1>2, <1>7, <2>3, Zenon
  <2>4. ASSUME NEW T, IsSet(m[k]), o.map = [m EXCEPT ![k] = OrDeleted(T)]
        PROVE  Fitting(m, command, o.map)
    <3>1. Fits(op, m[k], OrDeleted(T))
      BY <1>7, <2>4, OrDeletedFits
    <3> QED
      BY <1>3, <2>4, <3>1, Zenon
  <2> QED
    BY <2>2, <2>3, <2>4, Zenon
<1>8. CASE op \notin {"set", "del", "sadd", "srem", "spop"}
  <2>1. o.map = m
    <3>1. CASE op = "scard"
      BY <3>1, ReadersKeep DEF Outcomes, SCard, Outcome
    <3>2. CASE op = "sismember"
      BY <3>2, ReadersKeep DEF Outcomes, SIsMember, Outcome
    <3>3. CASE op = "smembers"
      BY <3>3, ReadersKeep DEF Outcomes, SMembers, Outcome
    <3>4. CASE op = "srandmember"
      BY <3>4, ReadersKeep DEF Outcomes, SRandMember, Outcome
    <3>5. CASE op \notin {"scard", "sismember", "smembers", "srandmember"}
      BY <1>8, <3>5 DEF Outcomes, ReadSeveral, Outcome
    <3> QED
      BY <3>1, <3>2, <3>3, <3>4, <3>5, Zenon
  <2> QED
    BY <1>2, <1>8, <2>1, Zenon
<1> QED
  BY <1>4, <1>5, <1>6, <1>7, <1>8, Zenon

\* SMOVE changes its two keys at most, and its destination gets a member.
LEMMA SMoveMoves ==
  ASSUME NEW command \in Command, command.op = "smove",
         NEW m, DOMAIN m = Key, \A k \in Key : IsValue(m[k]),
         NEW o \in Outcomes(m, command)
  PROVE  Moved(m, command, o.map)
<1> DEFINE src == command.keys[1]
           des == command.keys[2]
           x == CHOOSE y \in command.args : TRUE
           taken == [m EXCEPT ![src] = SetVal(@.m \ {x})]
           both == [taken EXCEPT ![des] = SetVal(@.m \cup {x})]
<1>1. src \in Key /\ des \in Key
  BY CommandKeys, Zenon
<1>2. o \in SMove(m, src, des, x)
  BY Zenon DEF Outcomes
<1>3. \/ o.map = m
      \/ m[src] # None /\ Str \notin {m[src], m[des]} /\ o.map = both
  <2>1. CASE m[src] = None \/ Str \in {m[src], m[des]} \/ x \notin m[src].m
    <3> HIDE DEF x
    <3>1. o = Outcome(Number(0), m) \/ o = Outcome(WrongType, m)
      BY <1>2, <2>1, Zenon DEF SMove
    <3> QED
      BY <3>1 DEF Outcome
  <2>2. CASE ~(m[src] = None \/ Str \in {m[src], m[des]} \/ x \notin m[src].m)
    <3>1. o = Outcome(Number(1), both)
      <4> HIDE DEF x
      <4> QED
        BY <1>2, <2>2, Zenon DEF SMove
    <3> HIDE DEF both
    <3>2. o.map = both
      BY <3>1, Zenon DEF Outcome
    <3> QED
      BY <2>2, <3>2, Zenon
  <2> QED
    BY <2>1, <2>2, Zenon
<1>4. CASE o.map = m
  BY <1>4, Zenon DEF Moved
<1>5. CASE m[src] # None /\ Str \notin {m[src], m[des]} /\ o.map = both
  <2> HIDE DEF x
  <2>1. m[src] = SetVal(m[src].m)
    BY <1>1, <1>5, Zenon DEF IsValue
  <2>2. IsSet(m[src]) /\ m[des] # Str
    BY <1>5, <2>1 DEF IsSet, SetVal
  <2>3. DOMAIN both = Key
    BY Zenon
  <2>4. both[des] = SetVal(taken[des].m \cup {x})
    BY <1>1, Zenon
  <2>5. both[des].m = taken[des].m \cup {x}
    BY <2>4 DEF SetVal
  <2>6. both[des].m # {} /\ both[des] = SetVal(both[des].m)
    BY <2>4, <2>5, Zenon
  <2>7. both[src] = SetVal(both[src].m)
    <3>1. CASE src = des
      BY <3>1, <2>6, Zenon
    <3>2. CASE src # des
      <4>0. taken[src] = SetVal(m[src].m \ {x}) /\ DOMAIN taken = Key
        BY <1>1, Zenon
      <4>1. both[src] = SetVal(m[src].m \ {x})
        <5> HIDE DEF taken
        <5> QED
          BY <1>1, <3>2, <4>0, Zenon
      <4> HIDE DEF both
      <4> QED
        BY <4>1 DEF SetVal
    <3> QED
      BY <3>1, <3>2, Zenon
  <2>8. \A j \in Key : j \notin {src, des} => both[j] = m[j]
    BY <1>1, Zenon
  <2> HIDE DEF both
  <2> QED
    BY <1>5, <2>2, <2>3, <2>6, <2>7, <2>8, Zenon DEF Moved
<1> QED
  BY <1>3, <1>4, <1>5, Zenon

-----------------------------------------------------------------------------
(* The first step of such a handler *)

\* What Body makes of its only key, old becoming new in the end: the accesses
\* that are left, and the value in the map before them.
Leaves(op, k, old, new, left, now) ==
  \/ left = <<>> /\ now = old /\ new = old
  \/ left = <<>> /\ now = new /\ IsSet(old) /\ new = SetVal(new.m) /\ new.m # {}
  \/ op = "del" /\ left = <<DelTTL(k)>> /\ now = None /\ new = None
  \/ op = "set" /\ left = <<Set(k, Str), DelTTL(k)>> /\ now = old /\ ~IsSet(old) /\ new = Str
  \/ left = <<Delete(k), DelTTL(k)>> /\ now = SetVal({}) /\ IsSet(old) /\ new = None
  \/ left = <<Set(k, new)>> /\ now = old /\ old = None /\ new = SetVal(new.m) /\ new.m # {}

\* The last key of a command: the only one, or the destination of SMOVE.
Target(command) == command.keys[Len(command.keys)]

\* The source of SMOVE, which it changes too.
IsSource(command, j) == command.op = "smove" /\ command.keys[1] = j

ReadOps == {"scard", "sismember", "smembers", "srandmember"}

LEMMA FitsLeaves ==
  ASSUME NEW c \in Proc, cmd[c].op \notin MultiOps, NEW m,
         NEW k, k = Target(cmd[c]), k \in Key, IsValue(db[k]),
         \/ Fits(cmd[c].op, db[k], m[k])
         \/ cmd[c].op = "smove" /\ m[k] = db[k]
         \/ cmd[c].op = "smove" /\ db[k] # Str /\ m[k] = SetVal(m[k].m) /\ m[k].m # {}
  PROVE  Leaves(cmd[c].op, k, db[k], m[k], Later(c, m), InPlace(c, m)[k])
<1> DEFINE op == cmd[c].op
<1>1. InPlace(c, m)[k] =
            IF op = "del" THEN m[k] ELSE IF ~IsSet(db[k]) THEN db[k]
            ELSE IF m[k] = None THEN SetVal({}) ELSE m[k]
  BY Zenon DEF InPlace
<1>2. Later(c, m) = IF op = "del" THEN <<DelTTL(k)>>
                    ELSE IF m[k] = Str /\ op = "set" THEN <<Set(k, Str), DelTTL(k)>>
                    ELSE IF db[k] # None /\ m[k] = None THEN <<Delete(k), DelTTL(k)>>
                    ELSE IF db[k] = None /\ m[k] # None THEN <<Set(k, m[k])>>
                    ELSE <<>>
  BY Zenon DEF Later, Target
<1>3. /\ ~IsSet(None) /\ ~IsSet(Str) /\ \A S : IsSet(SetVal(S))
      /\ None # Str /\ \A S : SetVal(S) # None /\ SetVal(S) # Str
  BY Zenon DEF IsSet, None, Str, SetVal
<1>4. db[k] = None \/ db[k] = Str \/ db[k] = SetVal(db[k].m)
  BY Zenon DEF IsValue
<1>5. CASE m[k] = db[k] /\ op # "del"
  BY <1>1, <1>2, <1>3, <1>4, <1>5, Zenon DEF Leaves
<1>6. CASE op = "del" /\ m[k] = None
  BY <1>1, <1>2, <1>6, Zenon DEF Leaves
<1>7. CASE op = "set" /\ ~IsSet(db[k]) /\ m[k] = Str
  BY <1>1, <1>2, <1>7, Zenon DEF Leaves
<1>8. CASE op \in {"sadd", "smove", "srem", "spop"} /\ db[k] # Str /\ m[k] = SetVal(m[k].m) /\ m[k].m # {}
  BY <1>1, <1>2, <1>3, <1>4, <1>8, Zenon DEF Leaves
<1>9. CASE op \in {"srem", "spop"} /\ IsSet(db[k]) /\ m[k] = None
  BY <1>1, <1>2, <1>3, <1>9, Zenon DEF Leaves
<1> QED
  BY <1>3, <1>5, <1>6, <1>7, <1>8, <1>9, Zenon DEF Fits

\* What Body does to the map and what it leaves to do: only its target may have
\* accesses left, and besides only the source of SMOVE changes.
Touches(c, m) ==
  LET t == Target(cmd[c])
  IN /\ Leaves(cmd[c].op, t, db[t], m[t], Later(c, m), InPlace(c, m)[t])
     /\ \A j \in Key \ {t} :
          /\ InPlace(c, m)[j] = m[j]
          /\ m[j] = db[j] \/ (IsSource(cmd[c], j) /\ IsSet(db[j]) /\ m[j] = SetVal(m[j].m))

\* A handler that takes its lock for reading changes nothing.
ReadsOnly(c, m) ==
  LockMode(c) = "r" => Later(c, m) = <<>> /\ \A j \in Key : InPlace(c, m)[j] = db[j] /\ m[j] = db[j]

LEMMA HasCommand ==
  ASSUME SetInv, NEW c \in Proc, pc[c] # "idle"
  PROVE  cmd[c] \in Command
  BY Zenon DEF SetInv, SetTypes, At

LEMMA BodyTouches ==
  ASSUME SetInv, NEW c \in Proc, pc[c] = "body", cmd[c].op \notin MultiOps,
         NEW o \in Outcomes(db, cmd[c])
  PROVE  /\ Target(cmd[c]) \in Locked(c) /\ Locked(c) \subseteq Key
         /\ \A j \in Key : IsSource(cmd[c], j) => j \in Locked(c)
         /\ Touches(c, o.map) /\ ReadsOnly(c, o.map)
<1> DEFINE command == cmd[c]
           op == cmd[c].op
           t == Target(cmd[c])
           m == o.map
<1>1. command \in Command
  BY HasCommand, Zenon
<1>2. /\ command.keys \in Seq(Key) /\ Len(command.keys) \in Nat \ {0} /\ command.keys[1] \in Key
      /\ op = "smove" => Len(command.keys) = 2 /\ command.keys[2] \in Key
      /\ op # "smove" => Len(command.keys) = 1
  BY <1>1, CommandKeys, Zenon
<1>3. t \in Key /\ t \in Locked(c) /\ Locked(c) \subseteq Key
  BY <1>2 DEF Locked, KeySet, Target
<1>4. \A j \in Key : IsSource(cmd[c], j) => j \in Locked(c)
  BY <1>2 DEF Locked, KeySet, IsSource
<1>5. DOMAIN db = Key /\ \A k \in Key : IsValue(db[k])
  BY Zenon DEF SetInv, SetTypes
<1>6. /\ ~IsSet(None) /\ ~IsSet(Str) /\ \A S : IsSet(SetVal(S))
      /\ None # Str /\ \A S : SetVal(S) # None /\ SetVal(S) # Str
  BY Zenon DEF IsSet, None, Str, SetVal
<1>7. \A j \in Key : InPlace(c, m)[j] = IF op = "del" THEN m[j] ELSE IF ~IsSet(db[j]) THEN db[j]
                                        ELSE IF m[j] = None THEN SetVal({}) ELSE m[j]
  BY Zenon DEF InPlace
<1>8. CASE op # "smove"
  <2>1. Fitting(db, command, m)
    BY <1>1, <1>5, <1>8, OutcomesFit, Zenon
  <2>2. t = command.keys[1]
    BY <1>2, <1>8, Zenon DEF Target
  <2>3. Fits(op, db[t], m[t])
    BY <2>1, <2>2, Zenon DEF Fitting
  <2>4. \A j \in Key \ {t} : m[j] = db[j]
    BY <1>5, <2>1, <2>2, Zenon DEF Fitting
  <2>5. \A j \in Key \ {t} : InPlace(c, m)[j] = m[j]
    BY <1>6, <1>7, <2>4, Zenon
  <2>6. Leaves(op, t, db[t], m[t], Later(c, m), InPlace(c, m)[t])
    BY <1>3, <1>5, <2>3, FitsLeaves, Zenon
  <2>7. Touches(c, m)
    BY <2>4, <2>5, <2>6, Zenon DEF Touches
  <2>8. ASSUME LockMode(c) = "r"
        PROVE  Later(c, m) = <<>> /\ \A j \in Key : InPlace(c, m)[j] = db[j] /\ m[j] = db[j]
    <3>1. op \in ReadOps
      BY <2>8, Zenon DEF LockMode, ReadOps
    <3>2. m[t] = db[t]
      BY <2>3, <3>1, Zenon DEF Fits, ReadOps
    <3>3. Later(c, m) = <<>>
      BY <3>1, <3>2, Zenon DEF Later, ReadOps, Target
    <3>4. InPlace(c, m)[t] = db[t]
      BY <1>3, <1>6, <1>7, <3>1, <3>2, Zenon DEF ReadOps
    <3> QED
      BY <2>4, <2>5, <3>2, <3>3, <3>4, Zenon
  <2> QED
    BY <1>3, <1>4, <2>7, <2>8, Zenon DEF ReadsOnly
<1>9. CASE op = "smove"
  <2>1. Moved(db, command, m)
    BY <1>1, <1>5, <1>9, SMoveMoves, Zenon
  <2>2. t = command.keys[2]
    BY <1>2, <1>9, Zenon DEF Target
  <2>3. \/ m = db
        \/ db[t] # Str /\ m[t] = SetVal(m[t].m) /\ m[t].m # {}
    BY <2>1, <2>2, Zenon DEF Moved
  <2>4. Leaves(op, t, db[t], m[t], Later(c, m), InPlace(c, m)[t])
    BY <1>3, <1>5, <1>9, <2>3, FitsLeaves, Zenon
  <2>5. \A j \in Key \ {t} :
          m[j] = db[j] \/ (IsSource(cmd[c], j) /\ IsSet(db[j]) /\ m[j] = SetVal(m[j].m))
    BY <1>5, <1>9, <2>1, <2>2, Zenon DEF Moved, IsSource
  <2>6. \A j \in Key \ {t} : InPlace(c, m)[j] = m[j]
    BY <1>6, <1>7, <1>9, <2>5, Zenon
  <2>7. LockMode(c) # "r"
    BY <1>9, Zenon DEF LockMode
  <2> QED
    BY <1>3, <1>4, <2>4, <2>5, <2>6, <2>7, Zenon DEF ReadsOnly, Touches
<1> QED
  BY <1>8, <1>9, Zenon

-----------------------------------------------------------------------------
(* Steps of one client leave the others alone *)

Same(d) ==
  /\ pc'[d] = pc[d] /\ cmd'[d] = cmd[d] /\ idx'[d] = idx[d] /\ kept'[d] = kept[d]
  /\ vals'[d] = vals[d] /\ result'[d] = result[d] /\ todo'[d] = todo[d] /\ reply'[d] = reply[d]
  /\ heldKeys'[d] = heldKeys[d] /\ heldMode'[d] = heldMode[d]

\* No key that others hold for writing becomes a string.
NoNewStrings(c) ==
  \A d \in Proc \ {c} : heldMode[d] = "w" =>
    \A k \in heldKeys[d] : db[k] # Str => db'[k] # Str

LEMMA OthersStay ==
  ASSUME SetInv, NEW c, NEW d \in Proc \ {c}, Same(d), NoNewStrings(c)
  PROVE  Holds(d)' /\ Runs(d)' /\ At(d)'
<1>1. Holds(d) /\ Runs(d) /\ At(d)
  BY Zenon DEF SetInv
<1>2. Holds(d)'
  BY <1>1, Zenon DEF Holds, Same
<1>3. At(d)'
  BY <1>1, Zenon DEF At, Same
<1>4. Runs(d)'
  <2>1. CASE pc[d] = "run"
    <3>1. PICK k \in heldKeys[d] : Left(k, todo[d])
      BY <1>1, <2>1, Zenon DEF Runs
    <3>2. heldMode[d] = "w"
      BY <1>1, <2>1, Zenon DEF Holds
    <3>3. db[k] # Str => db'[k] # Str
      BY <3>2, Zenon DEF NoNewStrings
    <3>4. Left(k, todo[d])'
      BY <3>1, <3>3, Zenon DEF Left, Same
    <3> QED
      BY <2>1, <3>4, Zenon DEF Runs, Same
  <2>2. CASE pc[d] # "run"
    BY <1>1, <2>2, Zenon DEF Runs, Same
  <2> QED
    BY <2>1, <2>2, Zenon
<1> QED
  BY <1>2, <1>3, <1>4, Zenon

LEMMA ClientStep ==
  ASSUME SetInv, NEW c \in Proc, SetTypes', Excl', Holds(c)', Runs(c)', At(c)',
         \A d \in Proc \ {c} : Same(d), NoNewStrings(c)
  PROVE  SetInv'
<1>1. \A d \in Proc \ {c} : Holds(d)' /\ Runs(d)' /\ At(d)'
  BY OthersStay, Zenon
<1> QED
  BY <1>1, Zenon DEF SetInv

\* The locks exclude each other (dblock.go).
LEMMA ExclKept ==
  ASSUME SetTypes, Excl, NEW c \in Proc, NEW ks, NEW mode,
         UNCHANGED keyLockVars \/ Release(c) \/ Acquire(c, ks, mode)
  PROVE  Excl'
<1>1. CASE UNCHANGED keyLockVars
  BY <1>1, Zenon DEF Excl, keyLockVars
<1>2. CASE Release(c)
  BY <1>2, Zenon DEF SetTypes, Excl, Release
<1>3. CASE Acquire(c, ks, mode)
  BY <1>3 DEF SetTypes, Excl, Acquire, CanAcquire
<1> QED
  BY <1>1, <1>2, <1>3, Zenon

-----------------------------------------------------------------------------
(* The steps that take no locks and leave the map alone *)

LEMMA CallKeeps ==
  ASSUME SetInv, NEW c \in Proc, NEW command \in Command, ExecCommand(c, command)
  PROVE  SetInv'
<1>1. SetTypes'
  BY Zenon DEF SetInv, SetTypes, ExecCommand, Goto, keyLockVars, Labels
<1>2. Excl'
  BY ExclKept, Zenon DEF SetInv, ExecCommand
<1>3. Holds(c)' /\ Runs(c)'
  BY Zenon DEF SetInv, SetTypes, Holds, Runs, ExecCommand, Goto, keyLockVars
<1>4. At(c)'
  <2>1. Len(command.keys) \in Nat \ {0} /\ command # NoCommand
    BY CommandKeys, SetCommandAssumption, Zenon
  <2> QED
    BY <2>1 DEF SetInv, SetTypes, At, ExecCommand, Goto
<1>5. \A d \in Proc \ {c} : Same(d)
  BY Zenon DEF SetInv, SetTypes, Same, ExecCommand, Goto, keyLockVars
<1>6. NoNewStrings(c)
  BY Zenon DEF NoNewStrings, ExecCommand
<1> QED
  BY <1>1, <1>2, <1>3, <1>4, <1>5, <1>6, ClientStep, Zenon

LEMMA ReturnKeeps ==
  ASSUME SetInv, NEW c \in Proc, Return(c)
  PROVE  SetInv'
<1>1. SetTypes'
  BY DEF SetInv, SetTypes, Return, Goto, keyLockVars, Labels
<1>2. Excl'
  BY ExclKept, Zenon DEF SetInv, Return
<1>3. Holds(c)' /\ Runs(c)'
  BY Zenon DEF SetInv, SetTypes, Holds, Runs, Return, Goto, keyLockVars
<1>4. At(c)'
  BY Zenon DEF SetInv, SetTypes, At, Return, Goto
<1>5. \A d \in Proc \ {c} : Same(d)
  BY Zenon DEF SetInv, SetTypes, Same, Return, Goto, keyLockVars
<1>6. NoNewStrings(c)
  BY Zenon DEF NoNewStrings, Return
<1> QED
  BY <1>1, <1>2, <1>3, <1>4, <1>5, <1>6, ClientStep, Zenon

\* The key that is checked is one of the command's.
LEMMA CheckedKey ==
  ASSUME SetInv, NEW c \in Proc, pc[c] \in {"check", "expired"}
  PROVE  Checked(c) \in Key
<1>1. cmd[c] \in Command /\ idx[c] \in 1..Len(cmd[c].keys)
  BY HasCommand, Zenon DEF SetInv, At
<1>2. /\ cmd[c].keys \in Seq(Key)
      /\ cmd[c].op = "smove" => Len(cmd[c].keys) = 2
  BY <1>1, CommandKeys, Zenon
<1>3. CASE cmd[c].op = "smove"
  <2>1. Len(cmd[c].keys) = 2 /\ 3 - idx[c] \in 1..2
    <3>1. idx[c] \in 1..2
      BY <1>1, <1>2, <1>3, Zenon
    <3> QED
      BY <1>2, <1>3, <3>1
  <2>2. cmd[c].keys[3 - idx[c]] \in Key
    BY <1>2, <2>1
  <2> QED
    BY <1>3, <2>2, Zenon DEF Checked
<1>4. CASE cmd[c].op # "smove"
  BY <1>1, <1>2, <1>4 DEF Checked
<1> QED
  BY <1>3, <1>4, Zenon

\* After the check of a key the handler is at a point that fits its command.
LEMMA AfterCheckGoesOn ==
  ASSUME SetInv, NEW c \in Proc, pc[c] \in {"check", "expired"}, NEW alive, AfterCheck(c, alive)
  PROVE  /\ pc' \in [Proc -> Labels] /\ idx' \in [Proc -> Nat] /\ kept' \in [Proc -> Seq(Key)]
         /\ DOMAIN reply' = Proc
         /\ pc'[c] \in {"peek", "done", "check", "body"}
         /\ pc'[c] = "check" => idx'[c] \in 1..Len(cmd[c].keys)
         /\ pc'[c] = "peek" => idx'[c] = 1 /\ cmd[c].op \in StoreOps
         /\ \A d \in Proc \ {c} : /\ pc'[d] = pc[d] /\ idx'[d] = idx[d] /\ kept'[d] = kept[d]
                                  /\ reply'[d] = reply[d]
<1> DEFINE last == idx[c] = Len(cmd[c].keys)
           store == cmd[c].op \in StoreOps
<1>1. cmd[c] \in Command /\ idx[c] \in 1..Len(cmd[c].keys)
  BY HasCommand, Zenon DEF SetInv, At
<1>2. cmd[c].keys \in Seq(Key) /\ Len(cmd[c].keys) \in Nat
  BY <1>1, CommandKeys, Zenon
<1>3. /\ pc \in [Proc -> Labels] /\ idx \in [Proc -> Nat] /\ kept \in [Proc -> Seq(Key)]
      /\ DOMAIN reply = Proc
  BY Zenon DEF SetInv, SetTypes
<1>4. kept' = kept \/ kept' = [kept EXCEPT ![c] = Append(@, Checked(c))]
  BY Zenon DEF AfterCheck
<1>5. kept' \in [Proc -> Seq(Key)] /\ \A d \in Proc \ {c} : kept'[d] = kept[d]
  <2>1. Append(kept[c], Checked(c)) \in Seq(Key)
    BY <1>3, CheckedKey
  <2> QED
    BY <1>3, <1>4, <2>1, Zenon
<1>6. CASE store /\ idx[c] = 1
  <2>1. pc' = [pc EXCEPT ![c] = "peek"] /\ idx' = idx /\ reply' = reply
    BY <1>6, Zenon DEF AfterCheck, Goto
  <2> QED
    BY <1>3, <1>5, <1>6, <2>1, Zenon DEF Labels
<1>7. CASE ~(store /\ idx[c] = 1) /\ ~alive /\ last /\ cmd[c].op \in StopOps
  <2>1. /\ pc' = [pc EXCEPT ![c] = "done"] /\ idx' = idx
        /\ reply' = [reply EXCEPT ![c] = <<ExpiredReply(cmd[c].op)>>]
    BY <1>7, Zenon DEF AfterCheck, Goto, Answer
  <2> QED
    BY <1>3, <1>5, <2>1, Zenon DEF Labels
<1>8. CASE ~(store /\ idx[c] = 1) /\ ~(~alive /\ last /\ cmd[c].op \in StopOps)
  <2>1. /\ pc' = [pc EXCEPT ![c] = IF last THEN "body" ELSE "check"]
        /\ idx' = [idx EXCEPT ![c] = IF last THEN idx[c] ELSE idx[c] + 1]
        /\ reply' = reply
    BY <1>8, Zenon DEF AfterCheck, Goto
  <2> QED
    BY <1>1, <1>2, <1>3, <1>5, <2>1 DEF Labels
<1> QED
  BY <1>6, <1>7, <1>8, Zenon

LEMMA CheckTTLKeeps ==
  ASSUME SetInv, NEW c \in Proc, CheckTTL(c)
  PROVE  SetInv'
<1>1. pc[c] = "check"
  BY Zenon DEF CheckTTL
<1>2. /\ db' = db /\ doomed' = doomed /\ passed' = passed /\ loose' = loose /\ cmd' = cmd
      /\ vals' = vals /\ result' = result /\ todo' = todo
      /\ heldKeys' = heldKeys /\ heldMode' = heldMode
  BY Zenon DEF CheckTTL, keyLockVars
<1>3. /\ due' \in SUBSET Key /\ pc' \in [Proc -> Labels] /\ idx' \in [Proc -> Nat]
      /\ kept' \in [Proc -> Seq(Key)] /\ DOMAIN reply' = Proc
      /\ pc'[c] \in {"peek", "done", "check", "body", "expired"}
      /\ pc'[c] \in {"check", "expired"} => idx'[c] \in 1..Len(cmd[c].keys)
      /\ pc'[c] = "peek" => idx'[c] = 1 /\ cmd[c].op \in StoreOps
      /\ \A d \in Proc \ {c} : /\ pc'[d] = pc[d] /\ idx'[d] = idx[d] /\ kept'[d] = kept[d]
                               /\ reply'[d] = reply[d]
  <2>1. CASE Goto(c, "expired") /\ UNCHANGED <<idx, kept, reply>> /\ due' = due \ {Checked(c)}
    BY <1>1, <2>1, Zenon DEF SetInv, SetTypes, At, Goto, Labels
  <2>2. CASE AfterCheck(c, TRUE) /\ UNCHANGED due
    <3>1. due' \in SUBSET Key
      BY <2>2, Zenon DEF SetInv, SetTypes
    <3> QED
      BY <1>1, <2>2, <3>1, AfterCheckGoesOn, Zenon
  <2> QED
    BY <2>1, <2>2, Zenon DEF CheckTTL
<1>4. SetTypes'
  BY <1>2, <1>3, Zenon DEF SetInv, SetTypes
<1>5. Excl'
  BY <1>2, Zenon DEF SetInv, Excl
<1>6. Holds(c)' /\ Runs(c)'
  BY <1>1, <1>2, <1>3, Zenon DEF SetInv, SetTypes, Holds, Runs
<1>7. At(c)'
  BY <1>1, <1>2, <1>3, Zenon DEF SetInv, At
<1>8. \A d \in Proc \ {c} : Same(d)
  BY <1>2, <1>3, Zenon DEF Same
<1>9. NoNewStrings(c)
  BY <1>2, Zenon DEF NoNewStrings
<1> QED
  BY <1>4, <1>5, <1>6, <1>7, <1>8, <1>9, ClientStep, Zenon

LEMMA DeleteExpiredKeeps ==
  ASSUME SetInv, NEW c \in Proc, DeleteExpired(c)
  PROVE  SetInv'
<1>1. pc[c] = "expired" /\ AfterCheck(c, FALSE)
  BY Zenon DEF DeleteExpired
<1>2. /\ db' = [db EXCEPT ![Checked(c)] = None] /\ due' = due
      /\ doomed' = doomed /\ passed' = passed /\ loose' = loose /\ cmd' = cmd
      /\ vals' = vals /\ result' = result /\ todo' = todo
      /\ heldKeys' = heldKeys /\ heldMode' = heldMode
  BY Zenon DEF DeleteExpired, keyLockVars
<1>3. /\ pc' \in [Proc -> Labels] /\ idx' \in [Proc -> Nat]
      /\ kept' \in [Proc -> Seq(Key)] /\ DOMAIN reply' = Proc
      /\ pc'[c] \in {"peek", "done", "check", "body"}
      /\ pc'[c] = "check" => idx'[c] \in 1..Len(cmd[c].keys)
      /\ pc'[c] = "peek" => idx'[c] = 1 /\ cmd[c].op \in StoreOps
      /\ \A d \in Proc \ {c} : /\ pc'[d] = pc[d] /\ idx'[d] = idx[d] /\ kept'[d] = kept[d]
                               /\ reply'[d] = reply[d]
  BY <1>1, AfterCheckGoesOn, Zenon
<1>4. DOMAIN db' = Key /\ \A k \in Key : db'[k] = db[k] \/ db'[k] = None
  BY <1>2, Zenon DEF SetInv, SetTypes
<1>5. SetTypes'
  BY <1>2, <1>3, <1>4, Zenon DEF SetInv, SetTypes, IsValue
<1>6. Excl'
  BY <1>2, Zenon DEF SetInv, Excl
<1>7. Holds(c)' /\ Runs(c)'
  BY <1>1, <1>2, <1>3, Zenon DEF SetInv, SetTypes, Holds, Runs
<1>8. At(c)'
  BY <1>1, <1>2, <1>3, Zenon DEF SetInv, At
<1>9. \A d \in Proc \ {c} : Same(d)
  BY <1>2, <1>3, Zenon DEF Same
<1>10. NoNewStrings(c)
  <2>1. \A d \in Proc : heldKeys[d] \subseteq Key
    BY Zenon DEF SetInv, SetTypes
  <2>2. None # Str
    BY Zenon DEF None, Str
  <2> QED
    BY <1>4, <2>1, <2>2, Zenon DEF NoNewStrings
<1> QED
  BY <1>5, <1>6, <1>7, <1>8, <1>9, <1>10, ClientStep, Zenon

LEMMA PeekKeeps ==
  ASSUME SetInv, NEW c \in Proc, Peek(c)
  PROVE  SetInv'
<1>1. pc[c] = "peek" /\ cmd[c].op \in StoreOps
  BY Zenon DEF SetInv, At, Peek
<1>2. Len(cmd[c].keys) \in Nat /\ Len(cmd[c].keys) >= 2
  BY <1>1, HasCommand, CommandKeys, Zenon
<1>3. \/ pc' = [pc EXCEPT ![c] = "done"] /\ idx' = idx /\ reply' = [reply EXCEPT ![c] = <<WrongType>>]
      \/ pc' = [pc EXCEPT ![c] = "check"] /\ idx' = [idx EXCEPT ![c] = 2] /\ reply' = reply
  BY Zenon DEF Peek, Goto, Answer
<1>4. /\ db' = db /\ due' = due /\ doomed' = doomed /\ passed' = passed /\ loose' = loose
      /\ cmd' = cmd /\ kept' = kept /\ vals' = vals /\ result' = result /\ todo' = todo
      /\ heldKeys' = heldKeys /\ heldMode' = heldMode
  BY Zenon DEF Peek, keyLockVars
<1>5. SetTypes'
  <2>1. pc' \in [Proc -> Labels]
    BY <1>3, Zenon DEF SetInv, SetTypes, Labels
  <2>2. idx' \in [Proc -> Nat]
    <3>1. idx \in [Proc -> Nat] /\ 2 \in Nat
      BY Zenon DEF SetInv, SetTypes
    <3>2. [idx EXCEPT ![c] = 2] \in [Proc -> Nat]
      BY <3>1, Zenon
    <3> QED
      BY <1>3, <3>1, <3>2, Zenon
  <2>3. DOMAIN reply' = Proc
    BY <1>3, Zenon DEF SetInv, SetTypes
  <2> QED
    BY <1>4, <2>1, <2>2, <2>3, Zenon DEF SetInv, SetTypes
<1>6. Excl'
  BY <1>4, Zenon DEF SetInv, Excl
<1>7. Holds(c)' /\ Runs(c)'
  BY <1>1, <1>3, <1>4, Zenon DEF SetInv, SetTypes, Holds, Runs
<1>8. At(c)'
  BY <1>1, <1>2, <1>3, <1>4 DEF SetInv, SetTypes, At
<1>9. \A d \in Proc \ {c} : Same(d)
  BY <1>3, <1>4, Zenon DEF SetInv, SetTypes, Same
<1>10. NoNewStrings(c)
  BY <1>4, Zenon DEF NoNewStrings
<1> QED
  BY <1>5, <1>6, <1>7, <1>8, <1>9, <1>10, ClientStep, Zenon

\* The steps that move to a point without locks and leave the map alone.
LEMMA MoveKeeps ==
  ASSUME SetInv, NEW c \in Proc,
         NEW label \in {"done", "recheck", "redelete", "store", "unlocked", "overwrite"},
         pc' = [pc EXCEPT ![c] = label], pc[c] \notin {"idle", "run", "gather", "dead"},
         label \in {"recheck", "redelete", "store"} => cmd[c].op \in StoreOps,
         label \in {"unlocked", "overwrite"} => cmd[c].op = "sunionstore",
         label = "overwrite" => result[c] # {},
         db' = db, due' \in SUBSET due, doomed' = doomed, passed' = passed, loose' \in BOOLEAN,
         cmd' = cmd, idx' = idx, kept' = kept, vals' = vals, result' = result, todo' = todo,
         reply' = reply \/ \E r : reply' = [reply EXCEPT ![c] = <<r>>],
         heldKeys' = heldKeys, heldMode' = heldMode
  PROVE  SetInv'
<1>1. SetTypes'
  BY Zenon DEF SetInv, SetTypes, Labels
<1>2. Excl'
  BY Zenon DEF SetInv, Excl
<1>3. Holds(c)' /\ Runs(c)'
  BY Zenon DEF SetInv, SetTypes, Holds, Runs
<1>4. At(c)'
  BY Zenon DEF SetInv, SetTypes, At
<1>5. \A d \in Proc \ {c} : Same(d)
  <2>1. \A d \in Proc \ {c} : reply'[d] = reply[d]
    BY Zenon DEF SetInv, SetTypes
  <2> QED
    BY <2>1, Zenon DEF SetInv, SetTypes, Same
<1>6. NoNewStrings(c)
  BY Zenon DEF NoNewStrings
<1> QED
  BY <1>1, <1>2, <1>3, <1>4, <1>5, <1>6, ClientStep, Zenon

LEMMA NothingKeptKeeps ==
  ASSUME SetInv, NEW c \in Proc, NothingKept(c)
  PROVE  SetInv'
  BY MoveKeeps, Zenon DEF SetInv, SetTypes, NothingKept, Answer, Goto, keyLockVars

LEMMA RecheckKeeps ==
  ASSUME SetInv, NEW c \in Proc, Recheck(c)
  PROVE  SetInv'
<1>1. PICK label \in {"redelete", "store"} : pc' = [pc EXCEPT ![c] = label]
  BY Zenon DEF Recheck, Goto
<1>2. cmd[c].op \in StoreOps
  BY Zenon DEF SetInv, At, Recheck
<1> QED
  BY <1>1, <1>2, MoveKeeps, Zenon DEF SetInv, SetTypes, Recheck, keyLockVars

LEMMA LockUnLockKeeps ==
  ASSUME SetInv, NEW c \in Proc, LockUnLock(c)
  PROVE  SetInv'
  BY MoveKeeps, Zenon DEF SetInv, SetTypes, LockUnLock, Goto, keyLockVars

LEMMA UnionStoreKeeps ==
  ASSUME SetInv, NEW c \in Proc, UnionStore(c)
  PROVE  SetInv'
<1>1. pc[c] = "unlocked" /\ cmd[c].op = "sunionstore"
  BY Zenon DEF SetInv, At, UnionStore
<1>2. PICK label \in {"done", "overwrite"} :
        /\ pc' = [pc EXCEPT ![c] = label] /\ (label = "overwrite" => result[c] # {})
        /\ todo' = todo /\ heldKeys' = heldKeys /\ heldMode' = heldMode
        /\ \E r : reply' = [reply EXCEPT ![c] = <<r>>]
  BY Zenon DEF UnionStore, StoreChecked, Answer, Goto, keyLockVars
<1> QED
  BY <1>1, <1>2, MoveKeeps, Zenon DEF SetInv, SetTypes, UnionStore

-----------------------------------------------------------------------------
(* The steps of a gathering *)

LEMMA StartGatherKeeps ==
  ASSUME SetInv, NEW c \in Proc, StartGather(c)
  PROVE  SetInv'
<1>1. pc[c] = "body" /\ pc' = [pc EXCEPT ![c] = "gather"] /\ cmd[c].op \in MultiOps
  BY Zenon DEF StartGather, Goto
<1>2. /\ db' = db /\ due' = due /\ doomed' = doomed /\ passed' = passed /\ loose' = loose
      /\ cmd' = cmd /\ idx' = idx /\ kept' = kept /\ vals' = vals /\ result' = result
      /\ todo' = todo /\ reply' = reply
  BY Zenon DEF StartGather
<1>3. /\ heldMode' = [heldMode EXCEPT ![c] = "r"]
      /\ heldKeys' = [heldKeys EXCEPT ![c] = KeySet(kept[c])]
  BY Zenon DEF StartGather, Acquire
<1>4. KeySet(kept[c]) \subseteq Key
  BY DEF SetInv, SetTypes, KeySet
<1>5. SetTypes'
  BY <1>1, <1>2, <1>3, <1>4, Zenon DEF SetInv, SetTypes, Labels
<1>6. Excl'
  BY ExclKept, Zenon DEF SetInv, StartGather
<1>7. Holds(c)' /\ Runs(c)'
  BY <1>1, <1>2, <1>3, Zenon DEF SetInv, SetTypes, Holds, Runs
<1>8. At(c)'
  BY <1>1, <1>2, Zenon DEF SetInv, SetTypes, At
<1>9. \A d \in Proc \ {c} : Same(d)
  BY <1>1, <1>2, <1>3, Zenon DEF SetInv, SetTypes, Same
<1>10. NoNewStrings(c)
  BY <1>2, Zenon DEF NoNewStrings
<1> QED
  BY <1>5, <1>6, <1>7, <1>8, <1>9, <1>10, ClientStep, Zenon

LEMMA GatherKeeps ==
  ASSUME SetInv, NEW c \in Proc, Gather(c)
  PROVE  SetInv'
<1>1. /\ db' = db /\ due' = due /\ doomed' = doomed /\ passed' = passed /\ loose' = loose
      /\ pc' = pc /\ cmd' = cmd /\ idx' = idx /\ kept' = kept /\ result' = result
      /\ todo' = todo /\ reply' = reply /\ heldKeys' = heldKeys /\ heldMode' = heldMode
  BY Zenon DEF Gather, keyLockVars
<1>2. PICK v : vals' = [vals EXCEPT ![c] = v]
  BY Zenon DEF Gather
<1>3. SetTypes'
  BY <1>1, <1>2, Zenon DEF SetInv, SetTypes
<1>4. Excl' /\ Holds(c)' /\ Runs(c)' /\ At(c)'
  BY <1>1, ZenonT(60) DEF SetInv, Excl, Holds, Runs, Left, At
<1>5. \A d \in Proc \ {c} : Same(d)
  BY <1>1, <1>2, Zenon DEF SetInv, SetTypes, Same
<1>6. NoNewStrings(c)
  BY <1>1, Zenon DEF NoNewStrings
<1> QED
  BY <1>3, <1>4, <1>5, <1>6, ClientStep, Zenon

\* SINTERSTORE may keep its locks when it panics; every other end of a gathering
\* releases them.
LEMMA EndGatherKeeps ==
  ASSUME SetInv, NEW c \in Proc, EndGather(c)
  PROVE  SetInv'
<1>1. pc[c] = "gather" /\ heldMode[c] = "r" /\ cmd[c].op \in MultiOps /\ cmd[c] # NoCommand
  BY Zenon DEF SetInv, Holds, At, EndGather
<1>2. /\ db' = db /\ due' = due /\ doomed' = doomed /\ passed' = passed /\ loose' = loose
      /\ cmd' = cmd /\ idx' = idx /\ kept' = kept /\ vals' = vals /\ todo' = todo
  BY Zenon DEF EndGather
<1>3. PICK r : r = Computed(c)
  BY Zenon
<1>4. PICK label \in {"dead", "done", "recheck"} :
        /\ pc' = [pc EXCEPT ![c] = label]
        /\ label = "dead" <=> r.reply = Panic
        /\ label = "recheck" => cmd[c].op \in StoreOps
  <2>1. \/ r.reply = Panic /\ pc' = [pc EXCEPT ![c] = "dead"]
        \/ r.reply # Panic /\ pc' = [pc EXCEPT ![c] = "done"]
        \/ r.reply # Panic /\ cmd[c].op \in StoreOps /\ pc' = [pc EXCEPT ![c] = "recheck"]
    BY <1>3, Zenon DEF EndGather, Answer, Goto
  <2> QED
    BY <2>1, Zenon
<1>5. /\ result' = [result EXCEPT ![c] = r.set]
      /\ reply' = reply \/ reply' = [reply EXCEPT ![c] = <<r.reply>>]
      /\ ReadUnlock(c, r.reply)
  BY <1>3, Zenon DEF EndGather, Answer
<1>6. \/ /\ label = "dead" /\ cmd[c].op = "sinterstore"
         /\ heldKeys' = heldKeys /\ heldMode' = heldMode
      \/ /\ heldMode' = [heldMode EXCEPT ![c] = "none"]
         /\ heldKeys' = [heldKeys EXCEPT ![c] = {}]
  BY <1>4, <1>5, Zenon DEF ReadUnlock, Release, keyLockVars
<1>7. SetTypes'
  <2>1. heldKeys' \in [Proc -> SUBSET Key] /\ heldMode' \in [Proc -> {"none", "r", "w"}]
    BY <1>6, Zenon DEF SetInv, SetTypes
  <2>2. pc' \in [Proc -> Labels] /\ DOMAIN result' = Proc /\ DOMAIN reply' = Proc
    BY <1>4, <1>5, Zenon DEF SetInv, SetTypes, Labels
  <2> QED
    BY <1>2, <2>1, <2>2, Zenon DEF SetInv, SetTypes
<1>8. Excl'
  BY <1>5, ExclKept, Zenon DEF SetInv, ReadUnlock
<1>9. Holds(c)'
  BY <1>1, <1>2, <1>4, <1>6 DEF SetInv, SetTypes, Holds
<1>10. Runs(c)'
  BY <1>1, <1>2, <1>4, Zenon DEF SetInv, SetTypes, Runs
<1>11. At(c)'
  BY <1>1, <1>2, <1>4, Zenon DEF SetInv, SetTypes, At
<1>12. \A d \in Proc \ {c} : Same(d)
  <2>1. \A d \in Proc \ {c} : /\ heldKeys'[d] = heldKeys[d] /\ heldMode'[d] = heldMode[d]
    BY <1>6 DEF SetInv, SetTypes
  <2> QED
    BY <1>2, <1>4, <1>5, <2>1, Zenon DEF SetInv, SetTypes, Same
<1>13. NoNewStrings(c)
  BY <1>2, Zenon DEF NoNewStrings
<1> QED
  BY <1>7, <1>8, <1>9, <1>10, <1>11, <1>12, <1>13, ClientStep, Zenon

-----------------------------------------------------------------------------
(* The steps that write *)

\* A key that becomes None or a set is no string.
LEMMA PutKeeps ==
  ASSUME SetInv, NEW c \in Proc, NEW k \in Key, NEW v, v # Str, IsValue(v),
         db' = [db EXCEPT ![k] = v]
  PROVE  DOMAIN db' = Key /\ (\A j \in Key : IsValue(db'[j])) /\ NoNewStrings(c)
  BY Zenon DEF SetInv, SetTypes, NoNewStrings

LEMMA DestKey ==
  ASSUME SetInv, NEW c \in Proc, pc[c] # "idle"
  PROVE  Dest(c) \in Key
  BY HasCommand, CommandKeys, Zenon DEF Dest

LEMMA Distinct ==
  /\ None # Str /\ ~IsSet(None) /\ ~IsSet(Str) /\ IsValue(None) /\ IsValue(Str)
  /\ \A S : SetVal(S) # None /\ SetVal(S) # Str /\ IsSet(SetVal(S)) /\ IsValue(SetVal(S))
                /\ SetVal(S).m = S
  BY Zenon DEF None, Str, SetVal, IsSet, IsValue

LEMMA RedeleteKeeps ==
  ASSUME SetInv, NEW c \in Proc, Redelete(c)
  PROVE  SetInv'
<1>1. pc[c] = "redelete" /\ cmd[c].op \in StoreOps
  BY Zenon DEF SetInv, At, Redelete
<1>2. /\ pc' = [pc EXCEPT ![c] = "store"] /\ db' = [db EXCEPT ![Dest(c)] = None]
      /\ due' = due /\ doomed' = doomed /\ passed' = passed /\ loose' = loose /\ cmd' = cmd
      /\ idx' = idx /\ kept' = kept /\ vals' = vals /\ result' = result /\ todo' = todo
      /\ reply' = reply /\ heldKeys' = heldKeys /\ heldMode' = heldMode
  BY Zenon DEF Redelete, Goto, keyLockVars
<1>3. DOMAIN db' = Key /\ (\A j \in Key : IsValue(db'[j])) /\ NoNewStrings(c)
  BY <1>1, <1>2, DestKey, Distinct, PutKeeps, Zenon
<1>4. SetTypes'
  BY <1>2, <1>3, Zenon DEF SetInv, SetTypes, Labels
<1>5. Excl'
  BY <1>2, Zenon DEF SetInv, Excl
<1>6. Holds(c)' /\ Runs(c)' /\ At(c)'
  BY <1>1, <1>2, Zenon DEF SetInv, SetTypes, Holds, Runs, At
<1>7. \A d \in Proc \ {c} : Same(d)
  BY <1>2, Zenon DEF SetInv, SetTypes, Same
<1> QED
  BY <1>3, <1>4, <1>5, <1>6, <1>7, ClientStep, Zenon

LEMMA OverwriteKeeps ==
  ASSUME SetInv, NEW c \in Proc, Overwrite(c)
  PROVE  SetInv'
<1>1. pc[c] = "overwrite"
  BY Zenon DEF Overwrite
<1>2. /\ pc' = [pc EXCEPT ![c] = "done"] /\ db' = [db EXCEPT ![Dest(c)] = SetVal(result[c])]
      /\ due' = due /\ doomed' = doomed /\ passed' = passed /\ loose' = loose /\ cmd' = cmd
      /\ idx' = idx /\ kept' = kept /\ vals' = vals /\ result' = result /\ todo' = todo
      /\ reply' = reply /\ heldKeys' = heldKeys /\ heldMode' = heldMode
  BY Zenon DEF Overwrite, Goto, keyLockVars
<1>3. DOMAIN db' = Key /\ (\A j \in Key : IsValue(db'[j])) /\ NoNewStrings(c)
  BY <1>1, <1>2, DestKey, Distinct, PutKeeps, Zenon
<1>4. SetTypes'
  BY <1>2, <1>3, Zenon DEF SetInv, SetTypes, Labels
<1>5. Excl'
  BY <1>2, Zenon DEF SetInv, Excl
<1>6. Holds(c)' /\ Runs(c)' /\ At(c)'
  BY <1>1, <1>2, Zenon DEF SetInv, SetTypes, Holds, Runs, At
<1>7. \A d \in Proc \ {c} : Same(d)
  BY <1>2, Zenon DEF SetInv, SetTypes, Same
<1> QED
  BY <1>3, <1>4, <1>5, <1>6, <1>7, ClientStep, Zenon

LEMMA StoreKeeps ==
  ASSUME SetInv, NEW c \in Proc, Store(c)
  PROVE  SetInv'
<1>1. pc[c] = "store" /\ Dest(c) \in Key
  BY DestKey, Zenon DEF Store
<1>2. /\ db' = db /\ due' = due /\ doomed' = doomed /\ passed' = passed /\ loose' = loose
      /\ cmd' = cmd /\ idx' = idx /\ kept' = kept /\ vals' = vals /\ result' = result
  BY Zenon DEF Store
<1>3. \/ /\ pc' = [pc EXCEPT ![c] = "done"] /\ todo' = todo
         /\ heldKeys' = heldKeys /\ heldMode' = heldMode
         /\ \E r : reply' = [reply EXCEPT ![c] = <<r>>]
      \/ /\ db[Dest(c)] # Str /\ result[c] # {}
         /\ pc' = [pc EXCEPT ![c] = "run"] /\ Acquire(c, {Dest(c)}, "w")
         /\ todo' = [todo EXCEPT ![c] = <<Set(Dest(c), SetVal(result[c]))>>]
         /\ \E r : reply' = [reply EXCEPT ![c] = <<r>>]
  BY Zenon DEF Store, StoreChecked, Answer, Goto, keyLockVars
<1>4. CASE /\ pc' = [pc EXCEPT ![c] = "done"] /\ todo' = todo
           /\ heldKeys' = heldKeys /\ heldMode' = heldMode
           /\ \E r : reply' = [reply EXCEPT ![c] = <<r>>]
  BY <1>1, <1>2, <1>4, MoveKeeps, Zenon DEF SetInv, SetTypes
<1>5. CASE /\ db[Dest(c)] # Str /\ result[c] # {}
           /\ pc' = [pc EXCEPT ![c] = "run"] /\ Acquire(c, {Dest(c)}, "w")
           /\ todo' = [todo EXCEPT ![c] = <<Set(Dest(c), SetVal(result[c]))>>]
           /\ \E r : reply' = [reply EXCEPT ![c] = <<r>>]
  <2>1. /\ heldMode' = [heldMode EXCEPT ![c] = "w"] /\ heldKeys' = [heldKeys EXCEPT ![c] = {Dest(c)}]
    BY <1>5, Zenon DEF Acquire
  <2>2. SetTypes'
    BY <1>1, <1>2, <1>5, <2>1, ZenonT(60) DEF SetInv, SetTypes, Labels
  <2>3. Excl'
    BY <1>5, ExclKept, Zenon DEF SetInv
  <2>4. Holds(c)' /\ At(c)'
    BY <1>1, <1>2, <1>5, <2>1, Zenon DEF SetInv, SetTypes, Holds, At
  <2>5. Runs(c)'
    <3>1. todo'[c] = <<Set(Dest(c), SetVal(result[c]))>> /\ pc'[c] = "run" /\ heldKeys'[c] = {Dest(c)}
      BY <1>5, <2>1, Zenon DEF SetInv, SetTypes
    <3>2. todo'[c][1].v.m = result[c]
      BY <3>1 DEF Set, SetVal
    <3>3. Left(Dest(c), todo[c])'
      BY <1>2, <1>5, <3>1, <3>2, Zenon DEF Left, Dest
    <3> QED
      BY <1>2, <3>1, <3>3, Zenon DEF Runs, Dest
  <2>6. \A d \in Proc \ {c} : Same(d)
    BY <1>2, <1>5, <2>1, Zenon DEF SetInv, SetTypes, Same
  <2>7. NoNewStrings(c)
    BY <1>2, Zenon DEF NoNewStrings
  <2> QED
    BY <2>2, <2>3, <2>4, <2>5, <2>6, <2>7, ClientStep, Zenon
<1> QED
  BY <1>3, <1>4, <1>5, Zenon

\* The accesses left, one after the other.
LEMMA AccessLists ==
  ASSUME NEW a, NEW b
  PROVE  /\ Len(<<a>>) = 1 /\ Head(<<a>>) = a /\ Tail(<<a>>) = <<>>
         /\ Len(<<a, b>>) = 2 /\ Head(<<a, b>>) = a /\ Tail(<<a, b>>) = <<b>>
  OBVIOUS

\* The next access of a section: what it does to the map, and what is left.
NextAccess(c, k) ==
  \/ /\ todo[c] = <<DelTTL(k)>> /\ db' = db
     /\ todo' = [todo EXCEPT ![c] = <<>>] /\ pc' = [pc EXCEPT ![c] = "done"] /\ Release(c)
  \/ /\ todo[c] = <<Set(k, Str), DelTTL(k)>> /\ db' = [db EXCEPT ![k] = Str]
     /\ todo' = [todo EXCEPT ![c] = <<DelTTL(k)>>] /\ pc' = pc /\ UNCHANGED keyLockVars
  \/ /\ todo[c] = <<Delete(k), DelTTL(k)>> /\ db' = [db EXCEPT ![k] = None] /\ db[k] # Str
     /\ todo' = [todo EXCEPT ![c] = <<DelTTL(k)>>] /\ pc' = pc /\ UNCHANGED keyLockVars
  \/ /\ \E S : S # {} /\ todo[c] = <<Set(k, SetVal(S))>> /\ db' = [db EXCEPT ![k] = SetVal(S)]
     /\ db[k] # Str
     /\ todo' = [todo EXCEPT ![c] = <<>>] /\ pc' = [pc EXCEPT ![c] = "done"] /\ Release(c)

LEMMA RunIsNextAccess ==
  ASSUME SetInv, NEW c \in Proc, RunAccess(c)
  PROVE  heldMode[c] = "w" /\ \E k \in heldKeys[c] : NextAccess(c, k)
<1>1. pc[c] = "run" /\ heldMode[c] = "w"
  BY Zenon DEF SetInv, Holds, RunAccess
<1>2. PICK k \in heldKeys[c] : Left(k, todo[c])
  BY <1>1, Zenon DEF SetInv, Runs
<1>3. PICK a : a = Head(todo[c])
  BY Zenon
<1>4. /\ db' = IF a.do = "delttl" THEN db ELSE [db EXCEPT ![a.k] = a.v]
      /\ todo' = [todo EXCEPT ![c] = Tail(todo[c])]
      /\ \/ Len(todo[c]) = 1 /\ pc' = [pc EXCEPT ![c] = "done"] /\ Release(c)
         \/ Len(todo[c]) > 1 /\ pc' = pc /\ UNCHANGED keyLockVars
  BY <1>3, Zenon DEF RunAccess, Goto
<1>5. ASSUME todo[c] = <<DelTTL(k)>>
      PROVE  NextAccess(c, k)
  <2>1. Len(todo[c]) = 1 /\ a = DelTTL(k) /\ Tail(todo[c]) = <<>>
    BY <1>3, <1>5, AccessLists, Zenon
  <2>2. a.do = "delttl"
    BY <2>1, Zenon DEF DelTTL
  <2>3. db' = db /\ todo' = [todo EXCEPT ![c] = <<>>]
    BY <1>4, <2>1, <2>2, Zenon
  <2>4. pc' = [pc EXCEPT ![c] = "done"] /\ Release(c)
    BY <1>4, <2>1
  <2> QED
    BY <1>5, <2>3, <2>4, Zenon DEF NextAccess
<1>6. ASSUME todo[c] = <<Set(k, Str), DelTTL(k)>>
      PROVE  NextAccess(c, k)
  <2>1. Len(todo[c]) = 2 /\ a = Set(k, Str) /\ Tail(todo[c]) = <<DelTTL(k)>>
    BY <1>3, <1>6, AccessLists, Zenon
  <2>2. a.do # "delttl" /\ a.k = k /\ a.v = Str
    BY <2>1, Zenon DEF Set
  <2>3. db' = [db EXCEPT ![k] = Str] /\ todo' = [todo EXCEPT ![c] = <<DelTTL(k)>>]
    BY <1>4, <2>1, <2>2, Zenon
  <2>4. pc' = pc /\ UNCHANGED keyLockVars
    BY <1>4, <2>1
  <2> QED
    BY <1>6, <2>3, <2>4, Zenon DEF NextAccess
<1>7. ASSUME todo[c] = <<Delete(k), DelTTL(k)>>, db[k] # Str
      PROVE  NextAccess(c, k)
  <2>1. Len(todo[c]) = 2 /\ a = Delete(k) /\ Tail(todo[c]) = <<DelTTL(k)>>
    BY <1>3, <1>7, AccessLists, Zenon
  <2>2. a.do # "delttl" /\ a.k = k /\ a.v = None
    BY <2>1, Zenon DEF Delete
  <2>3. db' = [db EXCEPT ![k] = None] /\ todo' = [todo EXCEPT ![c] = <<DelTTL(k)>>]
    BY <1>4, <2>1, <2>2, Zenon
  <2>4. pc' = pc /\ UNCHANGED keyLockVars
    BY <1>4, <2>1
  <2> QED
    BY <1>7, <2>3, <2>4, Zenon DEF NextAccess
<1>8. ASSUME NEW S, todo[c] = <<Set(k, SetVal(S))>>, S # {}, db[k] # Str
      PROVE  NextAccess(c, k)
  <2>1. Len(todo[c]) = 1 /\ a = Set(k, SetVal(S)) /\ Tail(todo[c]) = <<>>
    BY <1>3, <1>8, AccessLists, Zenon
  <2>2. a.do # "delttl" /\ a.k = k /\ a.v = SetVal(S)
    BY <2>1, Zenon DEF Set
  <2>3. db' = [db EXCEPT ![k] = SetVal(S)] /\ todo' = [todo EXCEPT ![c] = <<>>]
    BY <1>4, <2>1, <2>2, Zenon
  <2>4. pc' = [pc EXCEPT ![c] = "done"] /\ Release(c)
    BY <1>4, <2>1
  <2> QED
    BY <1>8, <2>3, <2>4, Zenon DEF NextAccess
<1>9. NextAccess(c, k)
  BY <1>2, <1>5, <1>6, <1>7, <1>8, Zenon DEF Left
<1> QED
  BY <1>1, <1>9, Zenon

LEMMA RunAccessKeeps ==
  ASSUME SetInv, NEW c \in Proc, RunAccess(c)
  PROVE  SetInv'
<1>1. pc[c] = "run" /\ heldMode[c] = "w"
  BY RunIsNextAccess, Zenon DEF RunAccess
<1>2. PICK k \in heldKeys[c] : NextAccess(c, k)
  BY RunIsNextAccess, Zenon
<1>3. k \in Key
  BY Zenon DEF SetInv, SetTypes
<1>4. /\ due' \in SUBSET due /\ doomed' = doomed /\ passed' = passed /\ loose' = loose
      /\ cmd' = cmd /\ idx' = idx /\ kept' = kept /\ vals' = vals /\ result' = result
      /\ reply' = reply
  BY Zenon DEF RunAccess
<1>5. \A d \in Proc \ {c} : k \notin heldKeys[d]
  BY <1>1, Zenon DEF SetInv, Excl
<1>6. PICK v : IsValue(v) /\ (db' = db \/ db' = [db EXCEPT ![k] = v])
  BY <1>2, Distinct, Zenon DEF NextAccess
<1>7. DOMAIN db' = Key /\ (\A j \in Key : IsValue(db'[j])) /\ \A j \in Key \ {k} : db'[j] = db[j]
  BY <1>3, <1>6, Zenon DEF SetInv, SetTypes
<1>8. NoNewStrings(c)
  BY <1>5, <1>7, Zenon DEF SetInv, SetTypes, NoNewStrings
<1>9. Excl'
  BY <1>2, ExclKept, Zenon DEF SetInv, NextAccess
<1>10. CASE pc' = pc /\ UNCHANGED keyLockVars /\ todo' = [todo EXCEPT ![c] = <<DelTTL(k)>>]
  <2>1. SetTypes'
    BY <1>4, <1>7, <1>10, Zenon DEF SetInv, SetTypes, keyLockVars
  <2>2. Holds(c)' /\ At(c)'
    BY <1>4, <1>10, Zenon DEF SetInv, Holds, At, keyLockVars
  <2>3. Runs(c)'
    BY <1>1, <1>10, Zenon DEF SetInv, SetTypes, Runs, Left, keyLockVars
  <2>4. \A d \in Proc \ {c} : Same(d)
    BY <1>4, <1>10, ZenonT(60) DEF SetInv, SetTypes, Same, keyLockVars
  <2> QED
    BY <1>8, <1>9, <2>1, <2>2, <2>3, <2>4, ClientStep, Zenon
<1>11. CASE pc' = [pc EXCEPT ![c] = "done"] /\ Release(c) /\ todo' = [todo EXCEPT ![c] = <<>>]
  <2>1. SetTypes'
    BY <1>4, <1>7, <1>11, Zenon DEF SetInv, SetTypes, Release, Labels
  <2>2. Holds(c)' /\ At(c)'
    BY <1>1, <1>4, <1>11, Zenon DEF SetInv, SetTypes, Holds, At, Release
  <2>3. Runs(c)'
    BY <1>11, Zenon DEF SetInv, SetTypes, Runs
  <2>4. \A d \in Proc \ {c} : Same(d)
    BY <1>4, <1>11, Zenon DEF SetInv, SetTypes, Same, Release
  <2> QED
    BY <1>8, <1>9, <2>1, <2>2, <2>3, <2>4, ClientStep, Zenon
<1> QED
  BY <1>2, <1>10, <1>11, Zenon DEF NextAccess

\* The first step of a handler on one key, and of SMOVE.
LEMMA BodyKeeps ==
  ASSUME SetInv, NEW c \in Proc, Body(c)
  PROVE  SetInv'
<1>1. pc[c] = "body" /\ cmd[c].op \notin MultiOps /\ CanAcquire(c, Locked(c), LockMode(c))
  BY Zenon DEF Body
<1>2. PICK o \in Outcomes(db, cmd[c]) :
        /\ db' = InPlace(c, o.map) /\ reply' = [reply EXCEPT ![c] = <<o.reply>>]
        /\ todo' = [todo EXCEPT ![c] = Later(c, o.map)]
        /\ \/ Later(c, o.map) = <<>> /\ pc' = [pc EXCEPT ![c] = "done"] /\ UNCHANGED keyLockVars
           \/ /\ Later(c, o.map) # <<>> /\ pc' = [pc EXCEPT ![c] = "run"]
              /\ Acquire(c, Locked(c), LockMode(c))
  BY Zenon DEF Body, Goto
<1>3. /\ due' = due /\ doomed' = doomed /\ passed' = passed /\ loose' = loose /\ cmd' = cmd
      /\ idx' = idx /\ kept' = kept /\ vals' = vals /\ result' = result
  BY Zenon DEF Body
<1> DEFINE t == Target(cmd[c])
           left == Later(c, o.map)
<1>4. /\ t \in Locked(c) /\ Locked(c) \subseteq Key
      /\ \A j \in Key : IsSource(cmd[c], j) => j \in Locked(c)
      /\ Touches(c, o.map) /\ ReadsOnly(c, o.map)
  BY <1>1, BodyTouches, Zenon
<1>5. Leaves(cmd[c].op, t, db[t], o.map[t], left, db'[t])
  BY <1>2, <1>4, Zenon DEF Touches
<1>6. \A j \in Key \ {t} : db'[j] = db[j] \/ (IsSource(cmd[c], j) /\ db'[j] = SetVal(db'[j].m))
  BY <1>2, <1>4, Zenon DEF Touches
<1>7. DOMAIN db' = Key
  BY <1>2, Zenon DEF InPlace
<1>8. IsValue(db[t]) /\ \A j \in Key : IsValue(db[j])
  BY <1>4, Zenon DEF SetInv, SetTypes
<1>9. IsValue(db'[t]) /\ (db[t] # Str => db'[t] # Str)
  BY <1>5, <1>8, Distinct, Zenon DEF Leaves, IsValue
<1>10. ASSUME NEW j \in Key
       PROVE  IsValue(db'[j]) /\ (db[j] # Str => db'[j] # Str)
  <2>1. CASE j = t
    BY <1>9, <2>1, Zenon
  <2>2. CASE db'[j] = db[j]
    BY <1>8, <2>2, Zenon
  <2>3. CASE db'[j] = SetVal(db'[j].m)
    BY <2>3, Distinct, Zenon
  <2> QED
    BY <1>6, <2>1, <2>2, <2>3, Zenon
<1>11. NoNewStrings(c)
  BY <1>10, Zenon DEF SetInv, SetTypes, NoNewStrings
<1>12. Excl'
  BY <1>2, ExclKept, Zenon DEF SetInv
<1>13. heldMode[c] = "none" /\ heldKeys[c] = {} /\ todo[c] = <<>> /\ cmd[c] # NoCommand
  BY <1>1, Zenon DEF SetInv, SetTypes, Holds, Runs, At
<1>14. CASE left = <<>>
  <2>1. pc' = [pc EXCEPT ![c] = "done"] /\ heldKeys' = heldKeys /\ heldMode' = heldMode
    BY <1>2, <1>14, Zenon DEF keyLockVars
  <2>2. SetTypes'
    BY <1>2, <1>3, <1>7, <1>10, <2>1, Zenon DEF SetInv, SetTypes, Labels
  <2>3. Holds(c)' /\ At(c)' /\ Runs(c)'
    BY <1>2, <1>3, <1>13, <1>14, <2>1, ZenonT(60) DEF SetInv, SetTypes, Holds, At, Runs
  <2>4. \A d \in Proc \ {c} : Same(d)
    BY <1>2, <1>3, <2>1, Zenon DEF SetInv, SetTypes, Same
  <2> QED
    BY <1>11, <1>12, <2>2, <2>3, <2>4, ClientStep, Zenon
<1>15. CASE left # <<>>
  <2>1. LockMode(c) = "w"
    BY <1>4, <1>15, Zenon DEF ReadsOnly, LockMode
  <2>2. /\ pc' = [pc EXCEPT ![c] = "run"]
        /\ heldKeys' = [heldKeys EXCEPT ![c] = Locked(c)] /\ heldMode' = [heldMode EXCEPT ![c] = "w"]
    BY <1>2, <1>15, <2>1, Zenon DEF Acquire
  <2>3. SetTypes'
    BY <1>2, <1>3, <1>4, <1>7, <1>10, <2>2, Zenon DEF SetInv, SetTypes, Labels
  <2>4. Holds(c)' /\ At(c)'
    BY <1>3, <1>13, <2>2, Zenon DEF SetInv, SetTypes, Holds, At
  <2>5. PICK k, s : k = t /\ s = left
    BY Zenon
  <2>6. Runs(c)'
    <3>1. pc'[c] = "run" /\ todo'[c] = s /\ k \in heldKeys'[c]
      BY <1>2, <1>4, <2>2, <2>5, Zenon DEF SetInv, SetTypes
    <3>2. Leaves(cmd[c].op, k, db[k], o.map[k], s, db'[k]) /\ s # <<>>
      BY <1>5, <1>15, <2>5, Zenon
    <3>3. Left(k, s)'
      <4>1. ASSUME NEW v, s = <<Set(k, v)>>  PROVE s[1].v = v
        BY <4>1, Zenon DEF Set
      <4> QED
        BY <3>2, <4>1, Distinct, Zenon DEF Left, Leaves
    <3> QED
      BY <3>1, <3>3, Zenon DEF Runs
  <2>7. \A d \in Proc \ {c} : Same(d)
    BY <1>2, <1>3, <2>2, Zenon DEF SetInv, SetTypes, Same
  <2> QED
    BY <1>11, <1>12, <2>3, <2>4, <2>6, <2>7, ClientStep, Zenon
<1> QED
  BY <1>14, <1>15, Zenon

-----------------------------------------------------------------------------
(* The invariant *)

\* Deadlines, and the deletions of the background goroutine.
LEMMA DeadlinesKeep ==
  ASSUME SetInv, NEW k \in Key, DeadlinePasses(k) \/ Collect(k) \/ CleanupDelete(k)
  PROVE  SetInv'
<1>1. /\ loose' = loose /\ pc' = pc /\ cmd' = cmd /\ idx' = idx /\ kept' = kept /\ vals' = vals
      /\ result' = result /\ todo' = todo /\ reply' = reply
      /\ heldKeys' = heldKeys /\ heldMode' = heldMode
  BY Zenon DEF DeadlinePasses, Collect, CleanupDelete, keyLockVars
<1>2. due' \in SUBSET Key /\ doomed' \in SUBSET Key /\ passed' \in Nat
  BY DEF SetInv, SetTypes, DeadlinePasses, Collect, CleanupDelete
<1>3. db' = db \/ db' = [db EXCEPT ![k] = None]
  BY Zenon DEF DeadlinePasses, Collect, CleanupDelete
<1>4. DOMAIN db' = Key /\ \A j \in Key : db'[j] = db[j] \/ db'[j] = None
  BY <1>3, Zenon DEF SetInv, SetTypes
<1>5. SetTypes'
  BY <1>1, <1>2, <1>4, Distinct, Zenon DEF SetInv, SetTypes
<1>6. Excl'
  BY <1>1, Zenon DEF SetInv, Excl
<1>7. \A c \in Proc : Same(c)
  BY <1>1, Zenon DEF Same
<1>8. PICK nobody : nobody \notin Proc
  BY NoSetContainsEverything, Zenon
<1>9. NoNewStrings(nobody)
  BY <1>4, Distinct, Zenon DEF SetInv, SetTypes, NoNewStrings
<1>10. \A c \in Proc : Holds(c)' /\ Runs(c)' /\ At(c)'
  BY <1>7, <1>8, <1>9, OthersStay, Zenon
<1> QED
  BY <1>5, <1>6, <1>10, Zenon DEF SetInv

LEMMA SetInit ==
  SetDbInit => SetInv
<1> SUFFICES ASSUME SetDbInit PROVE SetInv
  BY Zenon
<1>1. SetTypes
  <2>1. DOMAIN db = Key /\ \A k \in Key : IsValue(db[k])
    BY Distinct, Zenon DEF SetDbInit
  <2>2. kept \in [Proc -> Seq(Key)] /\ idx \in [Proc -> Nat] /\ passed \in Nat
    BY DEF SetDbInit
  <2>3. loose \in BOOLEAN
    BY Zenon DEF SetDbInit
  <2>4. pc \in [Proc -> Labels] /\ cmd \in [Proc -> Command \cup {NoCommand}]
    BY Zenon DEF SetDbInit, Labels
  <2>5. heldKeys \in [Proc -> SUBSET Key] /\ heldMode \in [Proc -> {"none", "r", "w"}]
    BY Zenon DEF SetDbInit, KeyLocksInit
  <2> QED
    BY <2>1, <2>2, <2>3, <2>4, <2>5, Zenon DEF SetDbInit, SetTypes
<1>2. Excl
  BY Zenon DEF SetDbInit, KeyLocksInit, Excl
<1>3. \A c \in Proc : Holds(c) /\ Runs(c) /\ At(c)
  BY Zenon DEF SetDbInit, KeyLocksInit, Holds, Runs, At
<1> QED
  BY <1>1, <1>2, <1>3, Zenon DEF SetInv

LEMMA SetStepKeeps ==
  SetInv /\ [SetDbNext]_setVars => SetInv'
<1> SUFFICES ASSUME SetInv, [SetDbNext]_setVars PROVE SetInv'
  BY Zenon
<1>1. ASSUME NEW c \in Proc, SetStep(c)
      PROVE  SetInv'
  <2>1. CASE CheckTTL(c)
    BY <2>1, CheckTTLKeeps, Zenon
  <2>2. CASE DeleteExpired(c)
    BY <2>2, DeleteExpiredKeeps, Zenon
  <2>3. CASE Body(c)
    BY <2>3, BodyKeeps, Zenon
  <2>4. CASE RunAccess(c)
    BY <2>4, RunAccessKeeps, Zenon
  <2>5. CASE Peek(c)
    BY <2>5, PeekKeeps, Zenon
  <2>6. CASE NothingKept(c)
    BY <2>6, NothingKeptKeeps, Zenon
  <2>7. CASE StartGather(c)
    BY <2>7, StartGatherKeeps, Zenon
  <2>8. CASE Gather(c)
    BY <2>8, GatherKeeps, Zenon
  <2>9. CASE EndGather(c)
    BY <2>9, EndGatherKeeps, Zenon
  <2>10. CASE Recheck(c)
    BY <2>10, RecheckKeeps, Zenon
  <2>11. CASE Redelete(c)
    BY <2>11, RedeleteKeeps, Zenon
  <2>12. CASE Store(c)
    BY <2>12, StoreKeeps, Zenon
  <2>13. CASE LockUnLock(c)
    BY <2>13, LockUnLockKeeps, Zenon
  <2>14. CASE UnionStore(c)
    BY <2>14, UnionStoreKeeps, Zenon
  <2>15. CASE Overwrite(c)
    BY <2>15, OverwriteKeeps, Zenon
  <2>16. CASE Return(c)
    BY <2>16, ReturnKeeps, Zenon
  <2> QED
    BY <1>1, <2>1, <2>2, <2>3, <2>4, <2>5, <2>6, <2>7, <2>8, <2>9, <2>10, <2>11, <2>12, <2>13,
       <2>14, <2>15, <2>16, ZenonT(60) DEF SetStep
<1>2. CASE UNCHANGED setVars
  <2>1. SetTypes' /\ Excl'
    BY <1>2, Zenon DEF setVars, SetInv, SetTypes, Excl
  <2>2. \A c \in Proc : Same(c)
    BY <1>2, Zenon DEF setVars, Same
  <2>3. PICK nobody : nobody \notin Proc
    BY NoSetContainsEverything, Zenon
  <2>4. NoNewStrings(nobody)
    BY <1>2, Zenon DEF setVars, NoNewStrings
  <2>5. \A c \in Proc : Holds(c)' /\ Runs(c)' /\ At(c)'
    BY <2>2, <2>3, <2>4, OthersStay, Zenon
  <2> QED
    BY <2>1, <2>5, Zenon DEF SetInv
<1> QED
  BY <1>1, <1>2, CallKeeps, DeadlinesKeep, Zenon DEF SetDbNext

\* In every state of the database: the values are of their types, the key locks
\* exclude each other, and every client holds the locks and has left to do what
\* its place in the handler says (set.go, db.go).
THEOREM SetInvariant == SetDbSpec => []SetInv
  BY SetInit, SetStepKeeps, PTL DEF SetDbSpec

\* Every handler of the set commands releases its key locks on every way out,
\* but for SINTERSTORE when it panics.
THEOREM SetLocksReleased == SetDbSpec => []LocksReleasedElsewhere
<1>1. SetInv => LocksReleasedElsewhere
  BY Zenon DEF SetInv, SetTypes, Holds, LocksReleasedElsewhere
<1> QED
  BY <1>1, SetInvariant, PTL

-----------------------------------------------------------------------------
(* How the value of a key changes *)

Overwritten(k) ==
  \E c \in Proc : /\ pc[c] = "overwrite" /\ cmd[c].op = "sunionstore" /\ Dest(c) = k
                 /\ result[c] # {} /\ db'[k] = SetVal(result[c])

\* The set of k is emptied by a handler that will delete it, or by SMOVE.
Emptied(k) ==
  /\ IsSet(db[k])
  /\ \E c \in Proc :
       \/ heldMode'[c] = "w" /\ todo'[c] = <<Delete(k), DelTTL(k)>>
       \/ pc[c] = "body" /\ IsSource(cmd[c], k)

\* The value of k stays, is deleted, becomes a string or a set; it becomes an
\* empty set, or a set in the place of a string, in few ways only.
Change(k) ==
  \/ db'[k] = db[k] \/ db'[k] = None \/ db'[k] = Str
  \/ Overwritten(k)
  \/ db[k] # Str /\ db'[k] # SetVal({})
  \/ db'[k] = SetVal({}) /\ Emptied(k)

LEMMA BodyChanges ==
  ASSUME SetInv, NEW c \in Proc, Body(c), NEW k \in Key
  PROVE  Change(k)
<1>1. pc[c] = "body" /\ cmd[c].op \notin MultiOps
  BY Zenon DEF Body
<1>2. PICK o \in Outcomes(db, cmd[c]) :
        /\ db' = InPlace(c, o.map) /\ todo' = [todo EXCEPT ![c] = Later(c, o.map)]
        /\ Later(c, o.map) # <<>> => Acquire(c, Locked(c), LockMode(c))
  BY Zenon DEF Body
<1>3. Touches(c, o.map) /\ ReadsOnly(c, o.map)
  BY <1>1, BodyTouches, Zenon
<1>4. CASE k = Target(cmd[c])
  <2>1. Leaves(cmd[c].op, k, db[k], o.map[k], Later(c, o.map), db'[k])
    BY <1>2, <1>3, <1>4, Zenon DEF Touches
  <2>2. ASSUME Later(c, o.map) = <<Delete(k), DelTTL(k)>>, IsSet(db[k])
        PROVE  Emptied(k)
    <3>1. Later(c, o.map) # <<>>
      BY <2>2
    <3>2. LockMode(c) = "w"
      BY <1>3, <3>1, Zenon DEF ReadsOnly, LockMode
    <3>3. heldMode'[c] = "w" /\ todo'[c] = <<Delete(k), DelTTL(k)>>
      BY <1>2, <2>2, <3>1, <3>2, Zenon DEF SetInv, SetTypes, Acquire
    <3> QED
      BY <2>2, <3>3, Zenon DEF Emptied
  <2> QED
    BY <2>1, <2>2, Distinct, Zenon DEF Leaves, Change
<1>5. CASE k # Target(cmd[c])
  <2>1. db'[k] = db[k] \/ (IsSource(cmd[c], k) /\ IsSet(db[k]))
    BY <1>2, <1>3, <1>5, Zenon DEF Touches
  <2> QED
    BY <1>1, <2>1, Distinct, Zenon DEF Change, Emptied
<1> QED
  BY <1>4, <1>5, Zenon

LEMMA RunChanges ==
  ASSUME SetInv, NEW c \in Proc, RunAccess(c), NEW k \in Key
  PROVE  Change(k)
<1>1. PICK j \in heldKeys[c] : NextAccess(c, j)
  BY RunIsNextAccess, Zenon
<1>2. j \in Key /\ DOMAIN db = Key
  BY Zenon DEF SetInv, SetTypes
<1>3. \/ db' = db \/ db' = [db EXCEPT ![j] = Str] \/ db' = [db EXCEPT ![j] = None]
      \/ db[j] # Str /\ \E S : S # {} /\ db' = [db EXCEPT ![j] = SetVal(S)]
  BY <1>1, Zenon DEF NextAccess
<1>4. \/ db'[k] = db[k] \/ db'[k] = Str \/ db'[k] = None
      \/ db[k] # Str /\ \E S : S # {} /\ db'[k] = SetVal(S)
  BY <1>2, <1>3, Zenon
<1>5. \A S : S # {} => SetVal(S) # SetVal({})
  BY Distinct
<1> QED
  BY <1>4, <1>5, Zenon DEF Change

LEMMA ValuesChange ==
  ASSUME SetInv, SetDbNext, NEW k \in Key
  PROVE  Change(k)
<1>1. DOMAIN db = Key
  BY Zenon DEF SetInv, SetTypes
<1>2. ASSUME NEW c \in Proc, Overwrite(c)
      PROVE  Change(k)
  <2>1. /\ pc[c] = "overwrite" /\ cmd[c].op = "sunionstore" /\ result[c] # {}
        /\ db' = [db EXCEPT ![Dest(c)] = SetVal(result[c])]
    BY <1>2, Zenon DEF SetInv, At, Overwrite
  <2>2. db'[k] = db[k] \/ (Dest(c) = k /\ db'[k] = SetVal(result[c]))
    BY <1>1, <2>1, Zenon
  <2> QED
    BY <2>1, <2>2, Zenon DEF Change, Overwritten
<1>3. ASSUME NEW c \in Proc, DeleteExpired(c) \/ Redelete(c)
      PROVE  Change(k)
  <2>1. db' = [db EXCEPT ![Checked(c)] = None] \/ db' = [db EXCEPT ![Dest(c)] = None]
    BY <1>3, Zenon DEF DeleteExpired, Redelete
  <2>2. db'[k] = db[k] \/ db'[k] = None
    BY <1>1, <2>1, Zenon
  <2> QED
    BY <2>2, Zenon DEF Change
<1>4. ASSUME NEW c \in Proc,
             \/ CheckTTL(c) \/ Peek(c) \/ NothingKept(c) \/ StartGather(c) \/ Gather(c) \/ EndGather(c)
             \/ Recheck(c) \/ Store(c) \/ LockUnLock(c) \/ UnionStore(c) \/ Return(c)
             \/ \E command \in Command : ExecCommand(c, command)
      PROVE  Change(k)
  <2>1. db' = db
    BY <1>4, Zenon DEF CheckTTL, Peek, NothingKept, StartGather, Gather, EndGather, Recheck, Store,
                LockUnLock, UnionStore, Return, ExecCommand
  <2> QED
    BY <2>1, Zenon DEF Change
<1>5. ASSUME NEW j \in Key, DeadlinePasses(j) \/ Collect(j) \/ CleanupDelete(j)
      PROVE  Change(k)
  <2>1. db' = db \/ db' = [db EXCEPT ![j] = None]
    BY <1>5, Zenon DEF DeadlinePasses, Collect, CleanupDelete
  <2>2. db'[k] = db[k] \/ db'[k] = None
    BY <1>1, <2>1, Zenon
  <2> QED
    BY <2>2, Zenon DEF Change
<1> QED
  BY <1>2, <1>3, <1>4, <1>5, BodyChanges, RunChanges, Zenon DEF SetDbNext, SetStep

\* SADD, SMOVE, SINTERSTORE and SDIFFSTORE never put a set in the place of a
\* string, whatever other clients do between their steps; SUNIONSTORE may.
THEOREM SetStringsKept == SetDbSpec => StringsKept
<1> DEFINE Kept == \A k \in Key : db[k] = Str /\ IsSet(db'[k]) =>
             \E c \in Proc : pc[c] = "overwrite" /\ cmd[c].op = "sunionstore" /\ Dest(c) = k
<1>1. ASSUME SetInv, SetDbNext  PROVE Kept
  <2> SUFFICES ASSUME NEW k \in Key, db[k] = Str, IsSet(db'[k])
               PROVE  \E c \in Proc : pc[c] = "overwrite" /\ cmd[c].op = "sunionstore" /\ Dest(c) = k
    BY Zenon
  <2>1. Change(k)
    BY <1>1, ValuesChange, Zenon
  <2> QED
    BY <2>1, Distinct, Zenon DEF Change, Overwritten, Emptied
<1>2. SetInv /\ [SetDbNext]_setVars => [Kept]_setVars
  BY <1>1, Zenon
<1> QED
  BY <1>2, SetInvariant, PTL DEF SetDbSpec, StringsKept

\* c is about to delete the set it has emptied.
Deleting(c, k) == heldMode[c] = "w" /\ Delete(k) \in KeySet(todo[c])

\* The steps of a client leave the accesses and the mode of the others alone.
LEMMA OwnAccesses ==
  ASSUME SetInv, NEW d \in Proc, SetStep(d) \/ \E command \in Command : ExecCommand(d, command)
  PROVE  \A c \in Proc \ {d} : todo'[c] = todo[c] /\ heldMode'[c] = heldMode[c]
<1>1. \/ UNCHANGED keyLockVars \/ Release(d) \/ \E ks, m : Acquire(d, ks, m)
  BY Zenon DEF SetStep, CheckTTL, DeleteExpired, Body, RunAccess, Peek, NothingKept, StartGather, Gather,
         EndGather, ReadUnlock, Recheck, Redelete, Store, StoreChecked, LockUnLock, UnionStore,
         Overwrite, Return, ExecCommand
<1>2. todo' = todo \/ \E s : todo' = [todo EXCEPT ![d] = s]
  BY Zenon DEF SetStep, CheckTTL, DeleteExpired, Body, RunAccess, Peek, NothingKept, StartGather, Gather,
         EndGather, Recheck, Redelete, Store, StoreChecked, LockUnLock, UnionStore,
         Overwrite, Return, ExecCommand
<1>3. heldMode' = heldMode \/ \E m : heldMode' = [heldMode EXCEPT ![d] = m]
  BY <1>1, Zenon DEF keyLockVars, Release, Acquire
<1>4. DOMAIN todo = Proc /\ DOMAIN heldMode = Proc
  BY Zenon DEF SetInv, SetTypes
<1> QED
  BY <1>2, <1>3, <1>4, Zenon

\* A deletion that is due stays due until it is done.
LEMMA DeletionStays ==
  ASSUME SetInv, SetDbNext, NEW c \in Proc, NEW k \in Key, Deleting(c, k)
  PROVE  Deleting(c, k)' \/ db'[k] = None
<1>1. pc[c] = "run"
  BY Zenon DEF SetInv, Holds, Deleting
<1>2. CASE todo'[c] = todo[c] /\ heldMode'[c] = heldMode[c]
  BY <1>2, Zenon DEF Deleting
<1>3. CASE RunAccess(c)
  <2>1. PICK j \in heldKeys[c] : NextAccess(c, j)
    BY <1>3, RunIsNextAccess, Zenon
  <2>2. \E i \in DOMAIN todo[c] : todo[c][i] = Delete(k)
    BY Zenon DEF Deleting, KeySet
  <2>3. /\ Delete(k) # DelTTL(j) /\ \A v : Delete(k) # Set(j, v)
        /\ Delete(k) = Delete(j) => k = j
    BY Zenon DEF Delete, DelTTL, Set
  <2>4. \/ todo[c] = <<DelTTL(j)>>
        \/ \E v : todo[c] = <<Set(j, v)>> \/ todo[c] = <<Set(j, v), DelTTL(j)>>
        \/ todo[c] = <<Delete(j), DelTTL(j)>> /\ db' = [db EXCEPT ![j] = None]
    BY <2>1, Zenon DEF NextAccess
  <2>5. todo[c] # <<DelTTL(j)>>
    BY <2>2, <2>3
  <2>6. \A v : todo[c] # <<Set(j, v)>> /\ todo[c] # <<Set(j, v), DelTTL(j)>>
    BY <2>2, <2>3
  <2>7. todo[c] = <<Delete(j), DelTTL(j)>> /\ db' = [db EXCEPT ![j] = None]
    BY <2>4, <2>5, <2>6, Zenon
  <2>8. k = j
    BY <2>2, <2>3, <2>7
  <2>9. DOMAIN db = Key
    BY Zenon DEF SetInv, SetTypes
  <2> QED
    BY <2>7, <2>8, <2>9, Zenon
<1>4. ASSUME NEW d \in Proc \ {c}, SetStep(d) \/ \E command \in Command : ExecCommand(d, command)
      PROVE  todo'[c] = todo[c] /\ heldMode'[c] = heldMode[c]
  BY <1>4, OwnAccesses, Zenon
<1>5. ASSUME SetStep(c) \/ \E command \in Command : ExecCommand(c, command)
      PROVE  RunAccess(c)
  BY <1>1, <1>5, Zenon DEF SetStep, CheckTTL, DeleteExpired, Body, Peek, NothingKept, StartGather, Gather,
         EndGather, Recheck, Redelete, Store, LockUnLock, UnionStore, Overwrite, Return, ExecCommand
<1>6. ASSUME NEW j \in Key, DeadlinePasses(j) \/ Collect(j) \/ CleanupDelete(j)
      PROVE  todo'[c] = todo[c] /\ heldMode'[c] = heldMode[c]
  BY <1>6, Zenon DEF DeadlinePasses, Collect, CleanupDelete, keyLockVars
<1> QED
  BY <1>2, <1>3, <1>4, <1>5, <1>6, Zenon DEF SetDbNext

\* SREM and SPOP delete the sets they empty before they release the lock, and no
\* STORE stores an empty set: only SMOVE leaves an empty set behind.
THEOREM SetNoEmptySets == SetDbSpec => EmptySetsOnlyFromSMove
<1> DEFINE Rule == \A k \in Key : LeftEmpty(k)' /\ ~LeftEmpty(k) =>
             \E c \in Proc : pc[c] = "body" /\ cmd[c].op = "smove" /\ cmd[c].keys[1] = k
<1>1. ASSUME SetInv, SetDbNext  PROVE Rule
  <2> SUFFICES ASSUME NEW k \in Key, LeftEmpty(k)', ~LeftEmpty(k)
               PROVE  \E c \in Proc : pc[c] = "body" /\ cmd[c].op = "smove" /\ cmd[c].keys[1] = k
    BY Zenon
  <2>1. db'[k] = SetVal({}) /\ \A c \in Proc : ~Deleting(c, k)'
    BY Zenon DEF LeftEmpty, Deleting
  <2>2. db'[k] # db[k]
    <3> SUFFICES ASSUME db[k] = SetVal({}) PROVE FALSE
      BY <2>1, Zenon
    <3>1. PICK c \in Proc : Deleting(c, k)
      BY Zenon DEF LeftEmpty, Deleting
    <3> QED
      BY <1>1, <2>1, <3>1, DeletionStays, Distinct, Zenon
  <2>3. Change(k)
    BY <1>1, ValuesChange, Zenon
  <2>4. Emptied(k)
    BY <2>1, <2>2, <2>3, Distinct, Zenon DEF Change, Overwritten
  <2>5. PICK c \in Proc :
          \/ heldMode'[c] = "w" /\ todo'[c] = <<Delete(k), DelTTL(k)>>
          \/ pc[c] = "body" /\ IsSource(cmd[c], k)
    BY <2>4, Zenon DEF Emptied
  <2>6. ASSUME heldMode'[c] = "w", todo'[c] = <<Delete(k), DelTTL(k)>>  PROVE FALSE
    <3>1. 1 \in DOMAIN todo'[c] /\ todo'[c][1] = Delete(k)
      BY <2>6
    <3>2. Deleting(c, k)'
      BY <2>6, <3>1, Zenon DEF Deleting, KeySet
    <3> QED
      BY <2>1, <3>2, Zenon
  <2> QED
    BY <2>5, <2>6, Zenon DEF IsSource
<1>2. SetInv /\ [SetDbNext]_setVars => [Rule]_setVars
  BY <1>1, Zenon
<1> QED
  BY <1>2, SetInvariant, PTL DEF SetDbSpec, EmptySetsOnlyFromSMove
=============================================================================
