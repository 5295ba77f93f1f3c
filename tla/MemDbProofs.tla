---------------------------- MODULE MemDbProofs -----------------------------
(***************************************************************************)
(* Theorems about module MemDb, for any set of clients, keys and commands: *)
(* its types, the mutual exclusion of its sections, and that only keys     *)
(* with a deadline expire. Every handler is a Section (HandlerIsSection),  *)
(* so that invariants are proved for sections and not handler by handler.  *)
(***************************************************************************)
EXTENDS MemDb, FiniteSetTheorems, TLAPS

-----------------------------------------------------------------------------
(* Values and commands *)

\* The length and the sum of values are integers; wrap-around stays in int64.
LEMMA ValueTypes ==
  /\ None \in Value /\ Coll \in Value
  /\ \A n \in Int : IntVal(n) \in Value /\ Text(n) \in Value
  /\ \A n \in Int : IntVal(n) # None /\ Text(n) # None
  /\ Coll # None /\ ~IsBytes(None) /\ ~IsBytes(Coll)
  BY MaxLenAssumption DEF None, Coll, IntVal, Text, Value, IsBytes

LEMMA AddInt64Type ==
  ASSUME NEW x \in Int, NEW y \in Int
  PROVE  AddInt64(x, y) \in -MaxInt - 1 .. MaxInt
  <1> DEFINE m == 2 * (MaxInt + 1)
  <1>1. m \in Int /\ m > 0
    BY MaxIntAssumption
  <1>2. (x + y + MaxInt + 1) % m \in 0 .. m - 1
    BY <1>1, MaxIntAssumption
  <1>3. QED
    BY <1>2, MaxIntAssumption DEF AddInt64

LEMMA LengthType ==
  ASSUME NEW v \in Value
  PROVE  Length(v) \in Int
  <1>1. v.n \in Int
    BY Zenon DEF Value
  <1>2. ASSUME NEW a \in Int
        PROVE  Cardinality({e \in 1 .. 8 : a >= 10 ^ e}) \in Int
    <2> DEFINE S == {e \in 1 .. 8 : a >= 10 ^ e}
    <2>1. S \in SUBSET Nat /\ 8 \in Nat /\ \A s \in S : s <= 8
      OBVIOUS
    <2> HIDE DEF S
    <2>2. IsFiniteSet(S)
      BY <2>1, FS_BoundedSetOfNaturals, Zenon
    <2>3. Cardinality(S) \in Int
      BY <2>2, FS_CardinalityType
    <2>4. QED
      BY <2>3, Zenon DEF S
  <1>3. FormatLen(v.n) \in Int
    BY <1>1, <1>2 DEF FormatLen
  <1>4. QED
    BY <1>1, <1>3, Zenon DEF Length

LEMMA ReplyTypes ==
  /\ \A n \in Int : Number(n) \in Reply
  /\ Ok \in Reply /\ Nil \in Reply /\ WrongType \in Reply /\ Error \in Reply
  /\ TypeName("none") \in Reply /\ TypeName("string") \in Reply
  /\ \A v \in Value : v \in Reply /\ TypeName(v.t) \in Reply
  BY DEF Number, Ok, Nil, WrongType, Error, TypeName, Reply, Value

LEMMA CommandTypes ==
  ASSUME NEW c \in Command
  PROVE  /\ c.arg \in Int
         /\ c.keys \in Seq(Key) /\ Len(c.keys) >= 1
         /\ c.vals \in Seq(Value)
         /\ \A i \in 1 .. Len(c.vals) : c.vals[i] \in Value /\ c.vals[i] # None
         /\ KeysOf(c) \subseteq Key
         /\ \A i \in 1 .. Len(c.keys) : c.keys[i] \in KeysOf(c)
  <1>1. /\ c.arg \in Int
        /\ c.keys \in Seq(Key) /\ Len(c.keys) >= 1
        /\ c.vals \in Seq({v \in Value : IsBytes(v)})
    BY CommandAssumption, Zenon
  <1>2. \A i \in 1 .. Len(c.vals) : c.vals[i] \in Value /\ IsBytes(c.vals[i])
    BY <1>1
  <1>3. c.vals \in Seq(Value)
    BY <1>1, <1>2
  <1>4. QED
    BY <1>1, <1>2, <1>3, ValueTypes DEF KeysOf

-----------------------------------------------------------------------------
(* Every handler is a section *)

\* What an access left for later has to satisfy in a section on keys ks.
AccessOK(c, ks, m, a) ==
  /\ a \in Access
  /\ a.k \in ks
  /\ a.do = "readttl" \/ m = "w"
  /\ a.do \in {"getforttl", "putttl"} => a.k \in DeadlineKeys(cmd[c])
  /\ a.do = "delete" => cmd[c].op = "rename" /\ a.k \in KeysOf(cmd[c])
  /\ a.do = "set" => a.v # None

RestOK(c, ks, m, rest) ==
  /\ rest \in Seq(Access)
  /\ \A i \in 1 .. Len(rest) : AccessOK(c, ks, m, rest[i])

\* What the first step of a section may do to the map and to the index.
MapStep(c) ==
  /\ db' \in [Key -> Value]
  /\ ttl' \in [Key -> Int \cup {NoTTL}]
  /\ \A k \in Key : ttl'[k] = ttl[k] \/ ttl'[k] = NoTTL
  /\ \A k \in Key : db[k] # None /\ db'[k] = None =>
                      cmd[c].op = "del" /\ k \in KeysOf(cmd[c])

\* The first step of any handler.
HandlerPost(c) ==
  /\ MapStep(c)
  /\ UNCHANGED <<now, cmd, at, cleanVars, volatile>>
  /\ res' = [res EXCEPT ![c] = res'[c]] /\ res'[c] \in Seq(Reply)
  /\ todo' = [todo EXCEPT ![c] = todo'[c]]
  /\ RestOK(c, heldKeys'[c], heldMode'[c], todo'[c])
  /\ \/ /\ todo'[c] = <<>>
        /\ NextKey(c)
        /\ UNCHANGED keyLockVars
     \/ /\ todo'[c] # <<>>
        /\ pc' = [pc EXCEPT ![c] = "run"]
        /\ UNCHANGED <<idx, clk>>
        /\ heldKeys' = [heldKeys EXCEPT ![c] = heldKeys'[c]]
        /\ heldMode' = [heldMode EXCEPT ![c] = heldMode'[c]]
        /\ heldKeys'[c] \in SUBSET Key
        /\ heldMode'[c] \in {"r", "w"}
        /\ CanAcquire(c, heldKeys'[c], heldMode'[c])

LEMMA SectionPost ==
  ASSUME NEW c \in Proc, MemDbTypeOK,
         NEW STATE ks, NEW STATE m, NEW STATE r, NEW STATE rest,
         ks \in SUBSET Key, m \in {"r", "w"}, r \in Seq(Reply),
         RestOK(c, ks, m, rest), MapStep(c),
         Section(c, ks, m, r, rest)
  PROVE  HandlerPost(c)
  <1>1. /\ todo' = [todo EXCEPT ![c] = rest] /\ todo'[c] = rest
        /\ res' = [res EXCEPT ![c] = res[c] \o r]
        /\ res'[c] = res[c] \o r
    BY Zenon DEF Section, MemDbTypeOK
  <1>2. res'[c] \in Seq(Reply)
    BY <1>1 DEF MemDbTypeOK
  <1>3. CASE rest = <<>>
    <2>1. NextKey(c) /\ UNCHANGED keyLockVars
      BY <1>3, Zenon DEF Section
    <2>2. todo'[c] = <<>>
      BY <1>1, <1>3, Zenon
    <2>3. RestOK(c, heldKeys'[c], heldMode'[c], todo'[c])
      BY <2>2 DEF RestOK, AccessOK
    <2>4. QED
      BY <1>1, <1>2, <1>3, <2>1, <2>2, <2>3, Zenon DEF HandlerPost, Section
  <1>4. CASE rest # <<>>
    <2>1. Acquire(c, ks, m)
      BY <1>4, Zenon DEF Section
    <2>2. heldKeys'[c] = ks /\ heldMode'[c] = m
      BY <2>1, Zenon DEF Acquire, MemDbTypeOK
    <2>3. /\ heldKeys' = [heldKeys EXCEPT ![c] = heldKeys'[c]]
          /\ heldMode' = [heldMode EXCEPT ![c] = heldMode'[c]]
          /\ CanAcquire(c, heldKeys'[c], heldMode'[c])
      BY <2>1, <2>2, Zenon DEF Acquire, CanAcquire
    <2>4. RestOK(c, heldKeys'[c], heldMode'[c], todo'[c])
      BY <1>1, <2>2, Zenon DEF RestOK, AccessOK
    <2>5. QED
      BY <1>1, <1>2, <1>4, <2>2, <2>3, <2>4, Zenon DEF HandlerPost, Section
  <1>5. QED
    BY <1>3, <1>4, Zenon

\* The key a goroutine is at is a key of its command.
LEMMA CurrentKeyType ==
  ASSUME MemDbTypeOK, NEW c \in Proc, pc[c] # "idle"
  PROVE  /\ cmd[c] \in Command
         /\ CurrentKey(c) \in Key /\ CurrentKey(c) \in KeysOf(cmd[c])
         /\ db[CurrentKey(c)] \in Value
  BY CommandTypes, Zenon DEF MemDbTypeOK, CurrentKey

LEMMA UpdatePost ==
  ASSUME NEW c \in Proc, MemDbTypeOK, pc[c] = "body",
         NEW STATE reply, NEW STATE rest,
         reply \in Reply, RestOK(c, {CurrentKey(c)}, "w", rest),
         UpdateSection(c, reply, rest)
  PROVE  HandlerPost(c)
  <1>1. MapStep(c)
    BY Zenon DEF UpdateSection, MapStep, MemDbTypeOK
  <1>2. {CurrentKey(c)} \in SUBSET Key /\ <<reply>> \in Seq(Reply)
    BY CurrentKeyType
  <1>3. Section(c, {CurrentKey(c)}, "w", <<reply>>, rest)
    BY Zenon DEF UpdateSection
  <1>4. QED
    BY <1>1, <1>2, <1>3, SectionPost, Zenon

LEMMA ReadPost ==
  ASSUME NEW c \in Proc, MemDbTypeOK, pc[c] = "body",
         NEW STATE reply, reply \in Reply,
         ReadSection(c, reply)
  PROVE  HandlerPost(c)
  <1>1. MapStep(c)
    BY Zenon DEF ReadSection, MapStep, MemDbTypeOK
  <1>2. {CurrentKey(c)} \in SUBSET Key /\ <<reply>> \in Seq(Reply)
    BY CurrentKeyType
  <1>3. Section(c, {CurrentKey(c)}, "r", <<reply>>, <<>>)
    BY Zenon DEF ReadSection
  <1>4. RestOK(c, {CurrentKey(c)}, "r", <<>>)
    BY DEF RestOK
  <1>5. QED
    BY <1>1, <1>2, <1>3, <1>4, SectionPost, Zenon

LEMMA ReadHandlers ==
  ASSUME NEW c \in Proc, MemDbTypeOK,
         GetString(c) \/ MGetString(c) \/ StrLenString(c) \/ ExistsKey(c) \/ TypeKey(c)
  PROVE  HandlerPost(c)
  <1> DEFINE v == db[CurrentKey(c)]
  <1>1. pc[c] = "body"
    BY Zenon DEF GetString, MGetString, StrLenString, ExistsKey, TypeKey, InBody
  <1>2. v \in Value /\ Length(v) \in Int
    BY <1>1, CurrentKeyType, LengthType, Zenon
  <1>3. CASE GetString(c)
    <2> DEFINE r == IF v = None THEN Nil ELSE IF IsBytes(v) THEN v ELSE WrongType
    <2>1. r \in Reply
      BY <1>2, ReplyTypes, Zenon
    <2>2. ReadSection(c, r)
      BY <1>3, Zenon DEF GetString
    <2> HIDE DEF r
    <2>3. QED
      BY <1>1, <2>1, <2>2, ReadPost, Zenon
  <1>4. CASE MGetString(c)
    <2> DEFINE r == IF IsBytes(v) THEN v ELSE Nil
    <2>1. r \in Reply
      BY <1>2, ReplyTypes, Zenon
    <2>2. ReadSection(c, r)
      BY <1>4, Zenon DEF MGetString
    <2> HIDE DEF r
    <2>3. QED
      BY <1>1, <2>1, <2>2, ReadPost, Zenon
  <1>5. CASE StrLenString(c)
    <2> DEFINE r == IF v = None THEN Nil
                    ELSE IF IsBytes(v) THEN Number(Length(v)) ELSE WrongType
    <2>1. r \in Reply
      BY <1>2, ReplyTypes, Zenon
    <2>2. ReadSection(c, r)
      BY <1>5, Zenon DEF StrLenString
    <2> HIDE DEF r
    <2>3. QED
      BY <1>1, <2>1, <2>2, ReadPost, Zenon
  <1>6. CASE ExistsKey(c)
    <2> DEFINE r == Number(IF db[CurrentKey(c)] = None THEN 0 ELSE 1)
    <2>1. r \in Reply
      BY ReplyTypes
    <2>2. ReadSection(c, r)
      BY <1>6, Zenon DEF ExistsKey
    <2> HIDE DEF r
    <2>3. QED
      BY <1>1, <2>1, <2>2, ReadPost, Zenon
  <1>7. CASE TypeKey(c)
    <2> DEFINE r == TypeName(IF IsBytes(v) THEN "string" ELSE v.t)
    <2>1. r \in Reply
      BY <1>2, ReplyTypes, Zenon
    <2>2. ReadSection(c, r)
      BY <1>7, Zenon DEF TypeKey
    <2> HIDE DEF r
    <2>3. QED
      BY <1>1, <2>1, <2>2, ReadPost, Zenon
  <1>8. QED
    BY <1>3, <1>4, <1>5, <1>6, <1>7, Zenon

\* TTL leaves one access, which only reads.
LEMMA TtlHandler ==
  ASSUME NEW c \in Proc, MemDbTypeOK, TtlKey(c)
  PROVE  HandlerPost(c)
  <1> DEFINE k == CurrentKey(c)
  <1>1. pc[c] = "body" /\ k \in Key
    BY CurrentKeyType, Zenon DEF TtlKey, InBody
  <1>2. CASE db[k] = None
    <2>1. ReadSection(c, Number(-2)) /\ Number(-2) \in Reply
      BY <1>2, ReplyTypes DEF TtlKey
    <2>2. QED
      BY <1>1, <2>1, ReadPost, Zenon
  <1>3. CASE db[k] # None
    <2>1. Section(c, {k}, "r", <<>>, <<ReadTTL(k)>>)
      BY <1>3, Zenon DEF TtlKey
    <2>2. MapStep(c)
      BY <1>3, Zenon DEF TtlKey, MapStep, MemDbTypeOK
    <2>3. RestOK(c, {k}, "r", <<ReadTTL(k)>>)
      BY <1>1, ValueTypes DEF RestOK, AccessOK, Access, ReadTTL
    <2>4. {k} \in SUBSET Key /\ <<>> \in Seq(Reply)
      BY <1>1
    <2> HIDE DEF k
    <2>5. QED
      BY <2>1, <2>2, <2>3, <2>4, SectionPost, Zenon
  <1>4. QED
    BY <1>2, <1>3, Zenon

\* The accesses that the sections on one key leave.
LEMMA RestOfOne ==
  ASSUME NEW c \in Proc, MemDbTypeOK, pc[c] # "idle",
         NEW k \in Key, NEW v \in Value, v # None
  PROVE  /\ RestOK(c, {k}, "w", <<>>)
         /\ RestOK(c, {k}, "w", <<SetDb(k, v)>>)
         /\ RestOK(c, {k}, "w", <<RemoveTTL(k)>>)
         /\ k \in DeadlineKeys(cmd[c]) => RestOK(c, {k}, "w", SetTTL(k))
  BY ValueTypes DEF RestOK, AccessOK, Access, SetDb, RemoveTTL, SetTTL, GetForTTL, PutTTL

LEMMA RestConcat ==
  ASSUME NEW c, NEW ks, NEW m, NEW s, NEW t,
         RestOK(c, ks, m, s), RestOK(c, ks, m, t)
  PROVE  RestOK(c, ks, m, s \o t)
  <1>1. s \in Seq(Access) /\ t \in Seq(Access)
    BY Zenon DEF RestOK
  <1>2. s \o t \in Seq(Access) /\ Len(s \o t) = Len(s) + Len(t)
    BY <1>1
  <1>3. ASSUME NEW i \in 1 .. Len(s \o t)
        PROVE  AccessOK(c, ks, m, (s \o t)[i])
    <2>1. CASE i <= Len(s)
      <3>1. (s \o t)[i] = s[i] /\ i \in 1 .. Len(s)
        BY <1>1, <1>2, <2>1
      <3>2. QED
        BY <3>1, Zenon DEF RestOK
    <2>2. CASE i > Len(s)
      <3>1. (s \o t)[i] = t[i - Len(s)] /\ i - Len(s) \in 1 .. Len(t)
        BY <1>1, <1>2, <2>2
      <3>2. QED
        BY <3>1, Zenon DEF RestOK
    <2>3. QED
      BY <1>1, <1>2, <2>1, <2>2
  <1>4. QED
    BY <1>2, <1>3, Zenon DEF RestOK

LEMMA SetHandler ==
  ASSUME NEW c \in Proc, MemDbTypeOK, todo[c] = <<>>, SetString(c)
  PROVE  HandlerPost(c)
  <1> DEFINE k        == CurrentKey(c)
             opt      == cmd[c].opt
             old      == db[k]
             conflict == {"nx", "xx"} \subseteq opt \/ {"ex", "keepttl"} \subseteq opt
             write    == ("nx" \in opt => old = None) /\ ("xx" \in opt => old # None)
             reply    == IF "get" \in opt THEN IF old = None THEN Nil ELSE old
                         ELSE IF write THEN Ok ELSE Nil
             sets     == IF write THEN <<SetDb(k, cmd[c].vals[1])>> ELSE <<>>
             removes  == IF "keepttl" \in opt THEN <<>> ELSE <<RemoveTTL(k)>>
             puts     == IF "ex" \in opt THEN SetTTL(k) ELSE <<>>
             rest     == sets \o removes \o puts
  <1>1. pc[c] = "body" /\ cmd[c].op = "set"
    BY Zenon DEF SetString, InBody
  <1>2. /\ k \in Key /\ k \in KeysOf(cmd[c]) /\ old \in Value
        /\ cmd[c] \in Command
    BY <1>1, CurrentKeyType, Zenon
  <1>3. cmd[c].vals[1] \in Value /\ cmd[c].vals[1] # None
    <2>1. cmd[c].vals \in Seq(Value) /\ Len(cmd[c].vals) >= 1
      BY <1>1, <1>2, CommandTypes, CommandAssumption, Zenon
    <2>2. QED
      BY <1>2, <2>1, CommandTypes
  <1>4. CASE conflict
    <2>1. /\ res' = [res EXCEPT ![c] = <<Error>>]
          /\ NextKey(c)
          /\ UNCHANGED <<db, ttl, now, cmd, at, todo, cleanVars, volatile, keyLockVars>>
      BY <1>4, Zenon DEF SetString
    <2>2. MapStep(c)
      BY <2>1, Zenon DEF MapStep, MemDbTypeOK
    <2>3. todo' = [todo EXCEPT ![c] = todo'[c]] /\ todo'[c] = <<>>
      BY <2>1, Zenon DEF MemDbTypeOK
    <2>4. RestOK(c, heldKeys'[c], heldMode'[c], todo'[c])
      BY <2>3 DEF RestOK, AccessOK
    <2>5. res' = [res EXCEPT ![c] = res'[c]] /\ res'[c] \in Seq(Reply)
      BY <2>1, ReplyTypes DEF MemDbTypeOK
    <2>6. QED
      BY <2>1, <2>2, <2>3, <2>4, <2>5, Zenon DEF HandlerPost
  <1>5. CASE ~conflict /\ (old = None \/ IsBytes(old))
    <2>1. UpdateSection(c, reply, rest)
      BY <1>5, ValueTypes, Zenon DEF SetString
    <2>2. reply \in Reply
      BY <1>2, ReplyTypes, Zenon
    <2>3. RestOK(c, {k}, "w", sets) /\ RestOK(c, {k}, "w", removes)
      BY <1>1, <1>2, <1>3, RestOfOne, Zenon
    <2>4. RestOK(c, {k}, "w", puts)
      <3>1. "ex" \in opt => k \in DeadlineKeys(cmd[c])
        BY <1>2, Zenon DEF DeadlineKeys, SetsDeadline
      <3>2. QED
        BY <1>1, <1>2, <1>3, <3>1, RestOfOne, Zenon
    <2> HIDE DEF reply, sets, removes, puts
    <2>5. RestOK(c, {k}, "w", rest)
      BY <2>3, <2>4, RestConcat, Zenon
    <2> HIDE DEF rest
    <2>6. QED
      BY <1>1, <2>1, <2>2, <2>5, UpdatePost, Zenon
  <1>6. CASE ~conflict /\ old # None /\ ~IsBytes(old)
    <2>1. UpdateSection(c, WrongType, <<>>)
      BY <1>6, Zenon DEF SetString
    <2>2. WrongType \in Reply /\ RestOK(c, {k}, "w", <<>>)
      BY <1>1, <1>2, <1>3, RestOfOne, ReplyTypes, Zenon
    <2>3. QED
      BY <1>1, <2>1, <2>2, UpdatePost, Zenon
  <1>7. QED
    BY <1>4, <1>5, <1>6, Zenon

LEMMA SetNxHandler ==
  ASSUME NEW c \in Proc, MemDbTypeOK, SetNxString(c)
  PROVE  HandlerPost(c)
  <1> DEFINE k == CurrentKey(c)
             r == <<Number(IF db[k] = None THEN 1 ELSE 0)>>
  <1>1. pc[c] = "body" /\ cmd[c].op = "setnx"
    BY Zenon DEF SetNxString, InBody
  <1>2. k \in Key /\ cmd[c] \in Command
    BY <1>1, CurrentKeyType, Zenon
  <1>3. cmd[c].vals[1] \in Value /\ cmd[c].vals[1] # None
    <2>1. cmd[c].vals \in Seq(Value) /\ Len(cmd[c].vals) >= 1
      BY <1>1, <1>2, CommandTypes, CommandAssumption, Zenon
    <2>2. QED
      BY <1>2, <2>1, CommandTypes
  <1>4. MapStep(c)
    BY <1>2, <1>3, Zenon DEF SetNxString, MapStep, MemDbTypeOK
  <1>5. r \in Seq(Reply) /\ {k} \in SUBSET Key
    BY <1>2, ReplyTypes
  <1>6. RestOK(c, {k}, "w", <<>>)
    BY <1>1, <1>2, <1>3, RestOfOne, Zenon
  <1>7. Section(c, {k}, "w", r, <<>>)
    BY Zenon DEF SetNxString
  <1> HIDE DEF k, r
  <1>8. QED
    BY <1>4, <1>5, <1>6, <1>7, SectionPost, Zenon

LEMMA SetExHandler ==
  ASSUME NEW c \in Proc, MemDbTypeOK, SetExString(c)
  PROVE  HandlerPost(c)
  <1> DEFINE k == CurrentKey(c)
             rest == <<SetDb(k, cmd[c].vals[1])>> \o SetTTL(k)
  <1>1. pc[c] = "body" /\ cmd[c].op = "setex"
    BY Zenon DEF SetExString, InBody
  <1>2. k \in Key /\ cmd[c] \in Command /\ k \in DeadlineKeys(cmd[c])
    BY <1>1, CurrentKeyType, Zenon DEF DeadlineKeys, SetsDeadline
  <1>3. cmd[c].vals[1] \in Value /\ cmd[c].vals[1] # None
    <2>1. cmd[c].vals \in Seq(Value) /\ Len(cmd[c].vals) >= 1
      BY <1>1, <1>2, CommandTypes, CommandAssumption, Zenon
    <2>2. QED
      BY <1>2, <2>1, CommandTypes
  <1>4. RestOK(c, {k}, "w", <<SetDb(k, cmd[c].vals[1])>>) /\ RestOK(c, {k}, "w", SetTTL(k))
    BY <1>1, <1>2, <1>3, RestOfOne, Zenon
  <1>5. RestOK(c, {k}, "w", rest)
    BY <1>4, RestConcat, Zenon
  <1>6. UpdateSection(c, Ok, rest) /\ Ok \in Reply
    BY ReplyTypes, Zenon DEF SetExString
  <1> HIDE DEF rest
  <1>7. QED
    BY <1>1, <1>5, <1>6, UpdatePost, Zenon

LEMMA MSetHandler ==
  ASSUME NEW c \in Proc, MemDbTypeOK, MSetString(c)
  PROVE  HandlerPost(c)
  <1> DEFINE keys == cmd[c].keys
             vals == cmd[c].vals
             access(j) == IF j % 2 = 1 THEN RemoveTTL(keys[(j + 1) \div 2])
                          ELSE SetDb(keys[j \div 2], vals[j \div 2])
             rest == [j \in 1 .. 2 * Len(keys) |-> access(j)]
             ks   == KeysOf(cmd[c])
  <1>1. pc[c] = "body" /\ cmd[c].op = "mset"
    BY Zenon DEF MSetString, InBody
  <1>2. cmd[c] \in Command
    BY <1>1, CurrentKeyType, Zenon
  <1>3. /\ keys \in Seq(Key) /\ Len(keys) \in Nat /\ Len(vals) = Len(keys)
        /\ ks \in SUBSET Key
        /\ \A i \in 1 .. Len(keys) : keys[i] \in ks /\ keys[i] \in Key
        /\ \A i \in 1 .. Len(keys) : vals[i] \in Value /\ vals[i] # None
    <2>1. keys \in Seq(Key) /\ Len(vals) = Len(keys)
      BY <1>1, <1>2, CommandAssumption, Zenon
    <2>2. /\ ks \in SUBSET Key
          /\ \A i \in 1 .. Len(keys) : keys[i] \in ks
          /\ \A i \in 1 .. Len(vals) : vals[i] \in Value /\ vals[i] # None
      BY <1>2, CommandTypes, Zenon
    <2>3. QED
      BY <2>1, <2>2
  <1>4. ASSUME NEW j \in 1 .. 2 * Len(keys)
        PROVE  AccessOK(c, ks, "w", access(j))
    <2>1. CASE j % 2 = 1
      <3>1. (j + 1) \div 2 \in 1 .. Len(keys)
        BY <1>3, <2>1
      <3>2. QED
        BY <1>3, <2>1, <3>1, ValueTypes, Zenon DEF AccessOK, Access, RemoveTTL
    <2>2. CASE j % 2 # 1
      <3>1. j \div 2 \in 1 .. Len(keys)
        BY <1>3, <2>2
      <3>2. QED
        BY <1>3, <2>2, <3>1, Zenon DEF AccessOK, Access, SetDb
    <2>3. QED
      BY <2>1, <2>2, Zenon
  <1> HIDE DEF access
  <1>5. RestOK(c, ks, "w", rest)
    <2>1. \A j \in 1 .. 2 * Len(keys) : access(j) \in Access
      BY <1>4, Zenon DEF AccessOK
    <2>2. rest \in Seq(Access) /\ Len(rest) = 2 * Len(keys)
      BY <1>3, <2>1
    <2>3. QED
      BY <1>4, <2>2, Zenon DEF RestOK
  <1>6. Section(c, ks, "w", <<Ok>>, rest)
    BY Zenon DEF MSetString, access
  <1>7. MapStep(c)
    BY Zenon DEF MSetString, MapStep, MemDbTypeOK
  <1>8. <<Ok>> \in Seq(Reply) /\ ks \in SUBSET Key
    BY <1>3, ReplyTypes
  <1> HIDE DEF rest, ks
  <1>9. QED
    BY <1>5, <1>6, <1>7, <1>8, SectionPost, Zenon

\* INCR, INCRBY, DECR, DECRBY.
LEMMA AddHandler ==
  ASSUME NEW c \in Proc, MemDbTypeOK, pc[c] = "body",
         NEW STATE delta, delta \in Int, AddTo(c, delta)
  PROVE  HandlerPost(c)
  <1> DEFINE k == CurrentKey(c)
             v == db[k]
             was == IF v = None THEN 0 ELSE v.n
             sum == AddInt64(was, delta)
  <1>1. k \in Key /\ v \in Value /\ v.n \in Int
    BY CurrentKeyType, Zenon DEF Value
  <1>2. sum \in Int
    <2>1. was \in Int
      BY <1>1
    <2> HIDE DEF was
    <2>2. QED
      BY <2>1, AddInt64Type, MaxIntAssumption
  <1> HIDE DEF sum
  <1>3. IntVal(sum) \in Value /\ IntVal(sum) # None /\ Number(sum) \in Reply
    BY <1>2, ValueTypes, ReplyTypes, Zenon
  <1>4. RestOK(c, {k}, "w", <<SetDb(k, IntVal(sum))>>) /\ RestOK(c, {k}, "w", <<>>)
    BY <1>1, <1>3, RestOfOne, Zenon
  <1>5. \/ UpdateSection(c, Number(sum), <<SetDb(k, IntVal(sum))>>)
        \/ UpdateSection(c, Error, <<>>)
        \/ UpdateSection(c, WrongType, <<>>)
    BY Zenon DEF AddTo, sum
  <1>6. QED
    BY <1>3, <1>4, <1>5, ReplyTypes, UpdatePost, Zenon

LEMMA AddHandlers ==
  ASSUME NEW c \in Proc, MemDbTypeOK,
         IncrString(c) \/ IncrByString(c) \/ DecrString(c) \/ DecrByString(c)
  PROVE  HandlerPost(c)
  <1>1. pc[c] = "body"
    BY Zenon DEF IncrString, IncrByString, DecrString, DecrByString, InBody
  <1>2. cmd[c].arg \in Int
    BY <1>1, CurrentKeyType, CommandTypes, Zenon
  <1>3. AddTo(c, 1) \/ AddTo(c, -1) \/ AddTo(c, cmd[c].arg) \/ AddTo(c, -cmd[c].arg)
    BY Zenon DEF IncrString, IncrByString, DecrString, DecrByString
  <1>4. 1 \in Int /\ -1 \in Int /\ -cmd[c].arg \in Int
    BY <1>2
  <1>5. QED
    BY <1>1, <1>2, <1>3, <1>4, AddHandler, Zenon

\* APPEND and SETRANGE.
LEMMA BuildHandler ==
  ASSUME NEW c \in Proc, MemDbTypeOK, pc[c] = "body",
         NEW STATE n, n \in Int, BuildText(c, n)
  PROVE  HandlerPost(c)
  <1> DEFINE k == CurrentKey(c)
  <1>1. k \in Key
    BY CurrentKeyType, Zenon
  <1>2. Text(n) \in Value /\ Text(n) # None /\ Number(Text(n).n) \in Reply
    BY ValueTypes, ReplyTypes, Zenon DEF Value
  <1>3. RestOK(c, {k}, "w", <<SetDb(k, Text(n))>>) /\ RestOK(c, {k}, "w", <<>>)
    BY <1>1, <1>2, RestOfOne, Zenon
  <1>4. \/ UpdateSection(c, Number(Text(n).n), <<SetDb(k, Text(n))>>)
        \/ UpdateSection(c, WrongType, <<>>)
    BY Zenon DEF BuildText
  <1>5. QED
    BY <1>2, <1>3, <1>4, ReplyTypes, UpdatePost, Zenon

LEMMA BuildHandlers ==
  ASSUME NEW c \in Proc, MemDbTypeOK, AppendString(c) \/ SetRangeString(c)
  PROVE  HandlerPost(c)
  <1> DEFINE old == Length(db[CurrentKey(c)])
             new == Length(cmd[c].vals[1])
             required == cmd[c].arg + new
  <1>1. pc[c] = "body" /\ cmd[c].op \in {"append", "setrange"}
    BY Zenon DEF AppendString, SetRangeString, InBody
  <1>2. cmd[c] \in Command /\ old \in Int
    BY <1>1, CurrentKeyType, LengthType, Zenon
  <1>3. cmd[c].vals[1] \in Value /\ cmd[c].arg \in Int
    <2>1. cmd[c].vals \in Seq(Value) /\ Len(cmd[c].vals) >= 1
      BY <1>1, <1>2, CommandTypes, CommandAssumption, Zenon
    <2>2. QED
      BY <1>2, <2>1, CommandTypes
  <1>4. new \in Int
    BY <1>3, LengthType, Zenon
  <1>5. BuildText(c, old + new) \/ BuildText(c, IF required < old THEN old ELSE required)
    BY Zenon DEF AppendString, SetRangeString
  <1> HIDE DEF old, new
  <1>6. old + new \in Int /\ (IF required < old THEN old ELSE required) \in Int
    BY <1>2, <1>3, <1>4
  <1>7. QED
    BY <1>1, <1>5, <1>6, BuildHandler, Zenon

LEMMA SAddHandler ==
  ASSUME NEW c \in Proc, MemDbTypeOK, SAddSet(c)
  PROVE  HandlerPost(c)
  <1> DEFINE k == CurrentKey(c)
  <1>1. pc[c] = "body"
    BY Zenon DEF SAddSet, InBody
  <1>2. k \in Key
    BY <1>1, CurrentKeyType, Zenon
  <1>3. RestOK(c, {k}, "w", <<SetDb(k, Coll)>>) /\ RestOK(c, {k}, "w", <<>>)
    BY <1>1, <1>2, ValueTypes, RestOfOne, Zenon
  <1>4. \/ UpdateSection(c, Number(1), <<SetDb(k, Coll)>>)
        \/ UpdateSection(c, Number(0), <<>>)
        \/ UpdateSection(c, WrongType, <<>>)
    BY Zenon DEF SAddSet
  <1>5. Number(0) \in Reply /\ Number(1) \in Reply /\ WrongType \in Reply
    BY ReplyTypes
  <1>6. QED
    BY <1>1, <1>3, <1>4, <1>5, UpdatePost, Zenon

LEMMA DelHandler ==
  ASSUME NEW c \in Proc, MemDbTypeOK, DelKey(c)
  PROVE  HandlerPost(c)
  <1> DEFINE k == CurrentKey(c)
             r == <<Number(IF db[k] = None THEN 0 ELSE 1)>>
  <1>1. pc[c] = "body" /\ cmd[c].op = "del"
    BY Zenon DEF DelKey, InBody
  <1>2. k \in Key /\ k \in KeysOf(cmd[c])
    BY <1>1, CurrentKeyType, Zenon
  <1>3. MapStep(c)
    BY <1>1, <1>2, ValueTypes, Zenon DEF DelKey, MapStep, MemDbTypeOK
  <1>4. RestOK(c, {k}, "w", <<RemoveTTL(k)>>)
    BY <1>1, <1>2, ValueTypes, RestOfOne, Zenon
  <1>5. r \in Seq(Reply) /\ {k} \in SUBSET Key
    BY <1>2, ReplyTypes
  <1>6. Section(c, {k}, "w", r, <<RemoveTTL(k)>>)
    BY Zenon DEF DelKey
  <1> HIDE DEF k, r
  <1>7. QED
    BY <1>3, <1>4, <1>5, <1>6, SectionPost, Zenon

LEMMA ExpireHandler ==
  ASSUME NEW c \in Proc, MemDbTypeOK, ExpireKey(c)
  PROVE  HandlerPost(c)
  <1> DEFINE k == CurrentKey(c)
  <1>1. pc[c] = "body" /\ cmd[c].op = "expire"
    BY Zenon DEF ExpireKey, InBody
  <1>2. k \in Key /\ k \in DeadlineKeys(cmd[c])
    BY <1>1, CurrentKeyType, Zenon DEF DeadlineKeys, SetsDeadline
  <1>3. RestOK(c, {k}, "w", SetTTL(k)) /\ RestOK(c, {k}, "w", <<>>)
    BY <1>1, <1>2, ValueTypes, RestOfOne, Zenon
  <1>4. CASE Section(c, {k}, "w", <<>>, SetTTL(k)) /\ UNCHANGED <<db, ttl>>
    <2>1. MapStep(c)
      BY <1>4, Zenon DEF MapStep, MemDbTypeOK
    <2>2. {k} \in SUBSET Key /\ <<>> \in Seq(Reply)
      BY <1>2
    <2> HIDE DEF k
    <2>3. QED
      BY <1>3, <1>4, <2>1, <2>2, SectionPost, Zenon
  <1>5. CASE UpdateSection(c, Number(0), <<>>) \/ UpdateSection(c, Error, <<>>)
    <2>1. Number(0) \in Reply /\ Error \in Reply
      BY ReplyTypes
    <2>2. QED
      BY <1>1, <1>3, <1>5, <2>1, UpdatePost, Zenon
  <1>6. QED
    BY <1>4, <1>5, Zenon DEF ExpireKey

LEMMA PersistHandler ==
  ASSUME NEW c \in Proc, MemDbTypeOK, PersistKey(c)
  PROVE  HandlerPost(c)
  <1> DEFINE k == CurrentKey(c)
  <1>1. pc[c] = "body"
    BY Zenon DEF PersistKey, InBody
  <1>2. k \in Key
    BY <1>1, CurrentKeyType, Zenon
  <1>3. MapStep(c)
    BY <1>2, Zenon DEF PersistKey, MapStep, MemDbTypeOK
  <1>4. RestOK(c, {k}, "w", <<>>)
    BY <1>1, <1>2, ValueTypes, RestOfOne, Zenon
  <1>5. <<Number(1)>> \in Seq(Reply) /\ {k} \in SUBSET Key
    BY <1>2, ReplyTypes
  <1>6. Section(c, {k}, "w", <<Number(1)>>, <<>>)
    BY Zenon DEF PersistKey
  <1> HIDE DEF k
  <1>7. QED
    BY <1>3, <1>4, <1>5, <1>6, SectionPost, Zenon

LEMMA RenameHandler ==
  ASSUME NEW c \in Proc, MemDbTypeOK, RenameKey(c)
  PROVE  HandlerPost(c)
  <1> DEFINE old  == cmd[c].keys[1]
             new  == cmd[c].keys[2]
             r    == <<IF db[old] = None THEN Error ELSE Ok>>
             rest == IF db[old] = None THEN <<>>
                     ELSE <<DeleteDb(old), RemoveTTL(old), DeleteDb(new), RemoveTTL(new),
                            SetDb(new, db[old])>>
  <1>1. pc[c] = "body" /\ cmd[c].op = "rename"
    BY Zenon DEF RenameKey, InBody
  <1>2. cmd[c] \in Command
    BY <1>1, CurrentKeyType, Zenon
  <1>3. /\ old \in Key /\ old \in KeysOf(cmd[c])
        /\ new \in Key /\ new \in KeysOf(cmd[c])
    <2>1. Len(cmd[c].keys) = 2
      BY <1>1, <1>2, CommandAssumption, Zenon
    <2>2. QED
      BY <1>2, <2>1, CommandTypes
  <1>4. RestOK(c, {old, new}, "w", rest)
    <2>1. CASE db[old] = None
      BY <2>1 DEF RestOK
    <2>2. CASE db[old] # None
      <3>1. db[old] \in Value
        BY <1>3, Zenon DEF MemDbTypeOK
      <3>2. /\ AccessOK(c, {old, new}, "w", DeleteDb(old))
            /\ AccessOK(c, {old, new}, "w", DeleteDb(new))
            /\ AccessOK(c, {old, new}, "w", RemoveTTL(old))
            /\ AccessOK(c, {old, new}, "w", RemoveTTL(new))
            /\ AccessOK(c, {old, new}, "w", SetDb(new, db[old]))
        BY <1>1, <1>3, <2>2, <3>1, ValueTypes, Zenon
           DEF AccessOK, Access, DeleteDb, RemoveTTL, SetDb
      <3>3. /\ DeleteDb(old) \in Access /\ DeleteDb(new) \in Access
            /\ RemoveTTL(old) \in Access /\ RemoveTTL(new) \in Access
            /\ SetDb(new, db[old]) \in Access
        BY <3>2, Zenon DEF AccessOK
      <3>4. rest = <<DeleteDb(old), RemoveTTL(old), DeleteDb(new), RemoveTTL(new),
                     SetDb(new, db[old])>>
        BY <2>2, Zenon
      <3> HIDE DEF rest, old, new
      <3>5. rest \in Seq(Access) /\ Len(rest) = 5
        BY <3>3, <3>4
      <3>6. /\ rest[1] = DeleteDb(old) /\ rest[2] = RemoveTTL(old)
            /\ rest[3] = DeleteDb(new) /\ rest[4] = RemoveTTL(new)
            /\ rest[5] = SetDb(new, db[old])
        BY <3>4, Zenon
      <3>7. \A i \in 1 .. Len(rest) : i = 1 \/ i = 2 \/ i = 3 \/ i = 4 \/ i = 5
        BY <3>5
      <3>8. QED
        BY <3>2, <3>5, <3>6, <3>7 DEF RestOK
    <2>3. QED
      BY <2>1, <2>2, Zenon
  <1>5. MapStep(c)
    BY Zenon DEF RenameKey, MapStep, MemDbTypeOK
  <1>6. r \in Seq(Reply) /\ {old, new} \in SUBSET Key
    BY <1>3, ReplyTypes
  <1>7. Section(c, {old, new}, "w", r, rest)
    BY Zenon DEF RenameKey
  <1> HIDE DEF r, rest, old, new
  <1>8. QED
    BY <1>4, <1>5, <1>6, <1>7, SectionPost, Zenon

LEMMA HandlerIsSection ==
  ASSUME NEW c \in Proc, MemDbTypeOK, SectionsExclusive, Handler(c)
  PROVE  HandlerPost(c) /\ pc[c] = "body" /\ todo[c] = <<>>
  <1>1. pc[c] = "body"
    BY Zenon DEF Handler, InBody, GetString, MGetString, StrLenString, ExistsKey, TypeKey, TtlKey,
           SetString, SetNxString, SetExString, MSetString, IncrString, IncrByString,
           DecrString, DecrByString, AppendString, SetRangeString, SAddSet, DelKey,
           ExpireKey, PersistKey, RenameKey
  <1>2. todo[c] = <<>>
    BY <1>1, Zenon DEF SectionsExclusive
  <1>3. QED
    BY <1>1, <1>2, ReadHandlers, TtlHandler, SetHandler, SetNxHandler, SetExHandler,
       MSetHandler, AddHandlers, BuildHandlers, SAddHandler, DelHandler, ExpireHandler,
       PersistHandler, RenameHandler, Zenon DEF Handler

-----------------------------------------------------------------------------
(* Types and the exclusion of sections *)

LEMMA NextKeyPost ==
  ASSUME NEW c \in Proc, MemDbTypeOK, pc[c] # "idle", NextKey(c)
  PROVE  /\ pc' = [pc EXCEPT ![c] = pc'[c]] /\ pc'[c] \in {"check", "done"}
         /\ idx' = [idx EXCEPT ![c] = idx'[c]]
         /\ clk' = [clk EXCEPT ![c] = clk'[c]] /\ clk'[c] \in 0 .. MaxTime
         /\ idx'[c] \in 1 .. Len(cmd[c].keys)
  <1> DEFINE again == cmd[c].op \in LoopOps /\ idx[c] < Len(cmd[c].keys)
  <1>1. /\ cmd[c] \in Command /\ Len(cmd[c].keys) \in Nat
        /\ idx[c] \in 1 .. Len(cmd[c].keys)
    BY CommandTypes DEF MemDbTypeOK
  <1>2. /\ pc' = [pc EXCEPT ![c] = IF again THEN "check" ELSE "done"]
        /\ idx' = [idx EXCEPT ![c] = IF again THEN @ + 1 ELSE @]
        /\ clk' = [clk EXCEPT ![c] = IF again THEN now ELSE 0]
    BY Zenon DEF NextKey
  <1>3. QED
    BY <1>1, <1>2, TimeAssumption DEF MemDbTypeOK

\* The variables of the client goroutines keep their types and sections stay
\* exclusive in a step of client c that changes nothing of another client.
ClientTypeOK(c) ==
  /\ pc[c] \in {"idle", "check", "expired", "body", "run", "done"}
  /\ cmd[c] \in Command \cup {NoCommand}
  /\ idx[c] \in Nat
  /\ clk[c] \in 0 .. MaxTime
  /\ at[c] \in Int
  /\ todo[c] \in Seq(Access)
  /\ res[c] \in Seq(Reply)
  /\ IF pc[c] = "idle" THEN idx[c] = 1
     ELSE cmd[c] \in Command /\ idx[c] \in 1 .. Len(cmd[c].keys)
  /\ heldKeys[c] \in SUBSET Key
  /\ heldMode[c] \in {"none", "r", "w"}

OnlyClient(c) ==
  /\ pc' = [pc EXCEPT ![c] = pc'[c]]
  /\ cmd' = [cmd EXCEPT ![c] = cmd'[c]]
  /\ idx' = [idx EXCEPT ![c] = idx'[c]]
  /\ clk' = [clk EXCEPT ![c] = clk'[c]]
  /\ at' = [at EXCEPT ![c] = at'[c]]
  /\ todo' = [todo EXCEPT ![c] = todo'[c]]
  /\ res' = [res EXCEPT ![c] = res'[c]]
  /\ heldKeys' = [heldKeys EXCEPT ![c] = heldKeys'[c]]
  /\ heldMode' = [heldMode EXCEPT ![c] = heldMode'[c]]

LEMMA ClientTypeStep ==
  ASSUME NEW c \in Proc, MemDbTypeOK, OnlyClient(c), ClientTypeOK(c)',
         db' \in [Key -> Value], ttl' \in [Key -> Int \cup {NoTTL}],
         volatile' \in SUBSET Key, UNCHANGED <<now, cleanVars>>
  PROVE  MemDbTypeOK'
  <1>1. /\ pc' \in [Proc -> {"idle", "check", "expired", "body", "run", "done"}]
        /\ cmd' \in [Proc -> Command \cup {NoCommand}]
        /\ idx' \in [Proc -> Nat]
        /\ clk' \in [Proc -> 0 .. MaxTime]
        /\ at' \in [Proc -> Int]
    BY Zenon DEF MemDbTypeOK, OnlyClient, ClientTypeOK
  <1>2. /\ todo' \in [Proc -> Seq(Access)]
        /\ res' \in [Proc -> Seq(Reply)]
        /\ heldKeys' \in [Proc -> SUBSET Key]
        /\ heldMode' \in [Proc -> {"none", "r", "w"}]
    BY Zenon DEF MemDbTypeOK, OnlyClient, ClientTypeOK
  <1>3. ASSUME NEW d \in Proc
        PROVE  IF pc'[d] = "idle" THEN idx'[d] = 1
               ELSE cmd'[d] \in Command /\ idx'[d] \in 1 .. Len(cmd'[d].keys)
    <2>1. CASE d = c
      BY <2>1, Zenon DEF ClientTypeOK
    <2>2. CASE d # c
      <3>1. pc'[d] = pc[d] /\ cmd'[d] = cmd[d] /\ idx'[d] = idx[d]
        BY <2>2, Zenon DEF MemDbTypeOK, OnlyClient
      <3>2. QED
        BY <3>1, Zenon DEF MemDbTypeOK
    <2>3. QED
      BY <2>1, <2>2, Zenon
  <1>4. QED
    BY <1>1, <1>2, <1>3, Zenon DEF MemDbTypeOK, cleanVars

\* Sections of the other clients are not affected.
LEMMA ClientExclusiveStep ==
  ASSUME NEW c \in Proc, MemDbTypeOK, SectionsExclusive, OnlyClient(c),
         pc'[c] = "run" <=> todo'[c] # <<>>,
         pc'[c] = "run" <=> heldMode'[c] # "none",
         heldMode'[c] = "none" => heldKeys'[c] = {},
         \A i \in DOMAIN todo'[c] : /\ todo'[c][i].k \in heldKeys'[c]
                                    /\ todo'[c][i].do = "readttl" \/ heldMode'[c] = "w",
         \A d \in Proc \ {c} :
           heldKeys'[c] \cap heldKeys[d] # {} => heldMode'[c] = "r" /\ heldMode[d] = "r"
  PROVE  SectionsExclusive'
  <1>1. \A d \in Proc \ {c} : /\ pc'[d] = pc[d] /\ todo'[d] = todo[d]
                              /\ heldKeys'[d] = heldKeys[d] /\ heldMode'[d] = heldMode[d]
    BY DEF OnlyClient, MemDbTypeOK
  <1>2. QED
    BY <1>1 DEF SectionsExclusive

LEMMA QuietStep ==
  ASSUME NEW c \in Proc, MemDbTypeOK, SectionsExclusive, OnlyClient(c),
         UNCHANGED <<todo, keyLockVars>>, pc[c] # "run", pc'[c] # "run"
  PROVE  SectionsExclusive'
  <1>1. /\ todo'[c] = todo[c] /\ heldKeys'[c] = heldKeys[c] /\ heldMode'[c] = heldMode[c]
    BY Zenon DEF keyLockVars
  <1>2. QED
    BY <1>1, ClientExclusiveStep DEF SectionsExclusive

LEMMA ExecCommandStep ==
  ASSUME MemDbTypeOK, SectionsExclusive,
         NEW c \in Proc, NEW command \in Command, ExecCommand(c, command)
  PROVE  MemDbTypeOK' /\ SectionsExclusive'
  <1>1. command.arg \in Int /\ KeysOf(command) \subseteq Key
        /\ Len(command.keys) \in Nat /\ Len(command.keys) >= 1
    BY CommandTypes
  <1>2. OnlyClient(c)
    BY Zenon DEF ExecCommand, OnlyClient, MemDbTypeOK, keyLockVars
  <1>3. ClientTypeOK(c)'
    BY <1>1, TimeAssumption DEF ExecCommand, ClientTypeOK, MemDbTypeOK, keyLockVars
  <1>4. volatile' \in SUBSET Key
    BY <1>1, Zenon DEF ExecCommand, MemDbTypeOK, DeadlineKeys
  <1>5. MemDbTypeOK'
    BY <1>2, <1>3, <1>4, ClientTypeStep, Zenon DEF ExecCommand, MemDbTypeOK
  <1>6. pc[c] # "run" /\ pc'[c] # "run"
    BY Zenon DEF ExecCommand, MemDbTypeOK
  <1>7. QED
    BY <1>2, <1>5, <1>6, QuietStep, Zenon DEF ExecCommand

LEMMA ReturnStep ==
  ASSUME MemDbTypeOK, SectionsExclusive, NEW c \in Proc, Return(c)
  PROVE  MemDbTypeOK' /\ SectionsExclusive'
  <1>1. OnlyClient(c)
    BY Zenon DEF Return, OnlyClient, MemDbTypeOK, keyLockVars
  <1>2. ClientTypeOK(c)'
    BY DEF Return, ClientTypeOK, MemDbTypeOK, keyLockVars
  <1>3. MemDbTypeOK'
    BY <1>1, <1>2, ClientTypeStep, Zenon DEF Return, MemDbTypeOK
  <1>4. pc[c] # "run" /\ pc'[c] # "run"
    BY Zenon DEF Return, MemDbTypeOK
  <1>5. QED
    BY <1>1, <1>3, <1>4, QuietStep, Zenon DEF Return

LEMMA CheckTTLStep ==
  ASSUME MemDbTypeOK, SectionsExclusive, NEW c \in Proc, CheckTTL(c)
  PROVE  MemDbTypeOK' /\ SectionsExclusive'
  <1>1. OnlyClient(c)
    BY Zenon DEF CheckTTL, OnlyClient, MemDbTypeOK, keyLockVars
  <1>2. ClientTypeOK(c)'
    BY TimeAssumption DEF CheckTTL, ClientTypeOK, MemDbTypeOK, keyLockVars
  <1>3. ttl' \in [Key -> Int \cup {NoTTL}]
    BY Zenon DEF CheckTTL, MemDbTypeOK
  <1>4. MemDbTypeOK'
    BY <1>1, <1>2, <1>3, ClientTypeStep, Zenon DEF CheckTTL, MemDbTypeOK
  <1>5. pc[c] # "run" /\ pc'[c] # "run"
    BY Zenon DEF CheckTTL, MemDbTypeOK
  <1>6. QED
    BY <1>1, <1>4, <1>5, QuietStep, Zenon DEF CheckTTL

LEMMA DeleteExpiredStep ==
  ASSUME MemDbTypeOK, SectionsExclusive, NEW c \in Proc, DeleteExpired(c)
  PROVE  MemDbTypeOK' /\ SectionsExclusive'
  <1>1. pc[c] = "expired" /\ cmd[c] \in Command /\ idx[c] \in 1 .. Len(cmd[c].keys)
    BY Zenon DEF DeleteExpired, MemDbTypeOK
  <1>2. /\ pc' = [pc EXCEPT ![c] = pc'[c]] /\ pc'[c] \in {"check", "done", "body"}
        /\ idx' = [idx EXCEPT ![c] = idx'[c]] /\ idx'[c] \in 1 .. Len(cmd[c].keys)
        /\ clk' = [clk EXCEPT ![c] = clk'[c]] /\ clk'[c] \in 0 .. MaxTime
    <2>1. CASE NextKey(c)
      BY <1>1, <2>1, NextKeyPost, Zenon
    <2>2. CASE pc' = [pc EXCEPT ![c] = "body"] /\ UNCHANGED <<idx, clk>>
      BY <1>1, <2>2, Zenon DEF MemDbTypeOK
    <2>3. QED
      BY <2>1, <2>2, Zenon DEF DeleteExpired
  <1>3. res' = [res EXCEPT ![c] = res'[c]] /\ res'[c] \in Seq(Reply)
    <2>1. CASE res' = [res EXCEPT ![c] = Append(@, ExpiredReply(cmd[c].op))]
               /\ cmd[c].op \in StopOps
      <3>1. ExpiredReply(cmd[c].op) \in Reply
        BY <2>1, ReplyTypes DEF ExpiredReply, StopOps
      <3>2. QED
        BY <2>1, <3>1 DEF MemDbTypeOK
    <2>2. CASE UNCHANGED res
      BY <2>2, Zenon DEF MemDbTypeOK
    <2>3. QED
      BY <2>1, <2>2, Zenon DEF DeleteExpired
  <1>4. OnlyClient(c)
    BY <1>2, <1>3, ZenonT(30) DEF DeleteExpired, OnlyClient, MemDbTypeOK, keyLockVars
  <1>5. ClientTypeOK(c)'
    <2>1. /\ cmd'[c] = cmd[c] /\ at'[c] = at[c] /\ todo'[c] = todo[c]
          /\ heldKeys'[c] = heldKeys[c] /\ heldMode'[c] = heldMode[c]
      BY Zenon DEF DeleteExpired, keyLockVars
    <2>2. /\ at[c] \in Int /\ todo[c] \in Seq(Access)
          /\ heldKeys[c] \in SUBSET Key /\ heldMode[c] \in {"none", "r", "w"}
      BY Zenon DEF MemDbTypeOK
    <2>3. idx'[c] \in Nat
      BY <1>2
    <2>4. /\ pc'[c] \in {"idle", "check", "expired", "body", "run", "done"}
          /\ pc'[c] # "idle"
      BY <1>2
    <2>5. QED
      BY <1>1, <1>2, <1>3, <2>1, <2>2, <2>3, <2>4, Zenon DEF ClientTypeOK
  <1>6. db' \in [Key -> Value]
    BY <1>1, CurrentKeyType, ValueTypes, Zenon DEF DeleteExpired, MemDbTypeOK
  <1>7. MemDbTypeOK'
    BY <1>4, <1>5, <1>6, ClientTypeStep, ZenonT(60) DEF DeleteExpired, MemDbTypeOK
  <1>8. QED
    BY <1>1, <1>2, <1>4, <1>7, QuietStep, Zenon DEF DeleteExpired

LEMMA HandlerStep ==
  ASSUME MemDbTypeOK, SectionsExclusive, NEW c \in Proc, Handler(c)
  PROVE  MemDbTypeOK' /\ SectionsExclusive'
  <1>1. HandlerPost(c) /\ pc[c] = "body" /\ todo[c] = <<>>
    BY HandlerIsSection, Zenon
  <1>2. cmd[c] \in Command /\ idx[c] \in 1 .. Len(cmd[c].keys)
    BY <1>1, Zenon DEF MemDbTypeOK
  <1>3. /\ cmd'[c] = cmd[c] /\ at'[c] = at[c]
        /\ todo'[c] \in Seq(Access) /\ res'[c] \in Seq(Reply)
    BY <1>1, Zenon DEF HandlerPost, RestOK
  <1>4. /\ db' \in [Key -> Value] /\ ttl' \in [Key -> Int \cup {NoTTL}]
        /\ volatile' \in SUBSET Key /\ UNCHANGED <<now, cleanVars>>
    BY <1>1, Zenon DEF HandlerPost, MapStep, MemDbTypeOK
  <1>5. CASE todo'[c] = <<>> /\ NextKey(c) /\ UNCHANGED keyLockVars
    <2>1. /\ pc' = [pc EXCEPT ![c] = pc'[c]] /\ pc'[c] \in {"check", "done"}
          /\ idx' = [idx EXCEPT ![c] = idx'[c]] /\ idx'[c] \in 1 .. Len(cmd[c].keys)
          /\ clk' = [clk EXCEPT ![c] = clk'[c]] /\ clk'[c] \in 0 .. MaxTime
      BY <1>1, <1>5, NextKeyPost, Zenon
    <2>2. OnlyClient(c)
      BY <1>1, <1>5, <2>1, ZenonT(60) DEF HandlerPost, OnlyClient, MemDbTypeOK, keyLockVars
    <2>3. ClientTypeOK(c)'
      <3>1. /\ at[c] \in Int /\ heldKeys'[c] \in SUBSET Key
            /\ heldMode'[c] \in {"none", "r", "w"}
        BY <1>5, Zenon DEF MemDbTypeOK, keyLockVars
      <3>2. idx'[c] \in Nat
        BY <2>1
      <3>3. /\ pc'[c] \in {"idle", "check", "expired", "body", "run", "done"}
            /\ pc'[c] # "idle"
        BY <2>1
      <3>4. QED
        BY <1>2, <1>3, <2>1, <3>1, <3>2, <3>3, Zenon DEF ClientTypeOK
    <2>4. MemDbTypeOK'
      BY <1>4, <2>2, <2>3, ClientTypeStep, ZenonT(60)
    <2>5. UNCHANGED todo
      <3>1. todo' = [todo EXCEPT ![c] = todo'[c]]
        BY <1>1, Zenon DEF HandlerPost
      <3>2. todo \in [Proc -> Seq(Access)]
        BY Zenon DEF MemDbTypeOK
      <3>3. QED
        BY <1>1, <1>5, <3>1, <3>2, Zenon
    <2>6. QED
      BY <1>1, <1>5, <2>1, <2>2, <2>4, <2>5, QuietStep
  <1>6. CASE /\ todo'[c] # <<>>
             /\ pc' = [pc EXCEPT ![c] = "run"]
             /\ UNCHANGED <<idx, clk>>
             /\ heldKeys' = [heldKeys EXCEPT ![c] = heldKeys'[c]]
             /\ heldMode' = [heldMode EXCEPT ![c] = heldMode'[c]]
             /\ heldKeys'[c] \in SUBSET Key
             /\ heldMode'[c] \in {"r", "w"}
             /\ CanAcquire(c, heldKeys'[c], heldMode'[c])
    <2>1. OnlyClient(c) /\ pc'[c] = "run"
      BY <1>1, <1>6, ZenonT(60) DEF HandlerPost, OnlyClient, MemDbTypeOK
    <2>2. ClientTypeOK(c)'
      BY <1>2, <1>3, <1>6, <2>1, Zenon DEF ClientTypeOK, MemDbTypeOK
    <2>3. MemDbTypeOK'
      BY <1>4, <2>1, <2>2, ClientTypeStep, Zenon
    <2>4. \A i \in DOMAIN todo'[c] : /\ todo'[c][i].k \in heldKeys'[c]
                                     /\ todo'[c][i].do = "readttl" \/ heldMode'[c] = "w"
      <3>1. DOMAIN todo'[c] = 1 .. Len(todo'[c])
        BY <1>3
      <3>2. QED
        BY <1>1, <3>1, Zenon DEF HandlerPost, RestOK, AccessOK
    <2>5. \A d \in Proc \ {c} :
            heldKeys'[c] \cap heldKeys[d] # {} => heldMode'[c] = "r" /\ heldMode[d] = "r"
      BY <1>6, Zenon DEF CanAcquire
    <2>6. SectionsExclusive'
      BY <1>6, <2>1, <2>4, <2>5, ClientExclusiveStep, Zenon
    <2>7. QED
      BY <2>3, <2>6, Zenon
  <1>7. QED
    BY <1>1, <1>5, <1>6, Zenon DEF HandlerPost

\* The accesses that RunAccess leaves are among those there were.
LEMMA RestIsTail ==
  ASSUME MemDbTypeOK, NEW c \in Proc, todo[c] # <<>>
  PROVE  /\ Rest(c) \in Seq(Access)
         /\ \A i \in DOMAIN Rest(c) : i + 1 \in DOMAIN todo[c] /\ Rest(c)[i] = todo[c][i + 1]
         /\ 1 \in DOMAIN todo[c] /\ Head(todo[c]) = todo[c][1] /\ Head(todo[c]) \in Access
  <1>1. todo[c] \in Seq(Access)
    BY Zenon DEF MemDbTypeOK
  <1>2. /\ Tail(todo[c]) \in Seq(Access)
        /\ \A i \in DOMAIN Tail(todo[c]) :
             i + 1 \in DOMAIN todo[c] /\ Tail(todo[c])[i] = todo[c][i + 1]
        /\ 1 \in DOMAIN todo[c] /\ Head(todo[c]) = todo[c][1] /\ Head(todo[c]) \in Access
    BY <1>1
  <1>3. Rest(c) = <<>> \/ Rest(c) = Tail(todo[c])
    BY Zenon DEF Rest
  <1>4. CASE Rest(c) = <<>>
    BY <1>2, <1>4
  <1>5. CASE Rest(c) = Tail(todo[c])
    <2> DEFINE t == Tail(todo[c])
    <2> HIDE DEF t
    <2>1. Rest(c) = t
      BY <1>5, Zenon DEF t
    <2>2. t \in Seq(Access) /\ \A i \in DOMAIN t : i + 1 \in DOMAIN todo[c] /\ t[i] = todo[c][i + 1]
      BY <1>2, Zenon DEF t
    <2>3. QED
      BY <1>2, <2>1, <2>2, Zenon
  <1>6. QED
    BY <1>3, <1>4, <1>5, Zenon

LEMMA RunAccessStep ==
  ASSUME MemDbTypeOK, SectionsExclusive, NEW c \in Proc, RunAccess(c)
  PROVE  MemDbTypeOK' /\ SectionsExclusive'
  <1> DEFINE a == Head(todo[c])
  <1>1. /\ pc[c] = "run" /\ todo[c] # <<>> /\ heldMode[c] # "none"
        /\ cmd[c] \in Command /\ idx[c] \in 1 .. Len(cmd[c].keys)
        /\ cmd[c].arg \in Int
    BY CommandTypes, Zenon DEF RunAccess, SectionsExclusive, MemDbTypeOK
  <1>2. /\ Rest(c) \in Seq(Access)
        /\ \A i \in DOMAIN Rest(c) : i + 1 \in DOMAIN todo[c] /\ Rest(c)[i] = todo[c][i + 1]
        /\ a \in Access /\ a.k \in Key /\ a.v \in Value
    BY <1>1, RestIsTail, Zenon DEF Access
  <1>3. /\ todo' = [todo EXCEPT ![c] = Rest(c)] /\ todo'[c] = Rest(c)
        /\ UNCHANGED <<now, cmd, cleanVars, volatile>>
    BY Zenon DEF RunAccess, MemDbTypeOK
  <1>4. res' = [res EXCEPT ![c] = res'[c]] /\ res'[c] \in Seq(Reply)
    <2>1. AccessReply(c) \in Seq(Reply)
      <3>1. ttl[a.k] \in Int \cup {NoTTL} /\ now \in Int
        BY <1>2 DEF MemDbTypeOK
      <3>2. \A n \in Int : <<Number(n)>> \in Seq(Reply)
        BY ReplyTypes
      <3>3. (IF ttl[a.k] = NoTTL THEN -1 ELSE ttl[a.k] - now) \in Int
        BY <3>1
      <3>4. QED
        BY <3>2, <3>3 DEF AccessReply
    <2>2. res' = [res EXCEPT ![c] = res[c] \o AccessReply(c)]
      BY Zenon DEF RunAccess
    <2>3. res[c] \in Seq(Reply)
      BY Zenon DEF MemDbTypeOK
    <2>4. res'[c] = res[c] \o AccessReply(c)
      BY <2>2, Zenon DEF MemDbTypeOK
    <2>5. res'[c] \in Seq(Reply)
      BY <2>1, <2>3, <2>4
    <2>6. res' = [res EXCEPT ![c] = res'[c]]
      BY <2>2, <2>4, Zenon
    <2>7. QED
      BY <2>5, <2>6, Zenon
  <1>5. at' = [at EXCEPT ![c] = at'[c]] /\ at'[c] \in Int
    <2>1. at \in [Proc -> Int] /\ now + cmd[c].arg \in Int
      BY <1>1 DEF MemDbTypeOK
    <2>2. at' = at \/ at' = [at EXCEPT ![c] = now + cmd[c].arg]
      BY Zenon DEF RunAccess
    <2>3. QED
      BY <2>1, <2>2, Zenon
  <1>6. db' \in [Key -> Value] /\ ttl' \in [Key -> Int \cup {NoTTL}]
    BY <1>2, ZenonT(60) DEF RunAccess, MemDbTypeOK
  <1>7. CASE Rest(c) = <<>> /\ Release(c) /\ NextKey(c)
    <2>1. /\ pc' = [pc EXCEPT ![c] = pc'[c]] /\ pc'[c] \in {"check", "done"}
          /\ idx' = [idx EXCEPT ![c] = idx'[c]] /\ idx'[c] \in 1 .. Len(cmd[c].keys)
          /\ clk' = [clk EXCEPT ![c] = clk'[c]] /\ clk'[c] \in 0 .. MaxTime
      BY <1>1, <1>7, NextKeyPost, Zenon
    <2>2. /\ heldKeys' = [heldKeys EXCEPT ![c] = {}] /\ heldKeys'[c] = {}
          /\ heldMode' = [heldMode EXCEPT ![c] = "none"] /\ heldMode'[c] = "none"
      BY <1>7, Zenon DEF Release, MemDbTypeOK
    <2>3. OnlyClient(c)
      BY <1>3, <1>4, <1>5, <2>1, <2>2, ZenonT(60) DEF OnlyClient, MemDbTypeOK
    <2>4. ClientTypeOK(c)'
      <3>1. idx'[c] \in Nat
        BY <2>1
      <3>2. pc'[c] # "idle" /\ pc'[c] \in {"idle", "check", "expired", "body", "run", "done"}
        BY <2>1, Zenon
      <3>3. QED
        BY <1>1, <1>2, <1>3, <1>4, <1>5, <2>1, <2>2, <3>1, <3>2, Zenon DEF ClientTypeOK
    <2>5. MemDbTypeOK'
      BY <1>3, <1>6, <2>3, <2>4, ClientTypeStep, ZenonT(60) DEF MemDbTypeOK
    <2>6. SectionsExclusive'
      <3>1. todo'[c] = <<>> /\ DOMAIN todo'[c] = {}
        BY <1>3, <1>7
      <3>2. pc'[c] # "run"
        BY <2>1, Zenon
      <3>3. QED
        BY <2>2, <2>3, <3>1, <3>2, ClientExclusiveStep, Zenon
    <2>7. QED
      BY <2>5, <2>6, Zenon
  <1>8. CASE Rest(c) # <<>> /\ UNCHANGED <<pc, idx, clk, keyLockVars>>
    <2>1. OnlyClient(c)
      BY <1>3, <1>4, <1>5, <1>8, ZenonT(60) DEF OnlyClient, MemDbTypeOK, keyLockVars
    <2>2. ClientTypeOK(c)'
      BY <1>1, <1>2, <1>3, <1>4, <1>5, <1>8, ZenonT(60) DEF ClientTypeOK, MemDbTypeOK, keyLockVars
    <2>3. MemDbTypeOK'
      BY <1>3, <1>6, <2>1, <2>2, ClientTypeStep, Zenon DEF MemDbTypeOK
    <2>4. pc'[c] = "run" /\ heldKeys'[c] = heldKeys[c] /\ heldMode'[c] = heldMode[c]
      BY <1>1, <1>8, Zenon DEF keyLockVars
    <2>5. \A i \in DOMAIN todo'[c] : /\ todo'[c][i].k \in heldKeys'[c]
                                     /\ todo'[c][i].do = "readttl" \/ heldMode'[c] = "w"
      BY <1>2, <1>3, <2>4 DEF SectionsExclusive
    <2>6. SectionsExclusive'
      <3>1. \A d \in Proc \ {c} :
              heldKeys'[c] \cap heldKeys[d] # {} => heldMode'[c] = "r" /\ heldMode[d] = "r"
        BY <2>4, Zenon DEF SectionsExclusive
      <3>2. QED
        BY <1>1, <1>3, <1>8, <2>1, <2>4, <2>5, <3>1, ClientExclusiveStep, Zenon
    <2>7. QED
      BY <2>3, <2>6, Zenon
  <1>9. QED
    BY <1>7, <1>8, Zenon DEF RunAccess

\* The clock and the background goroutine leave the clients alone.
LEMMA BackgroundStep ==
  ASSUME MemDbTypeOK, SectionsExclusive, Tick \/ Cleanup
  PROVE  MemDbTypeOK' /\ SectionsExclusive'
  <1>1. UNCHANGED <<pc, cmd, idx, clk, at, todo, res, volatile, heldKeys, heldMode>>
    BY Zenon DEF Tick, Cleanup, CleanupStart, CollectExpired, CleanupDelete, CleanupNext,
           clientVars, keyLockVars
  <1>2. SectionsExclusive'
    BY <1>1, Zenon DEF SectionsExclusive
  <1>3. ASSUME Tick PROVE MemDbTypeOK'
    BY <1>1, <1>3, TimeAssumption DEF Tick, MemDbTypeOK, cleanVars
  <1>4. ASSUME CleanupStart PROVE MemDbTypeOK'
    BY <1>1, <1>4, ShardAssumption DEF CleanupStart, MemDbTypeOK
  <1>5. ASSUME CollectExpired PROVE MemDbTypeOK'
    BY <1>1, <1>5, ZenonT(60) DEF CollectExpired, MemDbTypeOK
  <1>6. ASSUME CleanupDelete PROVE MemDbTypeOK'
    BY <1>1, <1>6, ValueTypes, ZenonT(60) DEF CleanupDelete, MemDbTypeOK
  <1>7. ASSUME CleanupNext PROVE MemDbTypeOK'
    BY <1>1, <1>7, ShardAssumption, TimeAssumption DEF CleanupNext, MemDbTypeOK
  <1>8. QED
    BY <1>2, <1>3, <1>4, <1>5, <1>6, <1>7, Zenon DEF Cleanup

\* Types and exclusive sections together are inductive.
LEMMA MemDbInductive ==
  MemDbTypeOK /\ SectionsExclusive /\ [MemDbNext]_vars => MemDbTypeOK' /\ SectionsExclusive'
  <1> SUFFICES ASSUME MemDbTypeOK, SectionsExclusive, [MemDbNext]_vars
               PROVE  MemDbTypeOK' /\ SectionsExclusive'
    BY Zenon
  <1>1. CASE UNCHANGED vars
    <2>1. MemDbTypeOK'
      BY <1>1, Zenon DEF vars, clientVars, cleanVars, MemDbTypeOK
    <2>2. SectionsExclusive'
      BY <1>1, Zenon DEF vars, clientVars, SectionsExclusive
    <2>3. QED
      BY <2>1, <2>2, Zenon
  <1>2. CASE Tick \/ Cleanup
    BY <1>2, BackgroundStep, Zenon
  <1>3. ASSUME NEW c \in Proc, ClientStep(c)
        PROVE  MemDbTypeOK' /\ SectionsExclusive'
    BY <1>3, CheckTTLStep, DeleteExpiredStep, HandlerStep, RunAccessStep, ReturnStep, Zenon
       DEF ClientStep
  <1>4. ASSUME NEW c \in Proc, NEW command \in Command, ExecCommand(c, command)
        PROVE  MemDbTypeOK' /\ SectionsExclusive'
    BY <1>4, ExecCommandStep, Zenon
  <1>5. QED
    BY <1>1, <1>2, <1>3, <1>4, Zenon DEF MemDbNext

\* Both hold when the server starts.
LEMMA MemDbStart == MemDbInit => MemDbTypeOK /\ SectionsExclusive
  BY ValueTypes, TimeAssumption, ShardAssumption
     DEF MemDbInit, KeyLocksInit, MemDbTypeOK, SectionsExclusive

\* Every variable keeps its type whatever commands are sent: the number of the
\* key a goroutine works on stays among the keys of its command, and what its
\* handler still has to do are accesses to the map or to the deadlines.
THEOREM MemDbTypeCorrect == MemDbSpec => []MemDbTypeOK
  BY MemDbStart, MemDbInductive, PTL DEF MemDbSpec

\* The sections of the handlers are mutually exclusive for every set of clients,
\* keys and commands, and every access a handler still has to make is to a key
\* it has locked: what dblock.go gives the handlers in string.go and keys.go.
THEOREM MemDbSectionsExclusive == MemDbSpec => [](MemDbTypeOK /\ SectionsExclusive)
  BY MemDbStart, MemDbInductive, PTL DEF MemDbSpec

-----------------------------------------------------------------------------
(* What expiry deletes *)

\* The part of OnlyVolatileExpire about one client.
ClientVolatile(c) ==
  /\ pc[c] = "expired" => CurrentKey(c) \in volatile
  /\ pc[c] # "idle" => DeadlineKeys(cmd[c]) \subseteq volatile
  /\ \A i \in DOMAIN todo[c] :
       /\ todo[c][i].do \in {"getforttl", "putttl"} => todo[c][i].k \in volatile
       /\ todo[c][i].do = "delete" =>
            cmd[c].op = "rename" /\ todo[c][i].k \in KeysOf(cmd[c])
       /\ todo[c][i].do = "set" => todo[c][i].v # None

LEMMA ClientVolatileStep ==
  ASSUME NEW c \in Proc, MemDbTypeOK, OnlyVolatileExpire, OnlyClient(c),
         ClientVolatile(c)', volatile \subseteq volatile', doomed' = doomed,
         \A k \in Key : ttl'[k] # NoTTL => k \in volatile'
  PROVE  OnlyVolatileExpire'
  <1>1. ASSUME NEW d \in Proc, d # c
        PROVE  ClientVolatile(d)'
    <2>1. pc'[d] = pc[d] /\ cmd'[d] = cmd[d] /\ idx'[d] = idx[d] /\ todo'[d] = todo[d]
      BY <1>1, Zenon DEF OnlyClient, MemDbTypeOK
    <2>2. ClientVolatile(d)
      BY Zenon DEF OnlyVolatileExpire, ClientVolatile
    <2>3. QED
      BY <2>1, <2>2, Zenon DEF ClientVolatile, CurrentKey
  <1>2. \A d \in Proc : ClientVolatile(d)'
    BY <1>1, Zenon
  <1>3. doomed' \subseteq volatile'
    BY Zenon DEF OnlyVolatileExpire
  <1>4. QED
    BY <1>2, <1>3, Zenon DEF OnlyVolatileExpire, ClientVolatile

\* A step of PersistentKeysStay.
StayStep ==
  \A k \in Key \ volatile' :
    db[k] # None /\ db'[k] = None => \E c \in Proc : Removes(c, k)

LEMMA ClientVolatileHolds ==
  ASSUME OnlyVolatileExpire, NEW c \in Proc
  PROVE  ClientVolatile(c)
  BY Zenon DEF OnlyVolatileExpire, ClientVolatile

LEMMA ExecCommandVolatile ==
  ASSUME MemDbTypeOK, OnlyVolatileExpire, SectionsExclusive,
         NEW c \in Proc, NEW command \in Command, ExecCommand(c, command)
  PROVE  OnlyVolatileExpire' /\ StayStep
  <1>1. OnlyClient(c) /\ volatile' = volatile \cup DeadlineKeys(command)
    BY DEF ExecCommand, OnlyClient, MemDbTypeOK, keyLockVars
  <1>2. cmd'[c] = command /\ pc'[c] \in {"check", "body"} /\ todo'[c] = <<>>
    BY Zenon DEF ExecCommand, MemDbTypeOK, SectionsExclusive
  <1>3. ClientVolatile(c)'
    BY <1>1, <1>2 DEF ClientVolatile
  <1>4. UNCHANGED <<db, ttl, doomed>>
    BY Zenon DEF ExecCommand, cleanVars
  <1>5. OnlyVolatileExpire'
    BY <1>1, <1>3, <1>4, ClientVolatileStep, Zenon DEF OnlyVolatileExpire
  <1>6. QED
    BY <1>4, <1>5, Zenon DEF StayStep

LEMMA ReturnVolatile ==
  ASSUME MemDbTypeOK, OnlyVolatileExpire, SectionsExclusive, NEW c \in Proc, Return(c)
  PROVE  OnlyVolatileExpire' /\ StayStep
  <1>1. OnlyClient(c)
    BY Zenon DEF Return, OnlyClient, MemDbTypeOK, keyLockVars
  <1>2. pc'[c] = "idle" /\ todo'[c] = <<>>
    BY Zenon DEF Return, MemDbTypeOK, SectionsExclusive
  <1>3. ClientVolatile(c)'
    <2>1. DOMAIN todo'[c] = {}
      BY <1>2
    <2>2. QED
      BY <1>2, <2>1, Zenon DEF ClientVolatile
  <1>4. UNCHANGED <<db, ttl, doomed, volatile>>
    BY Zenon DEF Return, cleanVars
  <1>5. OnlyVolatileExpire'
    BY <1>1, <1>3, <1>4, ClientVolatileStep, Zenon DEF OnlyVolatileExpire
  <1>6. QED
    BY <1>4, <1>5, Zenon DEF StayStep

LEMMA CheckTTLVolatile ==
  ASSUME MemDbTypeOK, OnlyVolatileExpire, SectionsExclusive, NEW c \in Proc, CheckTTL(c)
  PROVE  OnlyVolatileExpire' /\ StayStep
  <1> DEFINE k == CurrentKey(c)
  <1>1. OnlyClient(c) /\ UNCHANGED <<db, doomed, volatile>>
    BY Zenon DEF CheckTTL, OnlyClient, MemDbTypeOK, keyLockVars, cleanVars
  <1>2. pc[c] = "check" /\ k \in Key
    BY CurrentKeyType, Zenon DEF CheckTTL
  <1>3. cmd'[c] = cmd[c] /\ idx'[c] = idx[c] /\ todo'[c] = <<>>
    BY <1>2, Zenon DEF CheckTTL, SectionsExclusive
  <1>4. pc'[c] = "expired" => ttl[k] # NoTTL
    BY Zenon DEF CheckTTL, MemDbTypeOK
  <1>5. \A j \in Key : ttl'[j] # NoTTL => ttl[j] # NoTTL
    BY <1>2 DEF CheckTTL, MemDbTypeOK
  <1>6. ClientVolatile(c)'
    <2>1. (pc[c] # "idle" => DeadlineKeys(cmd[c]) \subseteq volatile)
          /\ (ttl[k] # NoTTL => k \in volatile)
      BY <1>2, Zenon DEF OnlyVolatileExpire
    <2>2. CurrentKey(c)' = k
      BY <1>3, Zenon DEF CurrentKey
    <2>3. DOMAIN todo'[c] = {}
      BY <1>3
    <2>4. QED
      BY <1>1, <1>2, <1>3, <1>4, <2>1, <2>2, <2>3, Zenon DEF ClientVolatile
  <1>7. OnlyVolatileExpire'
    BY <1>1, <1>5, <1>6, ClientVolatileStep, Zenon DEF OnlyVolatileExpire
  <1>8. QED
    BY <1>1, <1>7, Zenon DEF StayStep

LEMMA DeleteExpiredVolatile ==
  ASSUME MemDbTypeOK, OnlyVolatileExpire, SectionsExclusive, NEW c \in Proc, DeleteExpired(c)
  PROVE  OnlyVolatileExpire' /\ StayStep
  <1> DEFINE k == CurrentKey(c)
  <1>1. pc[c] = "expired" /\ k \in Key /\ k \in volatile
    BY CurrentKeyType, Zenon DEF DeleteExpired, OnlyVolatileExpire
  <1>2. /\ pc' = [pc EXCEPT ![c] = pc'[c]] /\ pc'[c] \in {"check", "done", "body"}
        /\ idx' = [idx EXCEPT ![c] = idx'[c]]
        /\ clk' = [clk EXCEPT ![c] = clk'[c]]
    <2>1. CASE NextKey(c)
      BY <1>1, <2>1, NextKeyPost, Zenon
    <2>2. CASE pc' = [pc EXCEPT ![c] = "body"] /\ UNCHANGED <<idx, clk>>
      BY <1>1, <2>2 DEF MemDbTypeOK
    <2>3. QED
      BY <2>1, <2>2, Zenon DEF DeleteExpired
  <1>3. res' = [res EXCEPT ![c] = res'[c]]
    BY Zenon DEF DeleteExpired, MemDbTypeOK
  <1>4. OnlyClient(c) /\ UNCHANGED <<ttl, doomed, volatile>>
    BY <1>2, <1>3 DEF DeleteExpired, OnlyClient, MemDbTypeOK, keyLockVars, cleanVars
  <1>5. cmd'[c] = cmd[c] /\ todo'[c] = <<>>
    BY <1>1, Zenon DEF DeleteExpired, SectionsExclusive
  <1>6. ClientVolatile(c)'
    <2>1. DOMAIN todo'[c] = {}
      BY <1>5
    <2>2. pc'[c] # "expired"
      BY <1>2, Zenon
    <2>3. DeadlineKeys(cmd'[c]) \subseteq volatile'
      BY <1>1, <1>4, <1>5, Zenon DEF OnlyVolatileExpire
    <2>4. QED
      BY <2>1, <2>2, <2>3, ZenonT(60) DEF ClientVolatile
  <1>7. OnlyVolatileExpire'
    BY <1>4, <1>6, ClientVolatileStep, Zenon DEF OnlyVolatileExpire
  <1>8. db' = [db EXCEPT ![k] = None]
    BY Zenon DEF DeleteExpired
  <1>9. QED
    BY <1>1, <1>4, <1>7, <1>8, ZenonT(60) DEF StayStep, MemDbTypeOK

LEMMA HandlerVolatile ==
  ASSUME MemDbTypeOK, OnlyVolatileExpire, SectionsExclusive, NEW c \in Proc, Handler(c)
  PROVE  OnlyVolatileExpire' /\ StayStep
  <1>1. HandlerPost(c) /\ pc[c] = "body" /\ todo[c] = <<>>
    BY HandlerIsSection, Zenon
  <1>2. /\ cmd'[c] = cmd[c] /\ UNCHANGED <<doomed, volatile>>
        /\ RestOK(c, heldKeys'[c], heldMode'[c], todo'[c])
        /\ MapStep(c)
    BY <1>1, Zenon DEF HandlerPost, cleanVars
  <1>3. /\ pc' = [pc EXCEPT ![c] = pc'[c]] /\ pc'[c] \in {"check", "done", "run"}
        /\ idx' = [idx EXCEPT ![c] = idx'[c]]
        /\ clk' = [clk EXCEPT ![c] = clk'[c]]
        /\ heldKeys' = [heldKeys EXCEPT ![c] = heldKeys'[c]]
        /\ heldMode' = [heldMode EXCEPT ![c] = heldMode'[c]]
    <2>1. CASE todo'[c] = <<>> /\ NextKey(c) /\ UNCHANGED keyLockVars
      BY <1>1, <2>1, NextKeyPost, ZenonT(60) DEF MemDbTypeOK, keyLockVars
    <2>2. CASE todo'[c] # <<>>
      BY <1>1, <2>2, ZenonT(60) DEF HandlerPost, MemDbTypeOK
    <2>3. QED
      BY <1>1, <2>1, <2>2, Zenon DEF HandlerPost
  <1>4. OnlyClient(c)
    BY <1>1, <1>3, Zenon DEF HandlerPost, OnlyClient, MemDbTypeOK
  <1>5. DeadlineKeys(cmd[c]) \subseteq volatile
    BY <1>1, Zenon DEF OnlyVolatileExpire
  <1>6. ASSUME NEW i \in DOMAIN todo'[c]
        PROVE  AccessOK(c, heldKeys'[c], heldMode'[c], todo'[c][i])
    <2>1. /\ todo'[c] \in Seq(Access)
          /\ \A j \in 1 .. Len(todo'[c]) :
               AccessOK(c, heldKeys'[c], heldMode'[c], todo'[c][j])
      BY <1>2, Zenon DEF RestOK
    <2>2. i \in 1 .. Len(todo'[c])
      BY <2>1
    <2>3. QED
      BY <2>1, <2>2, Zenon
  <1>7. ClientVolatile(c)'
    <2>1. \A i \in DOMAIN todo'[c] :
            /\ todo'[c][i].do \in {"getforttl", "putttl"} => todo'[c][i].k \in volatile'
            /\ todo'[c][i].do = "delete" =>
                 cmd'[c].op = "rename" /\ todo'[c][i].k \in KeysOf(cmd'[c])
            /\ todo'[c][i].do = "set" => todo'[c][i].v # None
      BY <1>2, <1>5, <1>6, Zenon DEF AccessOK
    <2>2. DeadlineKeys(cmd'[c]) \subseteq volatile'
      BY <1>2, <1>5, Zenon
    <2>3. QED
      BY <1>3, <2>1, <2>2, Zenon DEF ClientVolatile
  <1>8. OnlyVolatileExpire'
    BY <1>2, <1>4, <1>7, ClientVolatileStep, Zenon DEF OnlyVolatileExpire, MapStep
  <1>9. QED
    BY <1>1, <1>2, <1>8, Zenon DEF StayStep, MapStep, Removes

LEMMA RunAccessVolatile ==
  ASSUME MemDbTypeOK, OnlyVolatileExpire, SectionsExclusive, NEW c \in Proc, RunAccess(c)
  PROVE  OnlyVolatileExpire' /\ StayStep
  <1> DEFINE a == Head(todo[c])
  <1>1. pc[c] = "run" /\ todo[c] # <<>> /\ ClientVolatile(c)
    BY ClientVolatileHolds, Zenon DEF RunAccess, SectionsExclusive
  <1>2. /\ \A i \in DOMAIN Rest(c) : i + 1 \in DOMAIN todo[c] /\ Rest(c)[i] = todo[c][i + 1]
        /\ 1 \in DOMAIN todo[c] /\ a = todo[c][1] /\ a.k \in Key
    BY <1>1, RestIsTail, Zenon DEF Access
  <1>3. /\ todo' = [todo EXCEPT ![c] = Rest(c)] /\ todo'[c] = Rest(c)
        /\ UNCHANGED <<cmd, doomed, volatile>>
    BY Zenon DEF RunAccess, MemDbTypeOK, cleanVars
  <1>4. /\ pc' = [pc EXCEPT ![c] = pc'[c]] /\ pc'[c] \in {"check", "done", "run"}
        /\ idx' = [idx EXCEPT ![c] = idx'[c]]
        /\ clk' = [clk EXCEPT ![c] = clk'[c]]
        /\ heldKeys' = [heldKeys EXCEPT ![c] = heldKeys'[c]]
        /\ heldMode' = [heldMode EXCEPT ![c] = heldMode'[c]]
    <2>1. CASE Release(c) /\ NextKey(c)
      BY <1>1, <2>1, NextKeyPost, ZenonT(60) DEF MemDbTypeOK, Release
    <2>2. CASE UNCHANGED <<pc, idx, clk, keyLockVars>>
      BY <1>1, <2>2, ZenonT(60) DEF MemDbTypeOK, keyLockVars
    <2>3. QED
      BY <2>1, <2>2, Zenon DEF RunAccess
  <1>5. at' = [at EXCEPT ![c] = at'[c]] /\ res' = [res EXCEPT ![c] = res'[c]]
    <2>1. at' = at \/ at' = [at EXCEPT ![c] = now + cmd[c].arg]
      BY Zenon DEF RunAccess
    <2>2. res' = [res EXCEPT ![c] = res[c] \o AccessReply(c)]
      BY Zenon DEF RunAccess
    <2>3. QED
      BY <2>1, <2>2, Zenon DEF MemDbTypeOK
  <1>6. OnlyClient(c)
    BY <1>3, <1>4, <1>5, Zenon DEF OnlyClient, MemDbTypeOK
  <1>7. ClientVolatile(c)'
    BY <1>1, <1>2, <1>3, <1>4 DEF ClientVolatile
  <1>8. /\ a.do = "putttl" => a.k \in volatile
        /\ a.do = "delete" => cmd[c].op = "rename" /\ a.k \in KeysOf(cmd[c])
        /\ a.do = "set" => a.v # None
    BY <1>1, <1>2, Zenon DEF ClientVolatile
  <1>9. \/ ttl' = ttl
        \/ ttl' = [ttl EXCEPT ![a.k] = NoTTL]
        \/ a.do = "putttl" /\ ttl' = [ttl EXCEPT ![a.k] = at[c]]
    BY Zenon DEF RunAccess
  <1>10. \A k \in Key : ttl'[k] # NoTTL => k \in volatile
    BY <1>2, <1>8, <1>9, ZenonT(60) DEF OnlyVolatileExpire, MemDbTypeOK
  <1>11. OnlyVolatileExpire'
    BY <1>3, <1>6, <1>7, <1>10, ClientVolatileStep, Zenon
  <1>12. StayStep
    <2>1. \/ db' = db
          \/ a.do \in {"set", "delete"} /\ db' = [db EXCEPT ![a.k] = a.v]
      BY Zenon DEF RunAccess, IsWrite
    <2>2. QED
      BY <1>1, <1>2, <1>8, <2>1, ZenonT(60) DEF StayStep, Removes, MemDbTypeOK
  <1>13. QED
    BY <1>11, <1>12, Zenon

LEMMA BackgroundVolatile ==
  ASSUME MemDbTypeOK, OnlyVolatileExpire, Tick \/ Cleanup
  PROVE  OnlyVolatileExpire' /\ StayStep
  <1>1. UNCHANGED <<pc, cmd, idx, todo, volatile>>
    BY Zenon DEF Tick, Cleanup, CleanupStart, CollectExpired, CleanupDelete, CleanupNext,
           clientVars
  <1>2. \A c \in Proc : ClientVolatile(c)'
    BY <1>1, ClientVolatileHolds, Zenon DEF ClientVolatile, CurrentKey
  <1>3. doomed' \subseteq volatile /\ \A k \in Key : ttl'[k] # NoTTL => k \in volatile
    BY Zenon DEF Tick, Cleanup, CleanupStart, CollectExpired, CleanupDelete, CleanupNext,
           cleanVars, OnlyVolatileExpire
  <1>4. OnlyVolatileExpire'
    BY <1>1, <1>2, <1>3, Zenon DEF OnlyVolatileExpire, ClientVolatile
  <1>5. db' = db \/ \E k \in doomed : db' = [db EXCEPT ![k] = None]
    BY Zenon DEF Tick, Cleanup, CleanupStart, CollectExpired, CleanupDelete, CleanupNext
  <1>6. StayStep
    BY <1>1, <1>5, ZenonT(60) DEF StayStep, OnlyVolatileExpire, MemDbTypeOK
  <1>7. QED
    BY <1>4, <1>6, Zenon

LEMMA VolatileInductive ==
  MemDbTypeOK /\ SectionsExclusive /\ OnlyVolatileExpire /\ [MemDbNext]_vars
    => OnlyVolatileExpire' /\ [StayStep]_vars
  <1> SUFFICES ASSUME MemDbTypeOK, SectionsExclusive, OnlyVolatileExpire, [MemDbNext]_vars
               PROVE  OnlyVolatileExpire' /\ [StayStep]_vars
    BY Zenon
  <1>1. CASE UNCHANGED vars
    BY <1>1, Zenon DEF vars, clientVars, cleanVars, OnlyVolatileExpire, CurrentKey
  <1>2. CASE Tick \/ Cleanup
    BY <1>2, BackgroundVolatile, Zenon
  <1>3. ASSUME NEW c \in Proc, ClientStep(c)
        PROVE  OnlyVolatileExpire' /\ StayStep
    BY <1>3, CheckTTLVolatile, DeleteExpiredVolatile, HandlerVolatile, RunAccessVolatile,
       ReturnVolatile, Zenon DEF ClientStep
  <1>4. ASSUME NEW c \in Proc, NEW command \in Command, ExecCommand(c, command)
        PROVE  OnlyVolatileExpire' /\ StayStep
    BY <1>4, ExecCommandVolatile, Zenon
  <1>5. QED
    BY <1>1, <1>2, <1>3, <1>4, Zenon DEF MemDbNext

\* Whatever the commands, the clients and the timing: an entry of the index, a
\* goroutine in MemDb.CheckTTL about to delete and a key collected by cleanup
\* all go back to a command that set a deadline for that very key.
THEOREM MemDbOnlyVolatileExpire == MemDbSpec => []OnlyVolatileExpire
  <1>1. MemDbInit => OnlyVolatileExpire
    BY DEF MemDbInit, OnlyVolatileExpire
  <1>2. QED
    BY <1>1, VolatileInductive, MemDbSectionsExclusive, PTL DEF MemDbSpec

\* A key that was never given a deadline leaves the map only through DEL or
\* RENAME: no interleaving of CheckTTL, the handlers and the background
\* goroutine of db.go loses it.
THEOREM MemDbPersistentKeysStay == MemDbSpec => PersistentKeysStay
  <1>1. MemDbTypeOK /\ SectionsExclusive /\ OnlyVolatileExpire /\ [MemDbNext]_vars
          => [\A k \in Key \ volatile' :
                db[k] # None /\ db'[k] = None => \E c \in Proc : Removes(c, k)]_vars
    BY VolatileInductive, Zenon DEF StayStep
  <1>2. QED
    BY <1>1, MemDbSectionsExclusive, MemDbOnlyVolatileExpire, PTL
       DEF MemDbSpec, PersistentKeysStay
=============================================================================
