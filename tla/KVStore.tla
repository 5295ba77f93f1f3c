------------------------------ MODULE KVStore ------------------------------
(***************************************************************************)
(* What the string and key commands of pkg/memdb promise when any number   *)
(* of clients use them at once: each command (each key of a DEL, EXISTS or *)
(* MGET) takes effect in one step between its call and its return, with    *)
(* the reply a single client would get. A key that some command gave a     *)
(* deadline may besides vanish between two such steps, never within one; a *)
(* key that no command gave a deadline never vanishes.                     *)
(*                                                                         *)
(* Written from the meaning of the commands on one map. How the handlers   *)
(* get there (locks, the index of deadlines, the background goroutine) is  *)
(* module MemDb, which is shown to implement this.                         *)
(***************************************************************************)
EXTENDS Values, Sequences

CONSTANTS
  Proc, Key,
  Command, NoCommand,
  TTLReplies   \* the numbers that TTL may answer for a key with a deadline

VARIABLES
  store,     \* store[k]: the value of k, or None
  volatile,  \* keys that a command with a deadline was sent for
  call,      \* call[c]: the command of client c, or NoCommand
  answer     \* answer[c]: its replies so far, one for each key

kvVars == <<store, volatile, call, answer>>

Repeated(command) == command.op \in {"del", "exists", "mget"}

Answers(command) == IF Repeated(command) THEN Len(command.keys) ELSE 1

GivesDeadline(command) ==
  command.op \in {"expire", "setex"} \/ (command.op = "set" /\ "ex" \in command.opt)

KVInit ==
  /\ store = [k \in Key |-> None]
  /\ volatile = {}
  /\ call = [c \in Proc |-> NoCommand]
  /\ answer = [c \in Proc |-> <<>>]

KVCall(c, command) ==
  /\ call[c] = NoCommand
  /\ call' = [call EXCEPT ![c] = command]
  /\ volatile' = volatile \cup
       {k \in Key : GivesDeadline(command) /\ \E i \in DOMAIN command.keys : k = command.keys[i]}
  /\ UNCHANGED <<store, answer>>

KVReturn(c) ==
  /\ call[c] # NoCommand
  /\ Len(answer[c]) = Answers(call[c])
  /\ call' = [call EXCEPT ![c] = NoCommand]
  /\ answer' = [answer EXCEPT ![c] = <<>>]
  /\ UNCHANGED <<store, volatile>>

-----------------------------------------------------------------------------
(* The commands on one map *)

ReadReply(op, v) ==
  CASE op = "exists" -> Number(IF v = None THEN 0 ELSE 1)
    [] op = "type"   -> TypeName(IF IsBytes(v) THEN "string" ELSE v.t)
    [] op = "mget"   -> IF IsBytes(v) THEN v ELSE Nil
    [] v = None      -> Nil
    [] v = Coll      -> WrongType
    [] op = "get"    -> v
    [] op = "strlen" -> Number(Length(v))

\* What a write command does to the value v of its key: the value after it
\* and the reply.
After(v, r) == [value |-> v, reply |-> r]

WriteEffect(command, v) ==
  LET op  == command.op
      arg == command.arg
      new == command.vals[1]
      len == IF v = None THEN 0 ELSE Length(v)
      by(d) == AddInt64(IF v = None THEN 0 ELSE v.n, d)
      grow(n) == After(Text(n), Number(Text(n).n))
      number(n) == After(IntVal(n), Number(n))
  IN
  CASE op = "del"   -> After(None, Number(IF v = None THEN 0 ELSE 1))
    [] op = "setnx" -> IF v = None THEN After(new, Number(1)) ELSE After(v, Number(0))
    [] op = "setex" -> After(new, Ok)
    [] op = "sadd"  -> IF v = None THEN After(Coll, Number(1))
                       ELSE After(v, IF v = Coll THEN Number(0) ELSE WrongType)
    [] v = Coll     -> After(v, WrongType)
    [] op = "set"   ->
         LET done == ("nx" \in command.opt => v = None) /\ ("xx" \in command.opt => v # None)
         IN  After(IF done THEN new ELSE v,
                   IF "get" \in command.opt THEN IF v = None THEN Nil ELSE v
                   ELSE IF done THEN Ok ELSE Nil)
    [] op = "append" -> grow(len + Length(new))
    [] op = "setrange" ->
         grow(IF arg + Length(new) < len THEN len ELSE arg + Length(new))
    [] v.t = "text"  -> After(v, Error)
    [] op = "incr"   -> number(by(1))
    [] op = "decr"   -> number(by(-1))
    [] op = "incrby" -> number(by(arg))
    [] op = "decrby" -> number(by(-arg))

ReadOps  == {"exists", "type", "mget", "get", "strlen"}
WriteOps == {"del", "setnx", "setex", "sadd", "set", "append", "setrange",
             "incr", "decr", "incrby", "decrby"}

InvalidSet(command) ==
  /\ command.op = "set"
  /\ {"nx", "xx"} \subseteq command.opt \/ {"ex", "keepttl"} \subseteq command.opt

Answer(c, reply) ==
  /\ answer' = [answer EXCEPT ![c] = Append(@, reply)]
  /\ UNCHANGED <<volatile, call>>

\* The key the next step of c is about.
KeyOf(c) == call[c].keys[IF Repeated(call[c]) THEN Len(answer[c]) + 1 ELSE 1]

Pending(c) == call[c] # NoCommand /\ Len(answer[c]) < Answers(call[c])

DoRead(c) ==
  /\ call[c].op \in ReadOps
  /\ Answer(c, ReadReply(call[c].op, store[KeyOf(c)]))
  /\ UNCHANGED store

DoWrite(c) ==
  /\ call[c].op \in WriteOps /\ ~InvalidSet(call[c])
  /\ LET e == WriteEffect(call[c], store[KeyOf(c)]) IN
       /\ store' = [store EXCEPT ![KeyOf(c)] = e.value]
       /\ Answer(c, e.reply)

DoInvalid(c) ==
  /\ InvalidSet(call[c])
  /\ Answer(c, Error)
  /\ UNCHANGED store

\* All keys of an MSET at once; of a key named twice the last value stays.
DoMSet(c) ==
  /\ call[c].op = "mset"
  /\ LET keys == call[c].keys
         last(k) == CHOOSE i \in DOMAIN keys :
                      keys[i] = k /\ \A j \in DOMAIN keys : keys[j] = k => j <= i
     IN store' = [k \in Key |-> IF \E i \in DOMAIN keys : keys[i] = k
                                THEN call[c].vals[last(k)] ELSE store[k]]
  /\ Answer(c, Ok)

DoRename(c) ==
  /\ call[c].op = "rename"
  /\ LET old == call[c].keys[1]
         new == call[c].keys[2]
     IN IF store[old] = None THEN Answer(c, Error) /\ UNCHANGED store
        ELSE /\ store' = [k \in Key |-> IF k = new THEN store[old]
                                        ELSE IF k = old THEN None ELSE store[k]]
             /\ Answer(c, Ok)

\* Deadlines are not part of the abstract state: EXPIRE may answer 1 for a key
\* that is there, PERSIST answers 1, TTL answers -2 and -1 for an absent and a
\* present key without deadline and any number for another.
DoDeadline(c) ==
  /\ \/ /\ call[c].op = "expire"
        /\ \/ Answer(c, Number(0))
           \/ store[KeyOf(c)] # None /\ Answer(c, Number(1))
           \/ Answer(c, Error)
     \/ /\ call[c].op = "persist"
        /\ Answer(c, Number(1))
     \/ /\ call[c].op = "ttl"
        /\ \/ Answer(c, Number(IF store[KeyOf(c)] = None THEN -2 ELSE -1))
           \/ KeyOf(c) \in volatile /\ \E n \in TTLReplies : Answer(c, Number(n))
  /\ UNCHANGED store

\* A command finds its key expired: the key goes and the reply is the one for
\* an absent key.
DoExpired(c) ==
  /\ KeyOf(c) \in volatile
  /\ store' = [store EXCEPT ![KeyOf(c)] = None]
  /\ \/ /\ call[c].op \in {"exists", "type", "mget", "get"}
        /\ Answer(c, ReadReply(call[c].op, None))
     \/ /\ call[c].op \in {"del", "expire", "persist"}
        /\ Answer(c, Number(0))
     \/ /\ call[c].op = "rename"
        /\ Answer(c, Error)

Do(c) ==
  /\ Pending(c)
  /\ \/ DoRead(c) \/ DoWrite(c) \/ DoInvalid(c)
     \/ DoMSet(c) \/ DoRename(c) \/ DoDeadline(c) \/ DoExpired(c)

Vanish(k) ==
  /\ k \in volatile
  /\ store' = [store EXCEPT ![k] = None]
  /\ UNCHANGED <<volatile, call, answer>>

KVNext ==
  \/ \E c \in Proc : Do(c) \/ KVReturn(c) \/ \E command \in Command : KVCall(c, command)
  \/ \E k \in Key : Vanish(k)

KVSpec == KVInit /\ [][KVNext]_kvVars
=============================================================================
