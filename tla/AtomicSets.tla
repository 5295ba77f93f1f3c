----------------------------- MODULE AtomicSets -----------------------------
(***************************************************************************)
(* What the set commands promise to concurrent clients: between its call   *)
(* and its return a command takes effect on the whole map in one step, as  *)
(* if it were executed alone (module SetOps). A STORE command takes effect *)
(* in two steps: it computes its result from all its sources at one time,  *)
(* and stores it in its destination, unless that holds a string, at a      *)
(* later one.                                                              *)
(***************************************************************************)
EXTENDS SetOps

CONSTANTS Proc, Key, Command, NoCommand

VARIABLES
  store,   \* store[k]: the value of k
  call,    \* call[c]: the command c waits for
  draft,   \* draft[c]: <<>> or the set that c is about to store
  answer   \* answer[c]: <<>> or the reply

setsVars == <<store, call, draft, answer>>

SetsInit ==
  /\ store = [k \in Key |-> None]
  /\ call = [c \in Proc |-> NoCommand]
  /\ draft = [c \in Proc |-> <<>>]
  /\ answer = [c \in Proc |-> <<>>]

IsStore(command) == command.op \in {"sunionstore", "sinterstore", "sdiffstore"}

Pending(c) == call[c] # NoCommand /\ answer[c] = <<>>

SetsCall(c, command) ==
  /\ call[c] = NoCommand
  /\ call' = [call EXCEPT ![c] = command]
  /\ UNCHANGED <<store, draft, answer>>

SetsReturn(c) ==
  /\ answer[c] # <<>>
  /\ call' = [call EXCEPT ![c] = NoCommand]
  /\ answer' = [answer EXCEPT ![c] = <<>>]
  /\ UNCHANGED <<store, draft>>

Reply(c, r) == answer' = [answer EXCEPT ![c] = <<r>>]

Do(c) ==
  /\ Pending(c) /\ ~IsStore(call[c])
  /\ \E o \in Outcomes(store, call[c]) : store' = o.map /\ Reply(c, o.reply)
  /\ UNCHANGED <<call, draft>>

\* The result of a STORE from the sources, at one time.
Compute(c) ==
  /\ Pending(c) /\ IsStore(call[c]) /\ draft[c] = <<>>
  /\ LET sources == Tail(call[c].keys)
         vals == [i \in DOMAIN sources |-> store[sources[i]]]
         r == CASE call[c].op = "sunionstore" -> SUnion(vals)
                [] call[c].op = "sinterstore" -> SInter(vals)
                [] call[c].op = "sdiffstore"  -> SDiff(vals)
     IN \/ r.reply \in {WrongType, Panic} /\ Reply(c, r.reply) /\ UNCHANGED draft
        \/ /\ r.reply \notin {WrongType, Panic}
           /\ draft' = [draft EXCEPT ![c] = <<r.set>>] /\ UNCHANGED answer
        \/ /\ call[c].op = "sunionstore" /\ SetsOf(vals) = <<>>
           /\ Reply(c, Members({})) /\ UNCHANGED draft
  /\ UNCHANGED <<store, call>>

\* The destination holds a string: the STORE gives up, at any time.
Refuse(c) ==
  /\ Pending(c) /\ IsStore(call[c]) /\ store[call[c].keys[1]] = Str
  /\ Reply(c, WrongType)
  /\ draft' = [draft EXCEPT ![c] = <<>>]
  /\ UNCHANGED <<store, call>>

\* The result is stored; an empty one is not.
Put(c) ==
  /\ Pending(c) /\ IsStore(call[c]) /\ draft[c] # <<>>
  /\ LET dest == call[c].keys[1]
         S == draft[c][1]
     IN /\ store[dest] # Str
        /\ store' = IF S = {} THEN store ELSE [store EXCEPT ![dest] = SetVal(S)]
        /\ Reply(c, Number(Cardinality(S)))
  /\ draft' = [draft EXCEPT ![c] = <<>>]
  /\ UNCHANGED call

SetsNext ==
  \E c \in Proc :
    \/ \E command \in Command : SetsCall(c, command)
    \/ Do(c) \/ Compute(c) \/ Refuse(c) \/ Put(c) \/ SetsReturn(c)

SetsSpec == SetsInit /\ [][SetsNext]_setsVars
=============================================================================
