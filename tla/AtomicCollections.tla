------------------------- MODULE AtomicCollections -------------------------
(***************************************************************************)
(* What the commands on lists, hashes and sorted sets promise to concurrent *)
(* clients: between its call and its return a command takes effect on the  *)
(* whole map in one step, as if it were executed alone (module            *)
(* Collections). Keys whose deadline has passed may besides vanish,        *)
(* between the steps of commands or as part of one.                        *)
(***************************************************************************)
EXTENDS Collections

CONSTANTS Proc, Key, Command, NoCommand

VARIABLES
  store,   \* store[k]: the value of k
  call,    \* call[c]: the command c waits for
  answer,  \* answer[c]: <<>> or the reply
  passed   \* keys whose deadline has passed

atomicVars == <<store, call, answer, passed>>

AtomicInit ==
  /\ store = [k \in Key |-> None]
  /\ call = [c \in Proc |-> NoCommand] /\ answer = [c \in Proc |-> <<>>]
  /\ passed = {}

AtomicCall(c, command) ==
  /\ call[c] = NoCommand /\ call' = [call EXCEPT ![c] = command]
  /\ UNCHANGED <<store, answer, passed>>

\* The store without the keys in gone.
Without(gone) == [k \in Key |-> IF k \in gone THEN None ELSE store[k]]

AtomicDo(c) ==
  /\ call[c] # NoCommand /\ answer[c] = <<>>
  /\ \E gone \in SUBSET passed : \E o \in Outcomes(Without(gone), call[c]) :
       answer' = [answer EXCEPT ![c] = <<o.reply>>] /\ store' = o.map
  /\ UNCHANGED <<call, passed>>

AtomicReturn(c) ==
  /\ answer[c] # <<>>
  /\ call' = [call EXCEPT ![c] = NoCommand] /\ answer' = [answer EXCEPT ![c] = <<>>]
  /\ UNCHANGED <<store, passed>>

AtomicDeadline(k) == passed' = passed \cup {k} /\ UNCHANGED <<store, call, answer>>

AtomicVanish(k) ==
  /\ k \in passed /\ store' = Without({k})
  /\ UNCHANGED <<call, answer, passed>>

AtomicNext ==
  \/ \E c \in Proc :
       (\E command \in Command : AtomicCall(c, command)) \/ AtomicDo(c) \/ AtomicReturn(c)
  \/ \E k \in Key : AtomicDeadline(k) \/ AtomicVanish(k)

AtomicSpec == AtomicInit /\ [][AtomicNext]_atomicVars
=============================================================================
