----------------------------- MODULE AtomicMap -----------------------------
(***************************************************************************)
(* What ConcurrentMap promises to the goroutines that share it: each Set,  *)
(* Get, Delete, SetIfExist and SetIfNotExist takes effect in one step      *)
(* between its call and its return.                                        *)
(***************************************************************************)
CONSTANTS
  Proc, Key, Val,
  NoVal,   \* there is no value
  NoCall   \* a goroutine is outside the map

VARIABLES
  content,  \* content[k]: the value of k, or NoVal
  call,     \* call[p]: the call p is in, a record [op, key, val]
  ret       \* ret[p]: <<>>, or its result once it has taken effect

mapVars == <<content, call, ret>>

MapInit ==
  /\ content = [k \in Key |-> NoVal]
  /\ call = [p \in Proc |-> NoCall]
  /\ ret = [p \in Proc |-> <<>>]

MapCall(p, c) ==
  /\ call[p] = NoCall
  /\ call' = [call EXCEPT ![p] = c]
  /\ UNCHANGED <<content, ret>>

\* Does the call write its value?
Writes(c) ==
  \/ c.op = "set"
  \/ c.op = "setifexist" /\ content[c.key] # NoVal
  \/ c.op = "setifnotexist" /\ content[c.key] = NoVal

Found(b) == IF b THEN 1 ELSE 0

Result(c) ==
  LET old == content[c.key] IN
  CASE c.op = "get" -> old
    [] c.op \in {"set", "setifnotexist"} -> Found(old = NoVal)
    [] c.op \in {"delete", "setifexist"} -> Found(old # NoVal)

MapDo(p) ==
  /\ call[p] # NoCall /\ ret[p] = <<>>
  /\ LET c == call[p] IN
       /\ ret' = [ret EXCEPT ![p] = <<Result(c)>>]
       /\ content' = IF Writes(c) THEN [content EXCEPT ![c.key] = c.val]
                     ELSE IF c.op = "delete" THEN [content EXCEPT ![c.key] = NoVal]
                     ELSE content
  /\ UNCHANGED call

MapReturn(p) ==
  /\ call[p] # NoCall /\ ret[p] # <<>>
  /\ call' = [call EXCEPT ![p] = NoCall]
  /\ ret' = [ret EXCEPT ![p] = <<>>]
  /\ UNCHANGED content

MapNext(Calls) ==
  \E p \in Proc : MapDo(p) \/ MapReturn(p) \/ \E c \in Calls : MapCall(p, c)

MapCalls ==
  [op : {"set", "get", "delete", "setifexist", "setifnotexist"}, key : Key, val : Val]

Map == MapInit /\ [][MapNext(MapCalls)]_mapVars
=============================================================================
