------------------------------ MODULE MCParts ------------------------------
(* Parts of the system that are checked each for itself: the data structures *)
(* of the server, its algorithms on strings, the parser, and the replication *)
(* of a cluster. The part that works is chosen at the start. The bounds are  *)
(* chosen so that a heap has three levels, a skip list two with nodes        *)
(* between the linked ones, arguments reach one past both ends of a list,    *)
(* and a node can take a snapshot, restart and lead again.                   *)
EXTENDS MCCluster, List, ZSet, TTLIndex, Text, Parser

MCMaxArg == MaxLen + 1

PartsSymmetry == Permutations(Elem) \cup ReplicaSymmetry

\* Arguments of commands: empty, with a line end inside, and null.
Payload == {BulkData(<<>>), BulkData(CRLF), NullBulk}

\* 97 is a letter, 42, 36 and 58 announce an array, a bulk string, an integer.
Frame ==
  {ArrayData(<<x>>) : x \in Payload \cup {IntData(1)}} \cup
  {ArrayData(<<x, y>>) : x, y \in Payload} \cup
  {StringData(<<97>>), ErrorData(<<97>>), IntData(-1), PlainData(<<97, 97>>),
   BulkData(<<42, 49>>), NullBulk, ArrayData(<<>>), NullArray} \cup
  {Bad(<<42, 97>> \o CRLF), Bad(<<36, 97>> \o CRLF), Bad(<<58, 97>> \o CRLF), Bad(<<97, LF>>)}

AllStreams == {<<>>} \cup {<<f, g>> : f, g \in Frame}

VARIABLE part

Parts == {"list", "zset", "ttl", "text", "parser", "commands", "replicas"}

MCInit ==
  /\ part \in Parts
  /\ ListInit /\ ZSetInit /\ TTLInit /\ TextInit /\ ParserInit /\ ClusterInit
  /\ part = "parser" <=> frames # <<>>

\* The cluster twice: with all commands, and with more calls of fewer commands.
Limited(commands, maxCalls) ==
  \A id \in DOMAIN calls' : id <= maxCalls /\ calls'[id].cmd \in commands

MCNext ==
  /\ UNCHANGED part
  /\ part # "list" => UNCHANGED listVars
  /\ part # "zset" => UNCHANGED zsetVars
  /\ part # "ttl" => UNCHANGED ttlVars
  /\ part # "text" => UNCHANGED textVars
  /\ part # "parser" => UNCHANGED parserVars
  /\ part \notin {"commands", "replicas"} => UNCHANGED clusterVars
  /\ \/ part = "list" /\ ListNext
     \/ part = "zset" /\ ZSetNext
     \/ part = "ttl" /\ TTLNext
     \/ part = "text" /\ TextNext
     \/ part = "parser" /\ ParseStep
     \/ part = "commands" /\ ClusterNext /\ Limited(Command, 2)
     \/ part = "replicas" /\ ClusterNext /\ Limited({"write", "read", "info"}, MaxCalls)

MCSpec ==
  MCInit /\ [][MCNext]_<<listVars, zsetVars, ttlVars, textVars, parserVars, clusterVars, part>>
=============================================================================
