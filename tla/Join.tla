-------------------------------- MODULE Join --------------------------------
(***************************************************************************)
(* A node starts, and perhaps joins a cluster (NewNode, join and handleJoin *)
(* of pkg/cluster/node.go). Servers that are in the cluster listen at two   *)
(* addresses, one for the HTTP request to join and one for Raft. The node   *)
(* has a directory on disk: the state of Raft, and a file with the address  *)
(* of a leader, which join and leaderWatchLoop write. The process may end   *)
(* at any time and is started again, with or without addresses to join.     *)
(***************************************************************************)
EXTENDS Integers, Sequences, FiniteSets

CONSTANTS
  Server,      \* the servers of the cluster
  Configs,     \* sequences of addresses: the values of --raft-join
  NoServer,
  MaxTroubles  \* bound: requests or answers lost, changes of leader, crashes

\* An address is that of a port of a server. It may be spelled as a URL, and may end
\* with a slash.
Addr == [server : Server \cup {NoServer}, port : {"http", "raft"},
         scheme : {"", "http", "https"}, slash : BOOLEAN]

Plain(s, port) == [server |-> s, port |-> port, scheme |-> "", slash |-> FALSE]

ASSUME ConfigsAssumption == Configs \subseteq Seq(Addr)

Http(s)     == Plain(s, "http")
RaftAddr(s) == Plain(s, "raft")

\* parseLeaderHint of "leadership lost while committing log": the word leadership.
NoHost == Http(NoServer)

VARIABLES
  phase,     \* where the process is: down, joining, up or failed
  hasState,  \* there is state of Raft on disk
  cache,     \* <<>> or the address in the file leader.addr
  queue,     \* addresses to ask
  seen,      \* normalized addresses that were asked
  last,      \* what leaderWatchLoop has last read or written
  leader,    \* the server that leads, or NoServer
  member,    \* the configuration of Raft has the node
  troubles,  \* the troubles so far
  found      \* history: whether the join began with a usable address of the leader,
             \* "yes" or "no", or "unknown" once there is trouble

joinVars == <<phase, hasState, cache, queue, seen, last, leader, member, troubles, found>>

JoinInit ==
  /\ phase = "down" /\ hasState = FALSE /\ cache = <<>> /\ queue = <<>> /\ seen = {}
  /\ last = <<>> /\ leader \in Server /\ member = FALSE /\ troubles = 0
  /\ found = "unknown"

\* The key of an address is the address without the scheme and the slash.
normalizeJoinAddr(a) == Plain(a.server, a.port)

\* The positions of addresses whose normalized form has not come before.
Fresh(targets) ==
  {i \in DOMAIN targets :
     \A j \in 1 .. i - 1 : normalizeJoinAddr(targets[j]) # normalizeJoinAddr(targets[i])}

\* The n-th of them, and the targets without the others.
NthFresh(targets, n) ==
  CHOOSE i \in Fresh(targets) : Cardinality({j \in Fresh(targets) : j <= i}) = n

Distinct(targets) ==
  [n \in 1 .. Cardinality(Fresh(targets)) |-> targets[NthFresh(targets, n)]]

collectJoinTargets(addrs) == Distinct(cache \o addrs)

\* The URL that joinOnce asks. A path is appended to an address without a scheme as
\* it stands, slash included.
buildJoinURL(a) ==
  [server |-> a.server, port |-> a.port,
   scheme |-> IF a.scheme = "" THEN "http" ELSE a.scheme,
   path   |-> IF a.scheme = "" /\ a.slash THEN "//join" ELSE "/join"]

\* The HTTP server of a node speaks no TLS, and handles a POST only at /join: it
\* redirects one for //join, which makes the client send a GET.
Serves(u) == u.port = "http" /\ u.scheme = "http" /\ u.path = "/join"

\* For the history: of the addresses that name the HTTP port of the leader, the first
\* one has a spelling that the leader serves.
NamesLeader(a) == a.server = leader /\ a.port = "http"

FirstServed(addrs) ==
  /\ leader # NoServer
  /\ \E i \in DOMAIN addrs :
       /\ NamesLeader(addrs[i]) /\ Serves(buildJoinURL(addrs[i]))
       /\ \A j \in 1 .. i - 1 : ~NamesLeader(addrs[j])

\* NewNode up to the join. A node that has state must not be told to join.
NewNode(addrs) ==
  LET targets == collectJoinTargets(addrs) IN
  /\ phase = "down"
  /\ \/ hasState /\ addrs # <<>> /\ phase' = "failed" /\ UNCHANGED <<queue, found>>
     \/ hasState /\ addrs = <<>> /\ phase' = "up" /\ UNCHANGED <<queue, found>>
     \/ /\ ~hasState /\ phase' = IF targets = <<>> THEN "up" ELSE "joining"
        /\ queue' = targets
        /\ found' = IF FirstServed(cache \o addrs) THEN "yes" ELSE "no"
  /\ seen' = {} /\ last' = cache
  /\ UNCHANGED <<hasState, cache, leader, member, troubles>>

\* What joinOnce returns, and whether the node is then a member. Only the leader
\* accepts, at a URL it serves. Another server redirects to the Raft port of the
\* leader, where the HTTP client gets no answer.
Answer(err, hint, m) == [err |-> err, hint |-> hint, member |-> m]

Refusal == Answer(TRUE, <<>>, member)

handleJoin(target) ==
  IF Serves(buildJoinURL(target)) /\ target.server = leader /\ leader # NoServer
  THEN Answer(FALSE, <<target>>, TRUE) ELSE Refusal

\* The request or the answer gets lost, or the leader steps down meanwhile.
TroubledJoin(target) ==
  IF handleJoin(target).err THEN {Refusal}
  ELSE {Refusal, Answer(TRUE, <<>>, TRUE)}
         \cup {Answer(TRUE, <<NoHost>>, m) : m \in {member, TRUE}}

Trouble == troubles < MaxTroubles /\ troubles' = troubles + 1 /\ found' = "unknown"

\* Wrong: a hint takes the place of the other targets.
AfterAnswerDrops(answer) ==
  IF answer.err THEN queue' = answer.hint /\ UNCHANGED <<phase, cache>>
  ELSE phase' = "up" /\ cache' = answer.hint /\ UNCHANGED queue

\* The loop goes on with the hint, if there is a new one, or the next target.
AfterAnswer(answer) ==
  IF answer.err
  THEN /\ queue' = IF answer.hint # <<>> /\ normalizeJoinAddr(answer.hint[1]) \notin seen'
                   THEN answer.hint \o Tail(queue) ELSE Tail(queue)
       /\ UNCHANGED <<phase, cache>>
  ELSE phase' = "up" /\ cache' = answer.hint /\ UNCHANGED queue

\* Wrong: a target that refuses is asked again.
joinRetries ==
  /\ phase = "joining" /\ queue # <<>>
  /\ LET answer == handleJoin(Head(queue)) IN
       phase' = IF answer.err THEN phase ELSE "up"
  /\ UNCHANGED <<hasState, cache, queue, seen, last, leader, member, troubles, found>>

\* One turn of the loop in join.
join ==
  LET target == Head(queue) IN
  /\ phase = "joining"
  /\ \/ queue = <<>> /\ phase' = "failed"
        /\ UNCHANGED <<cache, queue, seen, member, troubles, found>>
     \/ /\ queue # <<>> /\ normalizeJoinAddr(target) \in seen
        /\ queue' = Tail(queue) /\ UNCHANGED <<phase, cache, seen, member, troubles, found>>
     \/ /\ queue # <<>> /\ normalizeJoinAddr(target) \notin seen
        /\ seen' = seen \cup {normalizeJoinAddr(target)}
        /\ \/ /\ AfterAnswer(handleJoin(target)) /\ member' = handleJoin(target).member
              /\ UNCHANGED <<troubles, found>>
           \/ /\ Trouble
              /\ \E answer \in TroubledJoin(target) :
                   AfterAnswer(answer) /\ member' = answer.member
  /\ UNCHANGED <<hasState, last, leader>>

Running == phase \in {"joining", "up"}

\* The leader sends a member that runs entries or a heartbeat.
HearsLeader ==
  /\ Running /\ member /\ leader # NoServer /\ hasState' = TRUE
  /\ UNCHANGED <<phase, cache, queue, seen, last, leader, member, troubles, found>>

\* A tick of leaderWatchLoop: it writes the address of the leader, for Raft, when
\* it differs from the last one.
leaderWatchLoop ==
  /\ Running /\ hasState /\ leader # NoServer /\ last # <<RaftAddr(leader)>>
  /\ cache' = <<RaftAddr(leader)>> /\ last' = cache'
  /\ UNCHANGED <<phase, hasState, queue, seen, leader, member, troubles, found>>

LeaderChanges ==
  /\ Trouble /\ leader' \in (Server \cup {NoServer}) \ {leader}
  /\ UNCHANGED <<phase, hasState, cache, queue, seen, last, member>>

\* The process ends: killed, or because NewNode has failed.
Ends ==
  /\ \/ Running /\ Trouble
     \/ phase = "failed" /\ UNCHANGED <<troubles, found>>
  /\ phase' = "down" /\ queue' = <<>> /\ seen' = {}
  /\ UNCHANGED <<hasState, cache, last, leader, member>>

JoinNext ==
  \/ \E addrs \in Configs : NewNode(addrs)
  \/ join \/ HearsLeader \/ leaderWatchLoop \/ LeaderChanges \/ Ends

\* A request ends after joinRequestTimeout at the latest.
JoinFairness == WF_joinVars(join)

JoinSpec == JoinInit /\ [][JoinNext]_joinVars /\ JoinFairness

-----------------------------------------------------------------------------
(* Properties *)

\* When nothing gets lost and nobody ends or changes meanwhile, the spelling of one
\* address decides the join: it succeeds exactly if, among the cached address and
\* the ones the node is given, the first that names the HTTP port of the leader is
\* spelled as the leader serves it. Addresses of others and stale ones, before it or
\* after it, do not matter. Nor does a better spelling after a bad one (https://, or
\* a slash without a scheme): normalizeJoinAddr maps both to one key, and the loops
\* of collectJoinTargets and join drop the second.
JoinFindsLeader ==
  [][phase = "joining" =>
       /\ phase' = "failed" => found # "yes"
       /\ phase' = "up" => found # "no"]_joinVars

\* join asks every address once and ends, whatever hints it gets.
JoinEnds == phase = "joining" ~> phase # "joining"
=============================================================================
