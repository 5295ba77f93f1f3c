------------------------------- MODULE Proxy -------------------------------
(***************************************************************************)
(* The proxy of pkg/proxy/proxy.go: for every client it looks for the node *)
(* that leads, connects to it and copies bytes in both directions until    *)
(* one of them ends. The nodes are external: a node that is up answers     *)
(* INFO replication with its role, and several may answer role:master for  *)
(* a while. Bytes from a client are numbered; what nodes answer is left    *)
(* out, but for the end of their connections.                              *)
(***************************************************************************)
EXTENDS Integers, Sequences

CONSTANTS
  Target,       \* the nodes of the configuration
  Targets,      \* the sequence of them that is probed
  User,         \* connections of clients
  NoTarget,
  MaxBytes,     \* bound: bytes that a client sends
  MaxChanges    \* bound: nodes end or start, begin to lead or stop to

VARIABLES
  up,         \* nodes that run
  masters,    \* nodes that answer role:master
  changes,    \* changes of the nodes so far
  stopping,   \* the context is done
  current,    \* p.currentLeader
  at,         \* at[u]: where handleClient is
  next,       \* next[u]: the number of the target to probe, 0 for current
  chosen,     \* chosen[u]: the result of discoverLeader
  inbox,      \* inbox[u]: bytes that nobody has read from the client
  closed,     \* closed[u]: the client has closed its end
  pipes       \* pipes[u]: the connections made to nodes, the latest one last

proxyVars == <<up, masters, changes, stopping, current, at, next, chosen, inbox, closed, pipes>>
nodeVars == <<up, masters, changes>>
userVars == <<inbox, closed>>

\* A connection to a node: what the node has done to it (end), whether the proxy
\* has it open, whether the goroutines that copy from the client (in) and to it
\* (out) run, the first of their errors, and the bytes that were sent over it.
NewPipe(t) ==
  [target |-> t, end |-> "open", open |-> TRUE, in |-> TRUE, out |-> TRUE, err |-> "none",
   got |-> <<>>]

\* Some clients have just connected, others are not there.
ProxyInit ==
  /\ up = Target /\ masters \in {{t} : t \in Target} /\ changes = 0
  /\ stopping = FALSE /\ current = NoTarget
  /\ at \in [User -> {"discover", "returned"}] /\ next = [u \in User |-> 0]
  /\ chosen = [u \in User |-> NoTarget]
  /\ inbox \in [User -> {[i \in 1 .. n |-> i] : n \in 0 .. MaxBytes}]
  /\ closed = [u \in User |-> FALSE] /\ pipes = [u \in User |-> <<>>]

Goto(u, label) == at' = [at EXCEPT ![u] = label]

-----------------------------------------------------------------------------
(* Nodes and clients *)

\* A node that ends closes or resets its connections.
Ended(p, t, how) == IF p.target = t /\ p.open /\ p.end = "open" THEN [p EXCEPT !.end = how] ELSE p

Change ==
  /\ changes < MaxChanges /\ changes' = changes + 1
  /\ \E t \in Target :
       \/ /\ t \in up /\ up' = up \ {t} /\ masters' = masters \ {t}
          /\ \E how \in {"eof", "reset"} :
               pipes' = [u \in User |-> [i \in DOMAIN pipes[u] |-> Ended(pipes[u][i], t, how)]]
       \/ t \notin up /\ up' = up \cup {t} /\ UNCHANGED <<masters, pipes>>
       \/ t \in up \ masters /\ masters' = masters \cup {t} /\ UNCHANGED <<up, pipes>>
       \/ t \in masters /\ masters' = masters \ {t} /\ UNCHANGED <<up, pipes>>
  /\ UNCHANGED <<stopping, current, at, next, chosen, userVars>>

UserCloses(u) ==
  /\ at[u] # "returned" /\ ~closed[u] /\ closed' = [closed EXCEPT ![u] = TRUE]
  /\ UNCHANGED <<nodeVars, stopping, current, at, next, chosen, inbox, pipes>>

Cancel ==
  /\ ~stopping /\ stopping' = TRUE
  /\ UNCHANGED <<nodeVars, current, at, next, chosen, userVars, pipes>>

-----------------------------------------------------------------------------
(* handleClient *)

\* Wrong: only the cached leader is probed when there is one.
AfterProbeCached(u) == IF next[u] = 0 /\ current # NoTarget THEN 0 ELSE next[u] + 1

\* The next target to probe when this one does not lead.
AfterProbe(u) == next[u] + 1

\* probeTarget of the cached leader, then of every target until one leads.
DiscoverLeader(u) ==
  LET t == IF next[u] = 0 THEN current ELSE Targets[next[u]] IN
  /\ at[u] = "discover" /\ ~stopping /\ next[u] <= Len(Targets)
  /\ \/ /\ t \in up \cap masters
        /\ chosen' = [chosen EXCEPT ![u] = t] /\ current' = t
        /\ Goto(u, "dial") /\ next' = [next EXCEPT ![u] = 0]
     \/ /\ t \notin up \cap masters
        /\ next' = [next EXCEPT ![u] = AfterProbe(u)] /\ UNCHANGED <<at, chosen, current>>
  /\ UNCHANGED <<nodeVars, stopping, userVars, pipes>>

\* No leader was found: wait for RetryInterval.
NoLeader(u) ==
  /\ at[u] = "discover" /\ next[u] > Len(Targets)
  /\ Goto(u, "wait") /\ next' = [next EXCEPT ![u] = 0]
  /\ UNCHANGED <<nodeVars, stopping, current, chosen, userVars, pipes>>

clearCurrentLeader(t) == current' = IF current = t THEN NoTarget ELSE current

DialLeader(u) ==
  /\ at[u] = "dial"
  /\ \/ /\ chosen[u] \in up /\ Goto(u, "pipe")
        /\ pipes' = [pipes EXCEPT ![u] = Append(@, NewPipe(chosen[u]))]
        /\ UNCHANGED current
     \/ chosen[u] \notin up /\ clearCurrentLeader(chosen[u]) /\ Goto(u, "wait") /\ UNCHANGED pipes
  /\ UNCHANGED <<nodeVars, stopping, next, chosen, userVars>>

Wait(u) ==
  /\ at[u] = "wait" /\ Goto(u, IF stopping THEN "returned" ELSE "discover")
  /\ UNCHANGED <<nodeVars, stopping, current, next, chosen, userVars, pipes>>

StopDiscovering(u) ==
  /\ at[u] = "discover" /\ stopping /\ Goto(u, "returned")
  /\ UNCHANGED <<nodeVars, stopping, current, next, chosen, userVars, pipes>>

\* Wrong: the connection to the node stays open.
PipeEndsOpen(u) ==
  LET err == pipes[u][Len(pipes[u])].err IN
  /\ at[u] = "pipe" /\ (stopping \/ err # "none")
  /\ \/ err \in {"client", "nil"} /\ Goto(u, "returned") /\ UNCHANGED current
     \/ (err = "error" \/ stopping) /\ clearCurrentLeader(chosen[u]) /\ Goto(u, "wait")
  /\ UNCHANGED <<nodeVars, stopping, next, chosen, userVars, pipes>>

\* Wrong: pipeConnections does not look at the context.
PipeEndsByItself(u) ==
  LET err == pipes[u][Len(pipes[u])].err IN
  /\ at[u] = "pipe" /\ err # "none"
  /\ pipes' = [pipes EXCEPT ![u][Len(pipes[u])].open = FALSE, ![u][Len(pipes[u])].out = FALSE]
  /\ \/ err \in {"client", "nil"} /\ Goto(u, "returned") /\ UNCHANGED current
     \/ err = "error" /\ clearCurrentLeader(chosen[u]) /\ Goto(u, "wait")
  /\ UNCHANGED <<nodeVars, stopping, next, chosen, userVars>>

\* pipeConnections returns: the context is done, or one of the goroutines has
\* ended. The connection to the node is closed, with which the goroutine that
\* copies from it ends. If the node has failed the client gets another one, else
\* it is closed too.
PipeEnds(u) ==
  LET i == Len(pipes[u])
      err == pipes[u][i].err
  IN /\ at[u] = "pipe" /\ (stopping \/ err # "none")
     /\ pipes' = [pipes EXCEPT ![u][i].open = FALSE, ![u][i].out = FALSE]
     /\ \/ err \in {"client", "nil"} /\ Goto(u, "returned") /\ UNCHANGED current
        \/ /\ err = "error" \/ stopping
           /\ clearCurrentLeader(chosen[u]) /\ Goto(u, "wait")
     /\ UNCHANGED <<nodeVars, stopping, next, chosen, userVars>>

-----------------------------------------------------------------------------
(* proxyCopy *)

\* A goroutine reports why it has ended; the first report counts, and none after
\* pipeConnections has returned.
Reported(p, err) == IF p.err = "none" /\ p.open THEN err ELSE p.err

\* From the client. A byte that is read after the connection has ended is lost;
\* so the goroutine learns that it cannot write, at once if the proxy has closed
\* the connection.
CopyIn(u, i) ==
  LET p == pipes[u][i]
      live == p.open /\ p.end = "open"
      over == [p EXCEPT !.in = FALSE, !.err = Reported(p, "client")]
  IN /\ p.in
     /\ \/ /\ inbox[u] # <<>> /\ at[u] # "returned" /\ inbox' = [inbox EXCEPT ![u] = Tail(@)]
           /\ \/ live /\ pipes' = [pipes EXCEPT ![u][i].got = Append(@, Head(inbox[u]))]
              \/ ~live /\ p.open /\ UNCHANGED pipes
              \/ ~live /\ pipes' = [pipes EXCEPT ![u][i] = over]
        \/ /\ (closed[u] /\ inbox[u] = <<>>) \/ at[u] = "returned"
           /\ pipes' = [pipes EXCEPT ![u][i] = over] /\ UNCHANGED inbox
     /\ UNCHANGED <<nodeVars, stopping, current, at, next, chosen, closed>>

\* To the client: ends with the connection to the node, or when an answer cannot
\* be written because the client has closed.
CopyOut(u, i) ==
  LET p == pipes[u][i] IN
  /\ p.out
  /\ \E err \in {"nil", "error"} :
       /\ \/ err = "nil" /\ p.end = "eof"
          \/ err = "error" /\ (p.end = "reset" \/ (closed[u] /\ p.got # <<>>))
       /\ pipes' = [pipes EXCEPT ![u][i] = [p EXCEPT !.out = FALSE, !.err = Reported(p, err)]]
  /\ UNCHANGED <<nodeVars, stopping, current, at, next, chosen, userVars>>

Client(u) ==
  \/ DiscoverLeader(u) \/ NoLeader(u) \/ DialLeader(u) \/ Wait(u) \/ StopDiscovering(u)
  \/ PipeEnds(u)

ProxyNext ==
  \/ Change \/ Cancel
  \/ \E u \in User :
       \/ Client(u) \/ UserCloses(u)
       \/ \E i \in DOMAIN pipes[u] : CopyIn(u, i) \/ CopyOut(u, i)

\* The goroutine of a client runs, probes and dialling end after DialTimeout, and
\* the copying goroutines see what clients send and the ends of connections.
ProxyFairness ==
  \A u \in User :
    /\ WF_proxyVars(Client(u))
    /\ WF_proxyVars(\E i \in DOMAIN pipes[u] : CopyOut(u, i))
    /\ WF_proxyVars(\E i \in DOMAIN pipes[u] : CopyIn(u, i))

ProxySpec == ProxyInit /\ [][ProxyNext]_proxyVars /\ ProxyFairness

-----------------------------------------------------------------------------
(* Properties *)

\* What a client sends reaches the nodes in order and nothing twice, over all the
\* connections that were made for it: a goroutine that is left from an earlier
\* connection may swallow bytes, but never delivers them. Nothing is lost before
\* the first connection ends.
BytesInOrder ==
  \A u \in User :
    LET got(i) == pipes[u][i].got IN
    /\ \A i, j \in DOMAIN pipes[u] : \A a \in DOMAIN got(i), b \in DOMAIN got(j) :
         i < j \/ (i = j /\ a < b) => got(i)[a] < got(j)[b]
    /\ Len(pipes[u]) = 1 /\ pipes[u][1].open /\ pipes[u][1].end = "open" =>
         /\ \A a \in DOMAIN got(1) : got(1)[a] = a
         /\ \A b \in DOMAIN inbox[u] : inbox[u][b] = Len(got(1)) + b

\* Unless there is no node that leads again and again, a client is connected
\* again until it is closed, and handleClient returns if the client closes: a
\* stale currentLeader, one that several clients set and clear, does not keep
\* discoverLeader from finding the leader, nor do goroutines of earlier connections
\* keep the end of the client from the later ones.
Served ==
  \A u \in User :
    \/ []<>(up \cap masters = {})
    \/ []<>(at[u] \in {"pipe", "returned"}) /\ (<>closed[u] => <>(at[u] = "returned"))

\* When the context is done every handleClient returns.
ProxyStops == stopping ~> \A u \in User : at[u] = "returned"
=============================================================================
