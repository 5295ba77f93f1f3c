----------------------------- MODULE MCServices -----------------------------
(* The processes around the database, each for itself: a node that joins a   *)
(* cluster, the sessions of a server, and the proxy. The part that works is  *)
(* chosen at the start.                                                      *)
EXTENDS Join, Sessions, Proxy, TLC

CONSTANTS s1, s2, c1, c2, t1, t2, u1, u2

\* No address; the leader or not, spelled as a URL; the port of Raft, where nobody
\* answers, in front of the others; a spelling that is not served before and after one
\* that is.
MCConfigs ==
  {<<>>, <<Http(s1)>>,
   <<Http(s2), [Http(s1) EXCEPT !.scheme = "http", !.slash = TRUE]>>,
   <<RaftAddr(s1), Http(s1), Http(s2)>>,
   <<[Http(s1) EXCEPT !.scheme = "https"], Http(s1),
     Http(s2), [Http(s2) EXCEPT !.slash = TRUE]>>}

MCFrames == c1 :> 3 @@ c2 :> 0

MCTargets == <<t1, t2>>

VARIABLE part

MCInit ==
  /\ part \in {"join", "session", "sessions", "client", "clients"}
  /\ JoinInit /\ (part = "join" \/ leader = s1)
  /\ SessionsInit
  /\ ProxyInit /\ (part \in {"client", "clients"} \/ masters = {t1})
  /\ \A u \in User :
       /\ at[u] = "discover" <=> part = "clients" \/ (part = "client" /\ u = u1)
       /\ Len(inbox[u]) = IF part = "client" /\ u = u1 THEN MaxBytes ELSE 0

\* One session with all frames, or two with one; one client of the proxy with all
\* that may happen to it, or two that stay.
MCNext ==
  /\ UNCHANGED part
  /\ part # "join" => UNCHANGED joinVars
  /\ part \notin {"session", "sessions"} => UNCHANGED sessionVars
  /\ part \notin {"client", "clients"} => UNCHANGED proxyVars
  /\ \/ part = "join" /\ JoinNext
     \/ part = "session" /\ SessionsNext /\ conn'[c2] = "none"
     \/ part = "sessions" /\ SessionsNext /\ Len(sent'[c1]) <= 1
     \/ part = "client" /\ ProxyNext
     \/ part = "clients" /\ ProxyNext /\ UNCHANGED closed

\* Nothing that fairness is about can happen in the parts that do not work.
MCSpec ==
  /\ MCInit /\ [][MCNext]_<<joinVars, sessionVars, proxyVars, part>>
  /\ JoinFairness /\ SessionsFairness /\ ProxyFairness
=============================================================================
