--------------------------- MODULE ServicesProofs ---------------------------
(***************************************************************************)
(* Theorems about the processes around the database: the sessions of the   *)
(* server, the proxy, and the node that joins a cluster.                   *)
(***************************************************************************)
EXTENDS Join, Sessions, Proxy, FiniteSetTheorems, SequenceTheorems, WellFoundedInduction, TLAPS

-----------------------------------------------------------------------------
(* Sessions *)

SessionsTypeOK ==
  /\ main \in {"accepting", "draining", "stopped"} /\ signal \in BOOLEAN /\ listener \in BOOLEAN
  /\ sent \in [Session -> Seq(Frame)] /\ read \in [Session -> Nat]
  /\ gone \in [Session -> BOOLEAN] /\ conn \in [Session -> {"none", "open", "closed"}]
  /\ parser \in [Session -> {"reading", "closed", "array", "other", "error", "eof"}]
  /\ handle \in [Session -> {"none", "waiting", "executing", "writing", "left"}]
  /\ watcher \in [Session -> BOOLEAN] /\ command \in [Session -> Nat]
  /\ executed \in [Session -> Seq(Nat)] /\ replied \in [Session -> Seq(Nat)]
  /\ lastErr \in [Session -> {"none", "eof", "error", "panic", "write"}]

\* What Handle has taken from the channel, and what the parser holds for it: the
\* parser is at most one frame ahead.
Ahead(c) ==
  /\ command[c] <= read[c] /\ read[c] <= Len(sent[c])
  /\ parser[c] \in {"reading", "closed", "eof"} => command[c] = read[c]
  /\ parser[c] \in {"array", "other"} => command[c] + 1 = read[c] /\ sent[c][read[c]] = parser[c]
  /\ parser[c] = "error" /\ command[c] # read[c] =>
       command[c] + 1 = read[c] /\ sent[c][read[c]] = "unreadable"

\* The commands among the frames that Handle is through with.
Through(c) ==
  {n \in Commands(c) : n <= command[c] /\ (handle[c] = "executing" => n # command[c])}

\* While Handle works, the commands executed are those of the frames it is through
\* with, and it waits for the next one only when the last reply is written.
Loop(c) ==
  handle[c] # "left" =>
    /\ \A n \in 1 .. command[c] : sent[c][n] # "unreadable"
    /\ Executed(c) = Through(c)
    /\ handle[c] = "executing" => command[c] \in DOMAIN sent[c] /\ sent[c][command[c]] = "array"
    /\ handle[c] = "writing" =>
         /\ Len(replied[c]) + 1 = Len(executed[c])
         /\ executed[c][Len(executed[c])] = command[c]
    /\ handle[c] # "writing" => Len(replied[c]) = Len(executed[c])

InOrder(c) ==
  /\ \A i, j \in DOMAIN executed[c] : i < j => executed[c][i] < executed[c][j]
  /\ Executed(c) \subseteq Commands(c)
  /\ \A n \in Executed(c), m \in Commands(c) : m < n => m \in Executed(c)
  /\ Len(replied[c]) \in {Len(executed[c]) - 1, Len(executed[c])}
  /\ \A i \in DOMAIN replied[c] : replied[c][i] = executed[c][i]

NotAccepted(c) == conn[c] = "none" => handle[c] = "none"

SessionsInv ==
  SessionsTypeOK /\ \A c \in Session : NotAccepted(c) /\ Ahead(c) /\ Loop(c) /\ InOrder(c)

\* What Ahead, Loop and InOrder are about.
sessionView(c) ==
  <<sent[c], read[c], parser[c], command[c], handle[c], executed[c], replied[c]>>

\* Sessions that a step does not touch keep the invariant.
LEMMA SessionUntouched ==
  ASSUME NEW c \in Session, Ahead(c), Loop(c), InOrder(c), UNCHANGED sessionView(c)
  PROVE  Ahead(c)' /\ Loop(c)' /\ InOrder(c)'
<1>1. /\ sent'[c] = sent[c] /\ read'[c] = read[c] /\ parser'[c] = parser[c]
      /\ command'[c] = command[c] /\ handle'[c] = handle[c]
      /\ executed'[c] = executed[c] /\ replied'[c] = replied[c]
  BY Zenon DEF sessionView
<1>2. Commands(c)' = Commands(c)
  BY <1>1, Zenon DEF Commands
<1>3. Executed(c)' = Executed(c)
  BY <1>1, Zenon DEF Executed
<1>4. Through(c)' = Through(c)
  BY <1>1, <1>2, Zenon DEF Through
<1>5. Ahead(c)'
  BY <1>1, Zenon DEF Ahead
<1>6. Loop(c)'
  BY <1>1, <1>3, <1>4, Zenon DEF Loop
<1>7. InOrder(c)'
  BY <1>1, <1>2, <1>3, Zenon DEF InOrder
<1> QED
  BY <1>5, <1>6, <1>7, Zenon

\* Every step keeps the types of the variables of the server.
LEMMA SessionsTypeStep ==
  ASSUME SessionsTypeOK, [SessionsNext]_sessionVars
  PROVE  SessionsTypeOK'
<1> USE DEF SessionsTypeOK
<1>1. CASE Signal \/ CloseListener \/ StopAccepting \/ Stop
  BY <1>1, Zenon DEF Signal, CloseListener, StopAccepting, Stop, clientVars, handleVars
<1>2. ASSUME NEW c \in Session, Accept(c) \/ ClientCloses(c) \/ Watch(c)
      PROVE  SessionsTypeOK'
  BY <1>2, Zenon DEF Accept, ClientCloses, Watch, clientVars, handleVars
<1>3. ASSUME NEW c \in Session, NEW frame \in Frame, ClientSends(c, frame)
      PROVE  SessionsTypeOK'
  BY <1>3 DEF ClientSends, handleVars
<1>4. ASSUME NEW c \in Session, Parse(c)
      PROVE  SessionsTypeOK'
  <2>0. read' = [read EXCEPT ![c] = @ + 1] \/ read' = read
    BY <1>4, Zenon DEF Parse
  <2>1. read' \in [Session -> Nat]
    <3>1. CASE read' = [read EXCEPT ![c] = @ + 1]
      BY <3>1
    <3>2. CASE read' = read
      BY <3>2, Zenon
    <3> QED
      BY <2>0, <3>1, <3>2, Zenon
  <2>2. read[c] < Len(sent[c]) => sent[c][read[c] + 1] \in Frame
    OBVIOUS
  <2>3. parser' \in [Session -> {"reading", "closed", "array", "other", "error", "eof"}]
    <3>1. PICK w \in {"array", "other", "error", "eof"} : parser' = [parser EXCEPT ![c] = w]
      <4>1. CASE read[c] < Len(sent[c])
        BY <1>4, <2>2, <4>1, Zenon DEF Parse, Frame
      <4>2. CASE ~(read[c] < Len(sent[c]))
        BY <1>4, <4>2, Zenon DEF Parse
      <4> QED
        BY <4>1, <4>2, Zenon
    <3> QED
      BY <3>1, Zenon
  <2> QED
    BY <1>4, <2>1, <2>3, Zenon DEF Parse, clientVars, handleVars
<1>5. ASSUME NEW c \in Session, Receive(c)
      PROVE  SessionsTypeOK'
  <2>1. parser' \in [Session -> {"reading", "closed", "array", "other", "error", "eof"}]
    BY <1>5, Zenon DEF Receive, AfterSend
  <2>2. command' \in [Session -> Nat]
    BY <1>5, Zenon DEF Receive
  <2>3. /\ handle' \in [Session -> {"none", "waiting", "executing", "writing", "left"}]
        /\ conn' \in [Session -> {"none", "open", "closed"}]
        /\ lastErr' \in [Session -> {"none", "eof", "error", "panic", "write"}]
    <3>1. CASE parser[c] \in {"eof", "error"} /\ Leave(c, parser[c])
      BY <3>1, Zenon DEF Leave
    <3>2. CASE UNCHANGED <<conn, handle, lastErr>>
      BY <3>2, Zenon
    <3>3. CASE handle' = [handle EXCEPT ![c] = "executing"] /\ UNCHANGED <<conn, lastErr>>
      BY <3>3, Zenon
    <3> QED
      BY <1>5, <3>1, <3>2, <3>3, Zenon DEF Receive
  <2> QED
    BY <1>5, <2>1, <2>2, <2>3, Zenon DEF Receive, clientVars
<1>6. ASSUME NEW c \in Session, Execute(c)
      PROVE  SessionsTypeOK'
  <2>0. executed' = [executed EXCEPT ![c] = Append(@, command[c])] \/ executed' = executed
    BY <1>6, Zenon DEF Execute
  <2>1. executed' \in [Session -> Seq(Nat)]
    <3>1. CASE executed' = [executed EXCEPT ![c] = Append(@, command[c])]
      BY <3>1
    <3>2. CASE executed' = executed
      BY <3>2, Zenon
    <3> QED
      BY <2>0, <3>1, <3>2, Zenon
  <2>2. /\ handle' \in [Session -> {"none", "waiting", "executing", "writing", "left"}]
        /\ conn' \in [Session -> {"none", "open", "closed"}]
        /\ lastErr' \in [Session -> {"none", "eof", "error", "panic", "write"}]
    BY <1>6, Zenon DEF Execute, Leave
  <2> QED
    BY <1>6, <2>1, <2>2, Zenon DEF Execute, clientVars
<1>7. ASSUME NEW c \in Session, Write(c)
      PROVE  SessionsTypeOK'
  <2>0. replied' = [replied EXCEPT ![c] = Append(@, command[c])] \/ replied' = replied
    BY <1>7, Zenon DEF Write
  <2>1. replied' \in [Session -> Seq(Nat)]
    <3>1. CASE replied' = [replied EXCEPT ![c] = Append(@, command[c])]
      BY <3>1
    <3>2. CASE replied' = replied
      BY <3>2, Zenon
    <3> QED
      BY <2>0, <3>1, <3>2, Zenon
  <2>2. /\ handle' \in [Session -> {"none", "waiting", "executing", "writing", "left"}]
        /\ conn' \in [Session -> {"none", "open", "closed"}]
        /\ lastErr' \in [Session -> {"none", "eof", "error", "panic", "write"}]
    BY <1>7, ZenonT(60) DEF Write, Leave
  <2> QED
    BY <1>7, <2>1, <2>2, Zenon DEF Write, clientVars
<1>8. CASE UNCHANGED sessionVars
  BY <1>8, Zenon DEF sessionVars
<1> QED
  BY <1>1, <1>2, <1>3, <1>4, <1>5, <1>6, <1>7, <1>8, Zenon DEF SessionsNext

\* A frame that is sent comes after all those that the session has to do with.
LEMMA ClientSendsKeeps ==
  ASSUME SessionsInv, NEW c \in Session, NEW frame \in Frame, ClientSends(c, frame)
  PROVE  Ahead(c)' /\ Loop(c)' /\ InOrder(c)'
<1> DEFINE n == Len(sent[c])
<1>1. /\ sent[c] \in Seq(Frame) /\ n \in Nat /\ sent'[c] = Append(sent[c], frame)
      /\ UNCHANGED <<read[c], parser[c], command[c], handle[c], executed[c], replied[c]>>
      /\ read[c] \in Nat /\ command[c] \in Nat
  BY DEF ClientSends, SessionsInv, SessionsTypeOK, handleVars
<1>2. /\ DOMAIN sent[c] = 1 .. n /\ DOMAIN sent'[c] = 1 .. n + 1 /\ Len(sent'[c]) = n + 1
      /\ \A m \in 1 .. n : sent'[c][m] = sent[c][m]
  BY <1>1
<1>3. /\ Commands(c) \subseteq 1 .. n
      /\ Commands(c)' \subseteq Commands(c) \cup {n + 1}
      /\ Commands(c) \subseteq Commands(c)'
  <2>1. Commands(c) \subseteq 1 .. n
    BY <1>2, Zenon DEF Commands
  <2>2. ASSUME NEW k \in 1 .. n
        PROVE  k \in Commands(c)' <=> k \in Commands(c)
    BY <1>1, <1>2 DEF Commands
  <2>3. Commands(c)' \subseteq 1 .. n + 1
    BY <1>2, Zenon DEF Commands
  <2> QED
    BY <1>1, <2>1, <2>2, <2>3
<1>4. Ahead(c) /\ Loop(c) /\ InOrder(c)
  BY Zenon DEF SessionsInv
<1>a. Executed(c)' = Executed(c)
  BY <1>1, Zenon DEF Executed
<1>5. Ahead(c)'
  BY <1>1, <1>2, <1>4 DEF Ahead
<1>6. Through(c)' = Through(c)
  BY <1>1, <1>3, <1>4 DEF Through, Ahead
<1>7. Loop(c)'
  <2>1. command[c] <= n
    BY <1>1, <1>4 DEF Ahead
  <2>2. \A k \in 1 .. command[c] : sent'[c][k] = sent[c][k] /\ k \in DOMAIN sent'[c]
    BY <1>1, <1>2, <2>1
  <2> QED
    BY <1>1, <1>4, <1>6, <1>a, <2>2 DEF Loop
<1>8. InOrder(c)'
  BY <1>1, <1>3, <1>4, <1>a DEF InOrder
<1> QED
  BY <1>5, <1>7, <1>8, Zenon

\* The parser reads on while Handle works.
LEMMA ParseKeeps ==
  ASSUME SessionsInv, NEW c \in Session, Parse(c)
  PROVE  Ahead(c)' /\ Loop(c)' /\ InOrder(c)'
<1>1. UNCHANGED <<sent, command, handle, executed, replied>> /\ sent[c] \in Seq(Frame)
      /\ read[c] \in Nat /\ command[c] \in Nat
  BY Zenon DEF Parse, SessionsInv, SessionsTypeOK, clientVars, handleVars
<1>2. Ahead(c) /\ Loop(c) /\ InOrder(c)
  BY Zenon DEF SessionsInv
<1>a. Executed(c)' = Executed(c) /\ Commands(c)' = Commands(c)
  BY <1>1, Zenon DEF Executed, Commands
<1>b. Through(c)' = Through(c)
  BY <1>1, <1>a, Zenon DEF Through
<1>3. Loop(c)' /\ InOrder(c)'
  BY <1>1, <1>2, <1>a, <1>b, Zenon DEF Loop, InOrder
<1>4. CASE /\ read[c] < Len(sent[c]) /\ read' = [read EXCEPT ![c] = @ + 1]
           /\ parser' = [parser EXCEPT ![c] = IF sent[c][read[c] + 1] = "unreadable"
                                              THEN "error" ELSE sent[c][read[c] + 1]]
  <2>1. read'[c] = read[c] + 1 /\ sent[c][read[c] + 1] \in Frame
    BY <1>1, <1>4 DEF SessionsInv, SessionsTypeOK
  <2>2. parser'[c] = IF sent[c][read'[c]] = "unreadable" THEN "error" ELSE sent[c][read'[c]]
    BY <1>4, <2>1, Zenon DEF SessionsInv, SessionsTypeOK
  <2>3. parser[c] = "reading"
    BY Zenon DEF Parse
  <2> QED
    BY <1>1, <1>2, <1>3, <1>4, <2>1, <2>2, <2>3 DEF Ahead, Frame
<1>5. CASE UNCHANGED read /\ parser'[c] \in {"eof", "error"}
  BY <1>1, <1>2, <1>3, <1>5, Zenon DEF Ahead, Parse
<1> QED
  BY <1>4, <1>5, Zenon DEF Parse, SessionsInv, SessionsTypeOK


\* What the parser sends is received: Handle leaves at an error, and takes a command.
LEMMA ReceiveKeeps ==
  ASSUME SessionsInv, NEW c \in Session, Receive(c)
  PROVE  Ahead(c)' /\ Loop(c)' /\ InOrder(c)'
<1>1. /\ UNCHANGED <<sent, read, executed, replied>> /\ handle[c] = "waiting"
      /\ command' = [command EXCEPT ![c] = read[c]]
      /\ parser' = [parser EXCEPT ![c] = AfterSend(@)] /\ parser[c] \notin {"reading", "closed"}
  BY Zenon DEF Receive, clientVars
<1>2. /\ command'[c] = read[c] /\ parser'[c] = AfterSend(parser[c])
      /\ read[c] \in Nat /\ command[c] \in Nat /\ sent[c] \in Seq(Frame)
      /\ parser[c] \in {"array", "other", "error", "eof"}
  BY <1>1, Zenon DEF SessionsInv, SessionsTypeOK
<1>3. Ahead(c) /\ Loop(c) /\ InOrder(c)
  BY Zenon DEF SessionsInv
<1>4. Executed(c)' = Executed(c) /\ Commands(c)' = Commands(c)
  BY <1>1, Zenon DEF Executed, Commands
<1>5. Ahead(c)' /\ InOrder(c)'
  <2>1. Ahead(c)'
    BY <1>1, <1>2, <1>3 DEF Ahead, AfterSend
  <2>2. InOrder(c)'
    BY <1>1, <1>3, <1>4, Zenon DEF InOrder
  <2> QED
    BY <2>1, <2>2, Zenon
<1>6. CASE Leave(c, parser[c])
  <2>1. handle'[c] = "left"
    BY <1>6, Zenon DEF Leave, SessionsInv, SessionsTypeOK
  <2> QED
    BY <1>5, <2>1, Zenon DEF Loop
<1>7. ASSUME parser[c] \in {"array", "other"},
             handle'[c] = IF parser[c] = "array" THEN "executing" ELSE "waiting"
      PROVE  Loop(c)'
  <2>1. command[c] + 1 = read[c] /\ read[c] \in DOMAIN sent[c] /\ sent[c][read[c]] = parser[c]
    BY <1>2, <1>3, <1>7 DEF Ahead
  <2>2. \A n \in 1 .. read[c] : sent[c][n] # "unreadable"
    BY <1>1, <1>2, <1>3, <1>7, <2>1 DEF Loop
  <2>3. Through(c)' = Through(c)
    <3>1. Commands(c) \subseteq Nat
      BY <1>2 DEF Commands
    <3>2. parser[c] = "other" => read[c] \notin Commands(c)
      BY <2>1, Zenon DEF Commands
    <3> QED
      BY <1>1, <1>2, <1>4, <1>7, <2>1, <3>1, <3>2 DEF Through
  <2> QED
    BY <1>1, <1>2, <1>3, <1>4, <1>7, <2>1, <2>2, <2>3, ZenonT(60) DEF Loop
<1>8. CASE parser[c] = "other" /\ UNCHANGED <<conn, handle, lastErr>>
  BY <1>1, <1>5, <1>7, <1>8, Zenon
<1>9. CASE parser[c] = "array" /\ handle' = [handle EXCEPT ![c] = "executing"]
  <2>1. handle'[c] = "executing"
    BY <1>9, Zenon DEF SessionsInv, SessionsTypeOK
  <2> QED
    BY <1>5, <1>7, <1>9, <2>1, Zenon
<1> QED
  BY <1>6, <1>8, <1>9, <1>5, Zenon DEF Receive

\* The command that Handle works on is the next one of the client.
LEMMA ExecuteKeeps ==
  ASSUME SessionsInv, NEW c \in Session, Execute(c)
  PROVE  Ahead(c)' /\ Loop(c)' /\ InOrder(c)'
<1>1. UNCHANGED <<sent, read, parser, command, replied>> /\ handle[c] = "executing"
  BY Zenon DEF Execute, clientVars
<1>2. /\ read[c] \in Nat /\ command[c] \in Nat /\ sent[c] \in Seq(Frame)
      /\ executed[c] \in Seq(Nat)
  BY Zenon DEF SessionsInv, SessionsTypeOK
<1>3. Ahead(c) /\ Loop(c) /\ InOrder(c)
  BY Zenon DEF SessionsInv
<1>4. Commands(c)' = Commands(c) /\ Commands(c) \subseteq Nat
  BY <1>1, <1>2 DEF Commands
<1>5. Ahead(c)'
  BY <1>1, <1>3, Zenon DEF Ahead
<1>6. CASE Leave(c, "panic") /\ UNCHANGED executed
  <2>1. handle'[c] = "left"
    BY <1>6, Zenon DEF Leave, SessionsInv, SessionsTypeOK
  <2>2. Executed(c)' = Executed(c)
    BY <1>6, Zenon DEF Executed
  <2>3. InOrder(c)'
    BY <1>1, <1>3, <1>4, <1>6, <2>2, Zenon DEF InOrder
  <2> QED
    BY <1>5, <2>1, <2>3, Zenon DEF Loop
<1>7. CASE /\ handle' = [handle EXCEPT ![c] = "writing"]
           /\ executed' = [executed EXCEPT ![c] = Append(@, command[c])]
  <2> DEFINE n == Len(executed[c])
  <2>1. handle'[c] = "writing" /\ executed'[c] = Append(executed[c], command[c])
    BY <1>7, Zenon DEF SessionsInv, SessionsTypeOK
  <2>2. /\ n \in Nat /\ DOMAIN executed[c] = 1 .. n /\ DOMAIN executed'[c] = 1 .. n + 1
        /\ Len(executed'[c]) = n + 1 /\ executed'[c][n + 1] = command[c]
        /\ \A i \in 1 .. n : executed'[c][i] = executed[c][i]
    BY <1>2, <2>1
  <2>3. Executed(c)' = Executed(c) \cup {command[c]}
    <3>1. 1 .. n + 1 = (1 .. n) \cup {n + 1}
      BY <2>2
    <3>2. Executed(c)' = {executed'[c][i] : i \in (1 .. n) \cup {n + 1}}
      BY <2>2, <3>1, Zenon DEF Executed
    <3>3. Executed(c) = {executed[c][i] : i \in 1 .. n}
      BY <2>2, Zenon DEF Executed
    <3> QED
      BY <2>2, <3>2, <3>3, Zenon
  <2>4. command[c] \in Commands(c)
    BY <1>1, <1>2, <1>3, Zenon DEF Loop, Commands
  <2>5. Through(c)' = Through(c) \cup {command[c]}
    BY <1>1, <1>2, <1>4, <2>1, <2>4 DEF Through
  <2>6. Executed(c) = Through(c) /\ \A m \in Executed(c) : m < command[c]
    BY <1>1, <1>2, <1>3, <1>4 DEF Loop, Through
  <2>7. Loop(c)'
    BY <1>1, <1>2, <1>3, <2>1, <2>2, <2>3, <2>5, <2>6, ZenonT(60) DEF Loop
  <2>8. InOrder(c)'
    <3>1. \A i, j \in DOMAIN executed'[c] : i < j => executed'[c][i] < executed'[c][j]
      <4>1. \A i \in 1 .. n : executed[c][i] \in Executed(c)
        BY <2>2, Zenon DEF Executed
      <4>2. \A i, j \in 1 .. n + 1 : i < j => i \in 1 .. n /\ (j \in 1 .. n \/ j = n + 1)
        BY <2>2
      <4> QED
        BY <1>3, <2>2, <2>6, <4>1, <4>2, Zenon DEF InOrder
    <3>2. Executed(c)' \subseteq Commands(c)'
      BY <1>3, <1>4, <2>3, <2>4, Zenon DEF InOrder
    <3>3. \A k \in Executed(c)', m \in Commands(c)' : m < k => m \in Executed(c)'
      BY <1>1, <1>2, <1>3, <1>4, <2>3, <2>6 DEF InOrder, Through
    <3>4. Len(replied'[c]) = n /\ \A i \in DOMAIN replied'[c] : replied'[c][i] = executed'[c][i]
      <4>1. Len(replied[c]) = n /\ replied[c] \in Seq(Nat)
        BY <1>1, <1>3, Zenon DEF Loop, SessionsInv, SessionsTypeOK
      <4>2. replied' = replied /\ DOMAIN replied[c] = 1 .. n
        BY <1>1, <4>1
      <4>3. \A i \in 1 .. n : replied[c][i] = executed[c][i]
        BY <1>3, <4>2, Zenon DEF InOrder
      <4> QED
        BY <2>2, <4>1, <4>2, <4>3, Zenon
    <3> QED
      BY <2>2, <3>1, <3>2, <3>3, <3>4 DEF InOrder
  <2> QED
    BY <1>5, <2>7, <2>8, Zenon
<1> QED
  BY <1>6, <1>7, Zenon DEF Execute


\* The reply that is written is that of the command executed last.
LEMMA WriteKeeps ==
  ASSUME SessionsInv, NEW c \in Session, Write(c)
  PROVE  Ahead(c)' /\ Loop(c)' /\ InOrder(c)'
<1>1. UNCHANGED <<sent, read, parser, command, executed>> /\ handle[c] = "writing"
  BY Zenon DEF Write, clientVars
<1>2. /\ read[c] \in Nat /\ command[c] \in Nat /\ sent[c] \in Seq(Frame)
      /\ executed[c] \in Seq(Nat) /\ replied[c] \in Seq(Nat)
  BY Zenon DEF SessionsInv, SessionsTypeOK
<1>3. Ahead(c) /\ Loop(c) /\ InOrder(c)
  BY Zenon DEF SessionsInv
<1>4. Commands(c)' = Commands(c) /\ Executed(c)' = Executed(c)
  BY <1>1, Zenon DEF Commands, Executed
<1>5. Ahead(c)'
  BY <1>1, <1>3, Zenon DEF Ahead
<1>6. CASE Leave(c, "write") /\ UNCHANGED replied
  <2>1. handle'[c] = "left"
    BY <1>6, Zenon DEF Leave, SessionsInv, SessionsTypeOK
  <2>2. InOrder(c)'
    BY <1>1, <1>3, <1>4, <1>6, Zenon DEF InOrder
  <2> QED
    BY <1>5, <2>1, <2>2, Zenon DEF Loop
<1>7. CASE /\ handle' = [handle EXCEPT ![c] = "waiting"]
           /\ replied' = [replied EXCEPT ![c] = Append(@, command[c])]
  <2> DEFINE n == Len(executed[c])
  <2>1. handle'[c] = "waiting" /\ replied'[c] = Append(replied[c], command[c])
    BY <1>7, Zenon DEF SessionsInv, SessionsTypeOK
  <2>2. n \in Nat /\ Len(replied[c]) + 1 = n /\ executed[c][n] = command[c]
    BY <1>1, <1>2, <1>3 DEF Loop
  <2>3. /\ Len(replied'[c]) = n /\ DOMAIN replied'[c] = 1 .. n /\ DOMAIN replied[c] = 1 .. n - 1
        /\ replied'[c][n] = command[c]
        /\ \A i \in 1 .. n - 1 : replied'[c][i] = replied[c][i]
    BY <1>2, <2>1, <2>2
  <2>4. \A i \in 1 .. n : replied'[c][i] = executed[c][i]
    <3>1. \A i \in 1 .. n - 1 : replied[c][i] = executed[c][i]
      BY <1>3, <2>3, Zenon DEF InOrder
    <3>2. \A i \in 1 .. n : i \in 1 .. n - 1 \/ i = n
      BY <2>2
    <3> QED
      BY <2>2, <2>3, <3>1, <3>2, Zenon
  <2>5. Through(c)' = Through(c)
    BY <1>1, <1>4, <2>1, Zenon DEF Through
  <2>6. Loop(c)'
    BY <1>1, <1>3, <1>4, <2>1, <2>3, <2>5, Zenon DEF Loop
  <2>7. InOrder(c)'
    BY <1>1, <1>3, <1>4, <2>3, <2>4, Zenon DEF InOrder
  <2> QED
    BY <1>5, <2>6, <2>7, Zenon
<1> QED
  BY <1>6, <1>7, Zenon DEF Write

\* The invariant of the server holds at the start.
LEMMA SessionsInvInit == SessionsInit => SessionsInv
<1> SUFFICES ASSUME SessionsInit PROVE SessionsInv
  BY Zenon
<1>1. SessionsTypeOK
  <2>1. <<>> \in Seq(Frame) /\ <<>> \in Seq(Nat)
    OBVIOUS
  <2>2. /\ sent \in [Session -> Seq(Frame)] /\ executed \in [Session -> Seq(Nat)]
        /\ replied \in [Session -> Seq(Nat)]
    BY <2>1, Zenon DEF SessionsInit
  <2> QED
    BY <2>2, Zenon DEF SessionsInit, SessionsTypeOK
<1>2. ASSUME NEW c \in Session
      PROVE  NotAccepted(c) /\ Ahead(c) /\ Loop(c) /\ InOrder(c)
  <2>1. /\ sent[c] = <<>> /\ read[c] = 0 /\ command[c] = 0 /\ executed[c] = <<>>
        /\ replied[c] = <<>> /\ parser[c] = "reading" /\ handle[c] = "none"
    BY Zenon DEF SessionsInit
  <2>2. Commands(c) = {} /\ Executed(c) = {} /\ Through(c) = {}
    BY <2>1 DEF Commands, Executed, Through
  <2>3. NotAccepted(c) /\ Ahead(c)
    BY <2>1 DEF NotAccepted, Ahead
  <2>4. Loop(c)
    BY <2>1, <2>2, Zenon DEF Loop
  <2>5. InOrder(c)
    BY <2>1, <2>2 DEF InOrder
  <2> QED
    BY <2>3, <2>4, <2>5, Zenon
<1> QED
  BY <1>1, <1>2, Zenon DEF SessionsInv

\* The first step of Handle: nothing was parsed, executed or replied before.
LEMMA AcceptKeeps ==
  ASSUME SessionsInv, NEW c \in Session, Accept(c)
  PROVE  Ahead(c)' /\ Loop(c)' /\ InOrder(c)'
<1>1. UNCHANGED <<sent, read, parser, command, executed, replied>>
  BY Zenon DEF Accept, clientVars
<1>2. handle[c] = "none" /\ handle'[c] = "waiting"
  BY Zenon DEF Accept, SessionsInv, SessionsTypeOK, NotAccepted
<1>3. Ahead(c) /\ Loop(c) /\ InOrder(c)
  BY Zenon DEF SessionsInv
<1>4. Commands(c)' = Commands(c) /\ Executed(c)' = Executed(c)
  BY <1>1, Zenon DEF Commands, Executed
<1>5. Through(c)' = Through(c)
  BY <1>1, <1>2, <1>4, Zenon DEF Through
<1>6. Ahead(c)' /\ InOrder(c)'
  BY <1>1, <1>3, <1>4, Zenon DEF Ahead, InOrder
<1>7. Loop(c)'
  BY <1>1, <1>2, <1>3, <1>4, <1>5, Zenon DEF Loop
<1> QED
  BY <1>6, <1>7, Zenon

\* The invariant of the server is inductive.
LEMMA SessionsInvStep ==
  ASSUME SessionsInv, [SessionsNext]_sessionVars
  PROVE  SessionsInv'
<1>1. SessionsTypeOK'
  BY SessionsTypeStep, Zenon DEF SessionsInv
<1>2. ASSUME NEW d \in Session, UNCHANGED <<conn[d], sessionView(d)>>
      PROVE  (NotAccepted(d) /\ Ahead(d) /\ Loop(d) /\ InOrder(d))'
  <2>1. Ahead(d) /\ Loop(d) /\ InOrder(d) /\ NotAccepted(d)
    BY Zenon DEF SessionsInv
  <2>2. conn'[d] = conn[d] /\ handle'[d] = handle[d] /\ UNCHANGED sessionView(d)
    BY <1>2, Zenon DEF sessionView
  <2> QED
    BY <2>1, <2>2, SessionUntouched, Zenon DEF NotAccepted
<1>3. ASSUME NEW c \in Session,
             \A d \in Session \ {c} : UNCHANGED <<conn[d], sessionView(d)>>,
             (NotAccepted(c) /\ Ahead(c) /\ Loop(c) /\ InOrder(c))'
      PROVE  SessionsInv'
  BY <1>1, <1>2, <1>3, Zenon DEF SessionsInv
<1>4. CASE Signal \/ CloseListener \/ StopAccepting \/ Stop \/ UNCHANGED sessionVars
  <2>1. UNCHANGED <<conn, sent, read, parser, command, handle, executed, replied>>
    BY <1>4, Zenon DEF Signal, CloseListener, StopAccepting, Stop, sessionVars, clientVars, handleVars
  <2> QED
    BY <1>1, <1>2, <2>1, Zenon DEF SessionsInv, sessionView
<1>5. ASSUME NEW c \in Session, Accept(c)
      PROVE  SessionsInv'
  <2>1. \A d \in Session \ {c} : UNCHANGED <<conn[d], sessionView(d)>>
    BY <1>5, Zenon DEF Accept, clientVars, sessionView, SessionsInv, SessionsTypeOK
  <2>2. NotAccepted(c)'
    BY <1>5, Zenon DEF Accept, NotAccepted, SessionsInv, SessionsTypeOK
  <2> QED
    BY <1>3, <1>5, <2>1, <2>2, AcceptKeeps, Zenon
<1>6. ASSUME NEW c \in Session, NEW frame \in Frame, ClientSends(c, frame)
      PROVE  SessionsInv'
  <2>1. \A d \in Session \ {c} : UNCHANGED <<conn[d], sessionView(d)>>
    BY <1>6, Zenon DEF ClientSends, handleVars, sessionView, SessionsInv, SessionsTypeOK
  <2>2. NotAccepted(c)'
    BY <1>6, Zenon DEF ClientSends, handleVars, NotAccepted, SessionsInv, SessionsTypeOK
  <2> QED
    BY <1>3, <1>6, <2>1, <2>2, ClientSendsKeeps, Zenon
<1>7. ASSUME NEW c \in Session, Parse(c)
      PROVE  SessionsInv'
  <2>1. \A d \in Session \ {c} : UNCHANGED <<conn[d], sessionView(d)>>
    BY <1>7 DEF Parse, clientVars, handleVars, sessionView, SessionsInv, SessionsTypeOK
  <2>2. NotAccepted(c)'
    BY <1>7, Zenon DEF Parse, handleVars, NotAccepted, SessionsInv, SessionsTypeOK
  <2> QED
    BY <1>3, <1>7, <2>1, <2>2, ParseKeeps, Zenon
<1>8. ASSUME NEW c \in Session, Receive(c)
      PROVE  SessionsInv'
  <2>1. \A d \in Session \ {c} : UNCHANGED <<conn[d], sessionView(d)>>
    BY <1>8 DEF Receive, Leave, clientVars, sessionView, SessionsInv, SessionsTypeOK
  <2>2. NotAccepted(c)'
    BY <1>8, Zenon DEF Receive, Leave, NotAccepted, SessionsInv, SessionsTypeOK
  <2> QED
    BY <1>3, <1>8, <2>1, <2>2, ReceiveKeeps, Zenon
<1>9. ASSUME NEW c \in Session, Execute(c)
      PROVE  SessionsInv'
  <2>1. \A d \in Session \ {c} : UNCHANGED <<conn[d], sessionView(d)>>
    BY <1>9 DEF Execute, Leave, clientVars, sessionView, SessionsInv, SessionsTypeOK
  <2>2. NotAccepted(c)'
    BY <1>9, Zenon DEF Execute, Leave, NotAccepted, SessionsInv, SessionsTypeOK
  <2> QED
    BY <1>3, <1>9, <2>1, <2>2, ExecuteKeeps, Zenon
<1>10. ASSUME NEW c \in Session, Write(c)
      PROVE  SessionsInv'
  <2>1. \A d \in Session \ {c} : UNCHANGED <<conn[d], sessionView(d)>>
    BY <1>10 DEF Write, Leave, clientVars, sessionView, SessionsInv, SessionsTypeOK
  <2>2. NotAccepted(c)'
    BY <1>10, Zenon DEF Write, Leave, NotAccepted, SessionsInv, SessionsTypeOK
  <2> QED
    BY <1>3, <1>10, <2>1, <2>2, WriteKeeps, Zenon
<1>11. ASSUME NEW c \in Session, ClientCloses(c)
      PROVE  SessionsInv'
  <2>1. UNCHANGED <<conn, sent, read, parser, command, handle, executed, replied>>
    BY <1>11, Zenon DEF ClientCloses, handleVars
  <2> QED
    BY <1>1, <1>2, <2>1, Zenon DEF SessionsInv, sessionView
<1>12. ASSUME NEW c \in Session, Watch(c)
      PROVE  SessionsInv'
  <2>1. /\ UNCHANGED <<sent, read, parser, command, handle, executed, replied>>
        /\ \A d \in Session \ {c} : conn'[d] = conn[d]
        /\ conn'[c] \in {conn[c], "closed"}
    BY <1>12, Zenon DEF Watch, clientVars, SessionsInv, SessionsTypeOK
  <2>2. NotAccepted(c)' /\ UNCHANGED sessionView(c)
    BY <2>1, Zenon DEF NotAccepted, SessionsInv, sessionView
  <2>3. Ahead(c)' /\ Loop(c)' /\ InOrder(c)'
    BY <2>2, SessionUntouched, Zenon DEF SessionsInv
  <2> QED
    BY <1>3, <2>1, <2>2, <2>3, Zenon DEF sessionView
<1> QED
  BY <1>4, <1>5, <1>6, <1>7, <1>8, <1>9, <1>10, <1>11, <1>12 DEF SessionsNext

\* Commands are executed, and replies written, in the order in which the client
\* has sent the commands, none left out: Handle of pkg/server/handler.go for every
\* number of connections and of frames, however the parser reads ahead and whenever
\* the connection is closed under it.
THEOREM SessionsReplyInOrder == SessionsSpec => []RepliesInOrder
<1>1. SessionsInv => RepliesInOrder
  BY Zenon DEF SessionsInv, RepliesInOrder, InOrder, Loop
<1>2. SessionsInv /\ [SessionsNext]_sessionVars => SessionsInv'
  BY SessionsInvStep, Zenon
<1> QED
  BY <1>1, <1>2, SessionsInvInit, PTL DEF SessionsSpec


-----------------------------------------------------------------------------
(* Proxy *)

Pipe ==
  [target : Target, end : {"open", "eof", "reset"}, open : BOOLEAN, in : BOOLEAN,
   out : BOOLEAN, err : {"none", "client", "nil", "error"}, got : Seq(Nat)]

PipesTypeOK ==
  /\ up \subseteq Target
  /\ at \in [User -> {"discover", "wait", "dial", "pipe", "returned"}]
  /\ inbox \in [User -> Seq(Nat)] /\ pipes \in [User -> Seq(Pipe)]

Got(u, i) == pipes[u][i].got

\* Bytes over the connections of a client, and then those that nobody has read.
Ascending(u) ==
  /\ \A i, j \in DOMAIN pipes[u] : \A a \in DOMAIN Got(u, i), b \in DOMAIN Got(u, j) :
       i < j \/ (i = j /\ a < b) => Got(u, i)[a] < Got(u, j)[b]
  /\ \A i \in DOMAIN pipes[u] : \A a \in DOMAIN Got(u, i), b \in DOMAIN inbox[u] :
       Got(u, i)[a] < inbox[u][b]
  /\ \A a, b \in DOMAIN inbox[u] : a < b => inbox[u][a] < inbox[u][b]

\* Only the latest connection is open, and only in pipeConnections.
LatestOpen(u) ==
  /\ at[u] = "pipe" => pipes[u] # <<>>
  /\ \A i \in DOMAIN pipes[u] : pipes[u][i].open => i = Len(pipes[u]) /\ at[u] = "pipe"

Live(u, i) == pipes[u][i].open /\ pipes[u][i].end = "open"

\* The next byte of a client is read, and goes over a connection.
Taken(u) == inbox[u] # <<>> /\ inbox'[u] = Tail(inbox[u])

Delivered(u, i) == pipes'[u][i].got = Append(pipes[u][i].got, Head(inbox[u]))

\* A connection is made for a client.
Opened(u, t) == pipes'[u] = Append(pipes[u], NewPipe(t))

\* Connections stay, or end, and no byte goes over them.
SamePipes(u) ==
  /\ Len(pipes'[u]) = Len(pipes[u]) /\ DOMAIN pipes'[u] = DOMAIN pipes[u]
  /\ pipes'[u] = <<>> => pipes[u] = <<>>
  /\ \A i \in DOMAIN pipes[u] :
       /\ pipes'[u][i].got = pipes[u][i].got
       /\ pipes'[u][i].open => pipes[u][i].open
       /\ pipes'[u][i].end = "open" => pipes[u][i].end = "open"
  /\ at'[u] = at[u] \/ (at'[u] # "pipe" /\ \A i \in DOMAIN pipes[u] : ~pipes'[u][i].open)

\* The byte goes over one of them, and nothing else happens.
Delivery(u, i) ==
  /\ Live(u, i) /\ Taken(u) /\ Delivered(u, i) /\ at'[u] = at[u]
  /\ Len(pipes'[u]) = Len(pipes[u]) /\ DOMAIN pipes'[u] = DOMAIN pipes[u]
  /\ pipes'[u] # <<>>
  /\ \A j \in DOMAIN pipes[u] \ {i} : pipes'[u][j] = pipes[u][j]
  /\ pipes'[u][i].open = pipes[u][i].open /\ pipes'[u][i].end = pipes[u][i].end

\* Nothing is lost before there is a connection, and while the first one lasts.
NothingLost(u) ==
  /\ pipes[u] = <<>> => \A b \in DOMAIN inbox[u] : inbox[u][b] = b
  /\ Len(pipes[u]) = 1 /\ Live(u, 1) =>
       /\ \A a \in DOMAIN Got(u, 1) : Got(u, 1)[a] = a
       /\ \A b \in DOMAIN inbox[u] : inbox[u][b] = Len(Got(u, 1)) + b

ProxyInv == PipesTypeOK /\ \A u \in User : Ascending(u) /\ LatestOpen(u) /\ NothingLost(u)

\* What a byte more makes of a sequence, and a byte less.
Longer(s, e, t) ==
  /\ Len(s) \in Nat /\ DOMAIN s = 1 .. Len(s)
  /\ Len(t) = Len(s) + 1 /\ DOMAIN t = 1 .. Len(s) + 1
  /\ t[Len(s) + 1] = e /\ \A a \in 1 .. Len(s) : t[a] = s[a]

Shorter(s, t) ==
  /\ \A b \in DOMAIN t : b + 1 \in DOMAIN s /\ t[b] = s[b + 1]
  /\ DOMAIN t \subseteq Nat \ {0} /\ 1 \in DOMAIN s /\ Head(s) = s[1]

\* Append makes a sequence longer.
LEMMA AppendLonger == \A S, e : \A s \in Seq(S) : Longer(s, e, Append(s, e))
  BY DEF Longer

\* The empty sequence.
LEMMA NotEmpty == DOMAIN <<>> = {} /\ Len(<<>>) = 0
  OBVIOUS

\* The order of two places is that of the ones after them.
LEMMA BothLater == \A a, b \in Nat \ {0} : a < b => a + 1 < b + 1
  OBVIOUS

\* Tail makes a sequence shorter.
LEMMA TailShorter == \A s \in Seq(Nat) : s # <<>> => Shorter(s, Tail(s))
  BY DEF Shorter

\* A connection is changed, and nothing else.
LEMMA OnePipeChanged ==
  ASSUME PipesTypeOK, NEW u \in User, NEW i \in DOMAIN pipes[u], NEW p \in Pipe,
         pipes' = [pipes EXCEPT ![u] = [@ EXCEPT ![i] = p]]
  PROVE  /\ pipes' \in [User -> Seq(Pipe)]
         /\ pipes'[u][i] = p
         /\ Len(pipes'[u]) = Len(pipes[u]) /\ DOMAIN pipes'[u] = DOMAIN pipes[u]
         /\ \A j \in DOMAIN pipes[u] \ {i} : pipes'[u][j] = pipes[u][j]
         /\ \A v \in User \ {u} : pipes'[v] = pipes[v]
<1>1. pipes \in [User -> Seq(Pipe)] /\ pipes[u] \in Seq(Pipe)
  BY Zenon DEF PipesTypeOK
<1> DEFINE s == [pipes[u] EXCEPT ![i] = p]
<1>2. s \in Seq(Pipe) /\ Len(s) = Len(pipes[u]) /\ DOMAIN s = DOMAIN pipes[u]
      /\ s[i] = p /\ \A j \in DOMAIN pipes[u] \ {i} : s[j] = pipes[u][j]
  BY <1>1, ExceptSeq
<1>3. pipes' = [pipes EXCEPT ![u] = s]
  BY Zenon
<1> HIDE DEF s
<1> QED
  BY <1>1, <1>2, <1>3, Zenon

\* Nothing is delivered, no connection opens, and what is read from the client is
\* lost only after the first connection has ended.
LEMMA NothingDelivered ==
  ASSUME NEW u \in User, PipesTypeOK, Ascending(u), LatestOpen(u), NothingLost(u),
         SamePipes(u),
         \/ inbox'[u] = inbox[u]
         \/ /\ Taken(u) /\ pipes[u] # <<>>
            /\ (Len(pipes[u]) = 1 => ~Live(u, 1))
  PROVE  Ascending(u)' /\ LatestOpen(u)' /\ NothingLost(u)'
<1>1. \A i \in DOMAIN pipes[u] : Got(u, i)' = Got(u, i)
  BY Zenon DEF Got, SamePipes
<1>2. \A i \in DOMAIN pipes[u] : Live(u, i)' => Live(u, i)
  BY Zenon DEF Live, SamePipes
<1>3. LatestOpen(u)'
  BY Zenon DEF LatestOpen, SamePipes
<1>4. DOMAIN pipes'[u] = DOMAIN pipes[u] /\ Len(pipes'[u]) = Len(pipes[u])
      /\ (pipes'[u] = <<>> => pipes[u] = <<>>)
  BY Zenon DEF SamePipes
<1>5. inbox[u] \in Seq(Nat)
  BY Zenon DEF PipesTypeOK
<1>6. Len(pipes[u]) = 1 => 1 \in DOMAIN pipes[u]
  BY DEF PipesTypeOK
<1>7. CASE inbox'[u] = inbox[u]
  <2>1. Ascending(u)'
    BY <1>4, <1>1, <1>7, Zenon DEF Ascending
  <2>2. NothingLost(u)'
    BY <1>4, <1>1, <1>2, <1>6, <1>7, Zenon DEF NothingLost
  <2> QED
    BY <1>3, <2>1, <2>2, Zenon
<1>8. CASE /\ Taken(u) /\ pipes[u] # <<>>
           /\ (Len(pipes[u]) = 1 => ~Live(u, 1))
  <2>1. /\ \A b \in DOMAIN inbox'[u] : b + 1 \in DOMAIN inbox[u] /\ inbox'[u][b] = inbox[u][b + 1]
        /\ DOMAIN inbox'[u] \subseteq Nat \ {0}
    <3>1. Shorter(inbox[u], inbox'[u])
      BY <1>5, <1>8, TailShorter, Zenon DEF Taken
    <3> QED
      BY <3>1, Zenon DEF Shorter
  <2>2. Ascending(u)'
    <3>1. ASSUME NEW a \in DOMAIN inbox'[u], NEW b \in DOMAIN inbox'[u], a < b
          PROVE  inbox'[u][a] < inbox'[u][b]
      <4>1. a + 1 < b + 1
        BY <2>1, <3>1, BothLater, Zenon
      <4>2. inbox[u][a + 1] < inbox[u][b + 1]
        BY <2>1, <3>1, <4>1, Zenon DEF Ascending
      <4> QED
        BY <2>1, <3>1, <4>2, Zenon
    <3>2. \A i \in DOMAIN pipes[u] : \A a \in DOMAIN Got(u, i), b \in DOMAIN inbox'[u] :
            Got(u, i)[a] < inbox'[u][b]
      BY <2>1, Zenon DEF Ascending
    <3> QED
      BY <1>4, <1>1, <3>1, <3>2, Zenon DEF Ascending
  <2>3. NothingLost(u)'
    BY <1>4, <1>2, <1>6, <1>8, Zenon DEF NothingLost
  <2> QED
    BY <1>3, <2>2, <2>3, Zenon
<1> QED
  BY <1>7, <1>8, Zenon

\* A byte is delivered over the connection that lasts, which is the latest one.
LEMMA ByteDelivered ==
  ASSUME NEW u \in User, PipesTypeOK, Ascending(u), LatestOpen(u), NothingLost(u),
         NEW i \in DOMAIN pipes[u], Delivery(u, i)
  PROVE  Ascending(u)' /\ LatestOpen(u)' /\ NothingLost(u)'
<1> DEFINE n == Len(Got(u, i))
<1>1. inbox[u] \in Seq(Nat) /\ Got(u, i) \in Seq(Nat) /\ pipes[u] \in Seq(Pipe)
  <2>1. inbox[u] \in Seq(Nat) /\ pipes[u] \in Seq(Pipe)
    BY Zenon DEF PipesTypeOK
  <2>2. pipes[u][i] \in Pipe
    BY <2>1
  <2> QED
    BY <2>1, <2>2, Zenon DEF Got, Pipe
<1>2. i = Len(pipes[u]) /\ \A j \in DOMAIN pipes[u] : j <= i
  <2>1. i = Len(pipes[u])
    BY Zenon DEF LatestOpen, Live, Delivery
  <2> QED
    BY <1>1, <2>1
<1>3. \A j \in DOMAIN pipes[u] \ {i} : Got(u, j)' = Got(u, j)
  BY Zenon DEF Got, Delivery
<1>4. Shorter(inbox[u], inbox'[u])
  BY <1>1, TailShorter, Zenon DEF Taken, Delivery
<1>5. /\ n \in Nat /\ DOMAIN Got(u, i) = 1 .. n /\ DOMAIN Got(u, i)' = 1 .. n + 1
      /\ Got(u, i)'[n + 1] = inbox[u][1] /\ Len(Got(u, i)') = n + 1
      /\ \A a \in 1 .. n : Got(u, i)'[a] = Got(u, i)[a]
  <2>1. Head(inbox[u]) = inbox[u][1]
    BY <1>4, Zenon DEF Shorter
  <2>2. Got(u, i)' = Append(Got(u, i), inbox[u][1])
    BY <2>1, Zenon DEF Got, Delivered, Delivery
  <2>3. Longer(Got(u, i), inbox[u][1], Got(u, i)')
    BY <1>1, <2>2, AppendLonger, Zenon
  <2> QED
    BY <2>3, Zenon DEF Longer
<1> HIDE DEF n
<1>6. /\ \A b \in DOMAIN inbox'[u] : b + 1 \in DOMAIN inbox[u] /\ inbox'[u][b] = inbox[u][b + 1]
      /\ DOMAIN inbox'[u] \subseteq Nat \ {0} /\ 1 \in DOMAIN inbox[u]
  BY <1>4, Zenon DEF Shorter
<1>7. LatestOpen(u)'
  BY Zenon DEF LatestOpen, Delivery
<1>8. /\ DOMAIN pipes'[u] = DOMAIN pipes[u] /\ Len(pipes'[u]) = Len(pipes[u])
      /\ pipes'[u] # <<>> /\ Live(u, i)
  BY Zenon DEF Delivery
<1>9. /\ \A a \in 1 .. n + 1 : a \in 1 .. n \/ a = n + 1
      /\ \A a \in 1 .. n + 1, b \in 1 .. n : a < b => a \in 1 .. n
  BY <1>5
<1>10. \A b \in DOMAIN inbox'[u] : 1 < b + 1
  BY <1>6
<1>11. Ascending(u)'
  <2>1. ASSUME NEW j \in DOMAIN pipes'[u], NEW k \in DOMAIN pipes'[u],
               NEW a \in DOMAIN Got(u, j)', NEW b \in DOMAIN Got(u, k)',
               j < k \/ (j = k /\ a < b)
        PROVE  Got(u, j)'[a] < Got(u, k)'[b]
    <3>1. CASE k # i
      <4>1. j \in DOMAIN pipes[u] /\ k \in DOMAIN pipes[u]
        BY <1>8, Zenon
      <4>2. j # i
        BY <1>1, <1>2, <2>1, <3>1, <4>1
      <4> QED
        BY <1>3, <2>1, <3>1, <4>1, <4>2, Zenon DEF Ascending
    <3>2. CASE k = i /\ b \in 1 .. n
      <4>1. a \in DOMAIN Got(u, j) /\ Got(u, j)'[a] = Got(u, j)[a]
        <5>1. CASE j # i
          BY <1>3, <1>8, <5>1, Zenon
        <5>2. CASE j = i
          <6>1. ~(j < k)
            BY <1>1, <3>2, <5>2
          <6>2. a < b /\ a \in 1 .. n + 1
            BY <1>5, <2>1, <5>2, <6>1, Zenon
          <6>3. a \in 1 .. n
            BY <1>9, <3>2, <6>2, Zenon
          <6> QED
            BY <1>5, <5>2, <6>3, Zenon
        <5> QED
          BY <5>1, <5>2, Zenon
      <4> QED
        BY <1>8, <1>5, <2>1, <3>2, <4>1, Zenon DEF Ascending
    <3>3. CASE k = i /\ b = n + 1
      <4>1. a \in DOMAIN Got(u, j) /\ Got(u, j)'[a] = Got(u, j)[a]
        <5>1. CASE j # i
          BY <1>8, <1>3, <5>1, Zenon
        <5>2. CASE j = i
          <6>1. ~(j < k)
            BY <1>1, <3>3, <5>2
          <6>2. a < n + 1 /\ a \in 1 .. n + 1
            BY <1>5, <2>1, <3>3, <5>2, <6>1, ZenonT(60)
          <6>3. a \in 1 .. n
            BY <1>5, <6>2
          <6> QED
            BY <1>5, <5>2, <6>3, Zenon
        <5> QED
          BY <5>1, <5>2, Zenon
      <4> QED
        BY <1>8, <1>5, <1>6, <3>3, <4>1, ZenonT(60) DEF Ascending
    <3> QED
      BY <1>5, <1>9, <3>1, <3>2, <3>3, Zenon
  <2>2. ASSUME NEW j \in DOMAIN pipes'[u], NEW a \in DOMAIN Got(u, j)', NEW b \in DOMAIN inbox'[u]
        PROVE  Got(u, j)'[a] < inbox'[u][b]
    <3>1. CASE j # i \/ a \in 1 .. n
      <4>1. a \in DOMAIN Got(u, j) /\ Got(u, j)'[a] = Got(u, j)[a]
        BY <1>8, <1>3, <1>5, <3>1, Zenon
      <4> QED
        BY <1>8, <1>6, <4>1, Zenon DEF Ascending
    <3>2. CASE j = i /\ a = n + 1
      BY <1>5, <1>6, <1>10, <3>2, Zenon DEF Ascending
    <3> QED
      BY <1>5, <1>9, <3>1, <3>2, Zenon
  <2>3. \A a, b \in DOMAIN inbox'[u] : a < b => inbox'[u][a] < inbox'[u][b]
    <3>1. \A a, b \in DOMAIN inbox[u] : a < b => inbox[u][a] < inbox[u][b]
      BY Zenon DEF Ascending
    <3> QED
      BY <1>6, <3>1
  <2> QED
    BY <2>1, <2>2, <2>3, Zenon DEF Ascending
<1>12. NothingLost(u)'
  <2>1. SUFFICES ASSUME Len(pipes[u]) = 1
                 PROVE  /\ \A a \in DOMAIN Got(u, 1)' : Got(u, 1)'[a] = a
                        /\ \A b \in DOMAIN inbox'[u] : inbox'[u][b] = Len(Got(u, 1)') + b
    BY <1>8, Zenon DEF NothingLost
  <2>2. /\ i = 1 /\ \A a \in 1 .. n : Got(u, 1)[a] = a
        /\ \A b \in DOMAIN inbox[u] : inbox[u][b] = n + b
    BY <1>8, <1>2, <1>5, <2>1, Zenon DEF NothingLost, n
  <2>3. \A a \in DOMAIN Got(u, 1)' : Got(u, 1)'[a] = a
    <3>1. inbox[u][1] = n + 1
      BY <1>6, <2>2, Zenon
    <3> QED
      BY <1>5, <1>9, <2>2, <3>1, Zenon
  <2>4. \A b \in DOMAIN inbox'[u] : inbox'[u][b] = n + 1 + b
    BY <1>5, <1>6, <2>2
  <2> QED
    BY <1>5, <2>2, <2>3, <2>4, Zenon
<1> QED
  BY <1>7, <1>11, <1>12, Zenon


\* A new connection, after all the others are closed.
LEMMA PipeAppended ==
  ASSUME NEW u \in User, PipesTypeOK, Ascending(u), LatestOpen(u), NothingLost(u),
         at[u] # "pipe", at'[u] = "pipe", inbox'[u] = inbox[u], NEW t,
         Opened(u, t)
  PROVE  Ascending(u)' /\ LatestOpen(u)' /\ NothingLost(u)'
<1> DEFINE n == Len(pipes[u])
<1>1. pipes[u] \in Seq(Pipe) /\ inbox[u] \in Seq(Nat)
  BY Zenon DEF PipesTypeOK
<1>2. /\ n \in Nat /\ DOMAIN pipes[u] = 1 .. n /\ DOMAIN pipes'[u] = 1 .. n + 1
      /\ Len(pipes'[u]) = n + 1 /\ pipes'[u][n + 1] = NewPipe(t)
      /\ \A i \in 1 .. n : pipes'[u][i] = pipes[u][i]
  <2>1. Longer(pipes[u], NewPipe(t), pipes'[u])
    BY <1>1, AppendLonger, Zenon DEF Opened
  <2> QED
    BY <2>1, Zenon DEF Longer
<1>3. /\ \A i \in 1 .. n : Got(u, i)' = Got(u, i) /\ ~pipes'[u][i].open
      /\ pipes'[u][n + 1].got = <<>>
  <2>1. \A i \in 1 .. n : Got(u, i)' = Got(u, i)
    BY <1>2, Zenon DEF Got
  <2>2. \A i \in 1 .. n : ~pipes[u][i].open
    BY <1>2, ZenonT(60) DEF LatestOpen
  <2>3. pipes'[u][n + 1].got = <<>>
    BY <1>2 DEF NewPipe
  <2> QED
    BY <1>2, <2>1, <2>2, <2>3, Zenon
<1>4. \A i \in 1 .. n + 1 : i \in 1 .. n \/ i = n + 1
  BY <1>2
<1>5. Ascending(u)'
  <2>1. ASSUME NEW i \in 1 .. n + 1, NEW a \in DOMAIN Got(u, i)'
        PROVE  i \in 1 .. n
    BY <1>3, <1>4, <2>1, NotEmpty, Zenon DEF Got
  <2>2. ASSUME NEW i \in 1 .. n + 1, NEW j \in 1 .. n + 1,
               NEW a \in DOMAIN Got(u, i)', NEW b \in DOMAIN Got(u, j)',
               i < j \/ (i = j /\ a < b)
        PROVE  Got(u, i)'[a] < Got(u, j)'[b]
    <3>1. i \in 1 .. n /\ j \in 1 .. n
      BY <2>1, <2>2, Zenon
    <3> QED
      BY <1>2, <1>3, <2>2, <3>1, Zenon DEF Ascending
  <2>3. ASSUME NEW i \in 1 .. n + 1, NEW a \in DOMAIN Got(u, i)', NEW b \in DOMAIN inbox[u]
        PROVE  Got(u, i)'[a] < inbox[u][b]
    BY <1>2, <1>3, <2>1, <2>3, ZenonT(60) DEF Ascending
  <2> QED
    BY <1>2, <2>2, <2>3, Zenon DEF Ascending
<1>6. LatestOpen(u)'
  BY <1>2, <1>3, <1>4 DEF LatestOpen
<1>7. NothingLost(u)'
  <2>1. SUFFICES ASSUME n = 0
                 PROVE  \A b \in DOMAIN inbox[u] : inbox[u][b] = b
    <3>1. (Len(pipes'[u]) = 1 => n = 0) /\ 1 \in DOMAIN pipes'[u]
      BY <1>2
    <3>2. pipes'[u] # <<>>
      BY <3>1, NotEmpty, Zenon
    <3>3. ASSUME n = 0
          PROVE  DOMAIN Got(u, 1)' = {} /\ Len(Got(u, 1)') = 0
      <4>1. Got(u, 1)' = <<>>
        BY <1>3, <3>3 DEF Got
      <4> QED
        BY <4>1, NotEmpty, Zenon
    <3>4. \A b \in DOMAIN inbox[u] : 0 + b = b
      BY <1>1
    <3> QED
      BY <3>1, <3>2, <3>3, <3>4, ZenonT(60) DEF NothingLost
  <2>2. pipes[u] = <<>>
    BY <1>1, <2>1
  <2> QED
    BY <2>2, Zenon DEF NothingLost
<1> QED
  BY <1>5, <1>6, <1>7, Zenon

\* The invariant of the proxy holds at the start.
LEMMA ProxyInvInit == ProxyInit => ProxyInv
<1> SUFFICES ASSUME ProxyInit PROVE ProxyInv
  BY Zenon
<1>1. \A n \in 0 .. MaxBytes : [i \in 1 .. n |-> i] \in Seq(Nat)
  OBVIOUS
<1>2. PipesTypeOK
  <2>1. inbox \in [User -> Seq(Nat)]
    BY <1>1 DEF ProxyInit
  <2>2. pipes \in [User -> Seq(Pipe)]
    BY DEF ProxyInit
  <2> QED
    BY <2>1, <2>2, Zenon DEF PipesTypeOK, ProxyInit
<1>3. ASSUME NEW u \in User
      PROVE  Ascending(u) /\ LatestOpen(u) /\ NothingLost(u)
  <2>1. pipes[u] = <<>> /\ at[u] # "pipe"
    BY Zenon DEF ProxyInit
  <2>2. PICK n \in 0 .. MaxBytes : inbox[u] = [i \in 1 .. n |-> i]
    BY Zenon DEF ProxyInit
  <2>3. DOMAIN pipes[u] = {} /\ Len(pipes[u]) = 0
    BY <2>1
  <2>4. Ascending(u)
    BY <2>2, <2>3, Zenon DEF Ascending
  <2>5. LatestOpen(u)
    BY <2>1, <2>3, Zenon DEF LatestOpen
  <2>6. NothingLost(u)
    BY <2>2, <2>3 DEF NothingLost
  <2> QED
    BY <2>4, <2>5, <2>6, Zenon
<1> QED
  BY <1>2, <1>3, Zenon DEF ProxyInv


\* Steps that copy nothing and change no connection: probes, waiting, the ends of
\* clients.
LEMMA QuietStep ==
  ASSUME ProxyInv, PipesTypeOK', UNCHANGED <<inbox, pipes>>,
         \A u \in User : at'[u] = at[u] \/ (at[u] # "pipe" /\ at'[u] # "pipe")
  PROVE  ProxyInv'
<1>1. ASSUME NEW u \in User
      PROVE  Ascending(u)' /\ LatestOpen(u)' /\ NothingLost(u)'
  <2>1. Ascending(u) /\ LatestOpen(u) /\ NothingLost(u) /\ PipesTypeOK
    BY Zenon DEF ProxyInv
  <2>2. at'[u] = at[u] \/ (at'[u] # "pipe" /\ \A j \in DOMAIN pipes[u] : ~pipes'[u][j].open)
    BY <2>1, Zenon DEF LatestOpen
  <2> QED
    BY <2>1, <2>2, NothingDelivered, Zenon DEF SamePipes
<1> QED
  BY <1>1, Zenon DEF ProxyInv

\* A node that ends ends its connections: none opens, and none gets bytes.
LEMMA ChangeKeeps ==
  ASSUME ProxyInv, Change
  PROVE  ProxyInv'
<1>1. UNCHANGED <<at, inbox>> /\ PipesTypeOK
  BY Zenon DEF Change, userVars, ProxyInv
<1>2. PICK t \in Target :
        \/ /\ up' = up \ {t}
           /\ \E how \in {"eof", "reset"} :
                pipes' = [u \in User |-> [j \in DOMAIN pipes[u] |-> Ended(pipes[u][j], t, how)]]
        \/ up' = up \cup {t} /\ UNCHANGED pipes
        \/ UNCHANGED <<up, pipes>>
  BY Zenon DEF Change
<1>3. CASE UNCHANGED pipes
  <2>1. PipesTypeOK'
    BY <1>1, <1>2, <1>3, Zenon DEF PipesTypeOK
  <2> QED
    BY <1>1, <1>3, <2>1, QuietStep, Zenon
<1>4. ASSUME up' = up \ {t}, NEW how \in {"eof", "reset"},
             pipes' = [u \in User |-> [j \in DOMAIN pipes[u] |-> Ended(pipes[u][j], t, how)]]
      PROVE  ProxyInv'
  <2>1. ASSUME NEW q \in Pipe
        PROVE  /\ Ended(q, t, how) \in Pipe /\ Ended(q, t, how).got = q.got
               /\ Ended(q, t, how).open = q.open
               /\ Ended(q, t, how).end = "open" => q.end = "open"
    BY Zenon DEF Ended, Pipe
  <2>2. ASSUME NEW u \in User
        PROVE  /\ pipes'[u] \in Seq(Pipe) /\ Len(pipes'[u]) = Len(pipes[u])
               /\ DOMAIN pipes'[u] = DOMAIN pipes[u]
               /\ \A j \in DOMAIN pipes[u] : pipes'[u][j] = Ended(pipes[u][j], t, how)
    <3>1. pipes[u] \in Seq(Pipe)
      BY <1>1, Zenon DEF PipesTypeOK
    <3>2. /\ Len(pipes[u]) \in Nat /\ DOMAIN pipes[u] = 1 .. Len(pipes[u])
          /\ \A j \in 1 .. Len(pipes[u]) : pipes[u][j] \in Pipe
      BY <3>1
    <3>3. pipes'[u] = [j \in 1 .. Len(pipes[u]) |-> Ended(pipes[u][j], t, how)]
      BY <1>4, <3>2, Zenon
    <3>4. \A j \in 1 .. Len(pipes[u]) : Ended(pipes[u][j], t, how) \in Pipe
      BY <2>1, <3>2, Zenon
    <3> QED
      BY <3>2, <3>3, <3>4
  <2>3. PipesTypeOK'
    BY <1>1, <1>4, <2>2, Zenon DEF PipesTypeOK
  <2>4. ASSUME NEW u \in User
        PROVE  Ascending(u)' /\ LatestOpen(u)' /\ NothingLost(u)'
    <3>1. \A j \in DOMAIN pipes[u] : pipes[u][j] \in Pipe
      BY <1>1 DEF PipesTypeOK
    <3>2. \A j \in DOMAIN pipes[u] :
            /\ pipes'[u][j].got = pipes[u][j].got
            /\ pipes'[u][j].open = pipes[u][j].open
            /\ pipes'[u][j].end = "open" => pipes[u][j].end = "open"
      BY <2>1, <2>2, <3>1, Zenon
    <3>3. pipes'[u] = <<>> => pipes[u] = <<>>
      BY <1>1, <2>2 DEF PipesTypeOK
    <3>4. Ascending(u) /\ LatestOpen(u) /\ NothingLost(u)
      BY Zenon DEF ProxyInv
    <3> QED
      BY <1>1, <2>2, <3>2, <3>3, <3>4, NothingDelivered, ZenonT(60) DEF SamePipes
  <2> QED
    BY <2>3, <2>4, Zenon DEF ProxyInv
<1> QED
  BY <1>2, <1>3, <1>4, Zenon

\* What handleClient does but for the copying.
LEMMA ClientKeeps ==
  ASSUME ProxyInv, NEW u \in User, Client(u)
  PROVE  ProxyInv'
<1>1. PipesTypeOK /\ UNCHANGED <<up, inbox>>
  BY Zenon DEF ProxyInv, Client, DiscoverLeader, NoLeader, DialLeader, Wait, StopDiscovering, PipeEnds,
         nodeVars, userVars
<1>2. ASSUME UNCHANGED pipes, at[u] # "pipe",
             at' = at \/ \E l \in {"discover", "wait", "dial", "returned"} : Goto(u, l)
      PROVE  ProxyInv'
  <2>1. PipesTypeOK' /\ \A v \in User : at'[v] = at[v] \/ (at[v] # "pipe" /\ at'[v] # "pipe")
    BY <1>1, <1>2, Zenon DEF PipesTypeOK, Goto
  <2> QED
    BY <1>1, <1>2, <2>1, QuietStep, Zenon
<1>3. CASE DiscoverLeader(u) \/ NoLeader(u) \/ Wait(u) \/ StopDiscovering(u)
  BY <1>2, <1>3, Zenon DEF DiscoverLeader, NoLeader, Wait, StopDiscovering
<1>4. CASE DialLeader(u)
  <2>1. CASE Goto(u, "wait") /\ UNCHANGED pipes
    BY <1>2, <1>4, <2>1, Zenon DEF DialLeader
  <2>2. CASE /\ chosen[u] \in up /\ Goto(u, "pipe")
             /\ pipes' = [pipes EXCEPT ![u] = Append(@, NewPipe(chosen[u]))]
    <3>1. at' \in [User -> {"discover", "wait", "dial", "pipe", "returned"}] /\ at'[u] = "pipe"
          /\ \A v \in User \ {u} : at'[v] = at[v]
      BY <1>1, <2>2, Zenon DEF PipesTypeOK, Goto
    <3>2. NewPipe(chosen[u]) \in Pipe
      BY <1>1, <2>2 DEF PipesTypeOK, NewPipe, Pipe
    <3>3. /\ pipes' \in [User -> Seq(Pipe)]
          /\ pipes'[u] = Append(pipes[u], NewPipe(chosen[u]))
          /\ \A v \in User \ {u} : pipes'[v] = pipes[v]
      BY <1>1, <2>2, <3>2 DEF PipesTypeOK
    <3>4. PipesTypeOK'
      BY <1>1, <3>1, <3>3, Zenon DEF PipesTypeOK
    <3>5. \A v \in User : Ascending(v) /\ LatestOpen(v) /\ NothingLost(v)
      BY Zenon DEF ProxyInv
    <3>6. Ascending(u)' /\ LatestOpen(u)' /\ NothingLost(u)'
      <4>1. at[u] # "pipe"
        BY <1>4, Zenon DEF DialLeader
      <4> QED
        BY <1>1, <3>1, <3>3, <3>5, <4>1, PipeAppended, Zenon DEF Opened
    <3>7. \A v \in User \ {u} : Ascending(v)' /\ LatestOpen(v)' /\ NothingLost(v)'
      BY <1>1, <3>1, <3>3, <3>5, NothingDelivered, ZenonT(60) DEF SamePipes
    <3> QED
      BY <3>4, <3>6, <3>7, Zenon DEF ProxyInv
  <2> QED
    BY <1>4, <2>1, <2>2, Zenon DEF DialLeader
<1>5. CASE PipeEnds(u)
  <2> DEFINE n == Len(pipes[u])
             p == [pipes[u][n] EXCEPT !.open = FALSE, !.out = FALSE]
  <2>1. Ascending(u) /\ LatestOpen(u) /\ NothingLost(u) /\ pipes[u] \in Seq(Pipe)
    BY <1>1, Zenon DEF ProxyInv, PipesTypeOK
  <2>2. at[u] = "pipe" /\ n \in DOMAIN pipes[u]
    BY <1>5, <2>1 DEF PipeEnds, LatestOpen
  <2>3. pipes[u][n] \in Pipe
    BY <2>1, <2>2
  <2>4. p \in Pipe /\ p.open = FALSE /\ p.end = pipes[u][n].end /\ p.got = pipes[u][n].got
    BY <2>3, Zenon DEF Pipe
  <2>5. pipes' = [pipes EXCEPT ![u] = [@ EXCEPT ![n] = p]]
    BY <1>5, Zenon DEF PipeEnds
  <2>6. \E l \in {"returned", "wait"} : Goto(u, l)
    BY <1>5, Zenon DEF PipeEnds
  <2>7. /\ at' \in [User -> {"discover", "wait", "dial", "pipe", "returned"}]
        /\ at'[u] # "pipe" /\ \A v \in User \ {u} : at'[v] = at[v]
    BY <1>1, <2>6, Zenon DEF PipesTypeOK, Goto
  <2> HIDE DEF p, n
  <2>8. /\ pipes' \in [User -> Seq(Pipe)] /\ pipes'[u][n] = p
        /\ Len(pipes'[u]) = Len(pipes[u]) /\ DOMAIN pipes'[u] = DOMAIN pipes[u]
        /\ \A j \in DOMAIN pipes[u] \ {n} : pipes'[u][j] = pipes[u][j]
        /\ \A v \in User \ {u} : pipes'[v] = pipes[v]
    BY <1>1, <2>2, <2>4, <2>5, OnePipeChanged, Zenon
  <2>9. PipesTypeOK'
    BY <1>1, <2>7, <2>8, Zenon DEF PipesTypeOK
  <2>10. Ascending(u)' /\ LatestOpen(u)' /\ NothingLost(u)'
    <3>1. \A j \in DOMAIN pipes[u] :
            /\ pipes'[u][j].got = pipes[u][j].got /\ ~pipes'[u][j].open
            /\ pipes'[u][j].end = "open" => pipes[u][j].end = "open"
      <4>1. \A j \in DOMAIN pipes[u] \ {n} : ~pipes[u][j].open
        BY <2>1, Zenon DEF LatestOpen, n
      <4> QED
        BY <2>4, <2>8, <4>1, Zenon
    <3>2. pipes'[u] = <<>> => pipes[u] = <<>>
      BY <2>2, <2>8
    <3> QED
      BY <1>1, <2>1, <2>7, <2>8, <3>1, <3>2, NothingDelivered, ZenonT(60) DEF SamePipes
  <2>11. \A v \in User \ {u} : Ascending(v)' /\ LatestOpen(v)' /\ NothingLost(v)'
    BY <1>1, <2>7, <2>8, NothingDelivered, Zenon DEF ProxyInv, SamePipes
  <2> QED
    BY <2>9, <2>10, <2>11, Zenon DEF ProxyInv
<1> QED
  BY <1>3, <1>4, <1>5, Zenon DEF Client

\* What CopyIn and CopyOut do with the bytes of a client when they make a connection p.
Copied(u, i, p) ==
  \/ inbox'[u] = inbox[u] /\ p.got = pipes[u][i].got
  \/ /\ Taken(u)
     /\ \/ Live(u, i) /\ p.got = Append(pipes[u][i].got, Head(inbox[u]))
        \/ p.got = pipes[u][i].got /\ ~Live(u, i)

\* A connection is changed and perhaps a byte read, for one client.
LEMMA OnePipeKeeps ==
  ASSUME ProxyInv, NEW u \in User, NEW i \in DOMAIN pipes[u], NEW p \in Pipe,
         pipes' = [pipes EXCEPT ![u] = [@ EXCEPT ![i] = p]],
         UNCHANGED <<up, at>>, inbox' \in [User -> Seq(Nat)],
         \A v \in User \ {u} : inbox'[v] = inbox[v],
         p.open = pipes[u][i].open, p.end = pipes[u][i].end, Copied(u, i, p)
  PROVE  ProxyInv'
<1>1. PipesTypeOK /\ \A v \in User : Ascending(v) /\ LatestOpen(v) /\ NothingLost(v)
  BY Zenon DEF ProxyInv
<1>2. /\ pipes' \in [User -> Seq(Pipe)] /\ pipes'[u][i] = p
      /\ Len(pipes'[u]) = Len(pipes[u]) /\ DOMAIN pipes'[u] = DOMAIN pipes[u]
      /\ \A j \in DOMAIN pipes[u] \ {i} : pipes'[u][j] = pipes[u][j]
      /\ \A v \in User \ {u} : pipes'[v] = pipes[v]
  BY <1>1, OnePipeChanged, Zenon
<1>3. PipesTypeOK'
  BY <1>1, <1>2, Zenon DEF PipesTypeOK
<1>4. \A v \in User \ {u} : Ascending(v)' /\ LatestOpen(v)' /\ NothingLost(v)'
  BY <1>1, <1>2, NothingDelivered, Zenon DEF SamePipes
<1>5. pipes[u] # <<>> /\ pipes'[u] # <<>>
  BY <1>2
<1>6. CASE Taken(u) /\ Live(u, i) /\ p.got = Append(pipes[u][i].got, Head(inbox[u]))
  <2>1. Delivered(u, i)
    BY <1>2, <1>6, Zenon DEF Delivered
  <2>2. Ascending(u)' /\ LatestOpen(u)' /\ NothingLost(u)'
    BY <1>1, <1>2, <1>5, <1>6, <2>1, ByteDelivered, ZenonT(60) DEF Delivery
  <2> QED
    BY <1>3, <1>4, <2>2, Zenon DEF ProxyInv
<1>7. CASE /\ p.got = pipes[u][i].got
           /\ \/ inbox'[u] = inbox[u]
              \/ Taken(u) /\ ~Live(u, i)
  <2>0. Len(pipes[u]) = 1 => i = 1
    BY <1>1 DEF PipesTypeOK
  <2>1. \A j \in DOMAIN pipes[u] :
          /\ pipes'[u][j].got = pipes[u][j].got
          /\ pipes'[u][j].open = pipes[u][j].open
          /\ pipes'[u][j].end = pipes[u][j].end
    BY <1>2, <1>7, Zenon
  <2>2. Ascending(u)' /\ LatestOpen(u)' /\ NothingLost(u)'
    BY <1>1, <1>2, <1>5, <1>7, <2>0, <2>1, NothingDelivered, Zenon DEF SamePipes
  <2> QED
    BY <1>3, <1>4, <2>2, Zenon DEF ProxyInv
<1> QED
  BY <1>6, <1>7, Zenon DEF Copied


\* The goroutines that copy.
LEMMA CopyKeeps ==
  ASSUME ProxyInv, NEW u \in User, NEW i \in DOMAIN pipes[u], CopyIn(u, i) \/ CopyOut(u, i)
  PROVE  ProxyInv'
<1> DEFINE p == pipes[u][i]
<1>1. PipesTypeOK /\ UNCHANGED <<up, at>>
  BY Zenon DEF CopyIn, CopyOut, ProxyInv, nodeVars
<1>2. p \in Pipe /\ pipes \in [User -> Seq(Pipe)] /\ inbox \in [User -> Seq(Nat)]
  <2>1. pipes[u] \in Seq(Pipe) /\ pipes \in [User -> Seq(Pipe)] /\ inbox \in [User -> Seq(Nat)]
    BY <1>1, Zenon DEF PipesTypeOK
  <2> QED
    BY <2>1
<1>3. CASE CopyOut(u, i)
  <2>1. PICK err \in {"nil", "error"} :
          pipes' = [pipes EXCEPT ![u][i] = [p EXCEPT !.out = FALSE, !.err = Reported(p, err)]]
    BY <1>3, Zenon DEF CopyOut
  <2> DEFINE q == [p EXCEPT !.out = FALSE, !.err = Reported(p, err)]
  <2>2. q \in Pipe /\ q.open = p.open /\ q.end = p.end /\ q.got = p.got
    BY <1>2, Zenon DEF Pipe, Reported
  <2>3. pipes' = [pipes EXCEPT ![u] = [@ EXCEPT ![i] = q]] /\ inbox' = inbox
    BY <1>3, <2>1, Zenon DEF CopyOut, userVars
  <2> HIDE DEF q
  <2> QED
    BY <1>1, <1>2, <2>2, <2>3, OnePipeKeeps, Zenon DEF Copied, Taken
<1>4. CASE CopyIn(u, i)
  <2> DEFINE over == [p EXCEPT !.in = FALSE, !.err = Reported(p, "client")]
             more == [p EXCEPT !.got = Append(@, Head(inbox[u]))]
  <2>1. over \in Pipe /\ over.open = p.open /\ over.end = p.end /\ over.got = p.got
    BY <1>2, Zenon DEF Pipe, Reported
  <2>2. pipes = [pipes EXCEPT ![u] = [@ EXCEPT ![i] = p]]
    <3>1. [pipes[u] EXCEPT ![i] = p] = pipes[u]
      BY <1>2
    <3> QED
      BY <1>2, <3>1, Zenon
  <2>3. CASE pipes' = [pipes EXCEPT ![u][i] = over] /\ inbox' = inbox
    <3>1. pipes' = [pipes EXCEPT ![u] = [@ EXCEPT ![i] = over]]
      BY <2>3, Zenon
    <3> HIDE DEF over
    <3> QED
      BY <1>1, <1>2, <2>1, <2>3, <3>1, OnePipeKeeps, Zenon DEF Copied, Taken
  <2>4. ASSUME inbox[u] # <<>>, inbox' = [inbox EXCEPT ![u] = Tail(@)]
        PROVE  /\ inbox' \in [User -> Seq(Nat)] /\ inbox'[u] = Tail(inbox[u])
               /\ \A v \in User \ {u} : inbox'[v] = inbox[v]
    <3>1. inbox[u] \in Seq(Nat)
      BY <1>2, Zenon
    <3>2. Tail(inbox[u]) \in Seq(Nat)
      BY <2>4, <3>1
    <3> QED
      BY <1>2, <2>4, <3>2, Zenon
  <2>5. CASE /\ inbox[u] # <<>> /\ inbox' = [inbox EXCEPT ![u] = Tail(@)]
             /\ ~Live(u, i) /\ pipes' = pipes
    BY <1>1, <1>2, <2>2, <2>4, <2>5, OnePipeKeeps, ZenonT(60) DEF Copied, Taken
  <2>6. CASE /\ inbox[u] # <<>> /\ inbox' = [inbox EXCEPT ![u] = Tail(@)]
             /\ ~Live(u, i) /\ pipes' = [pipes EXCEPT ![u][i] = over]
    <3>0. /\ inbox' \in [User -> Seq(Nat)] /\ inbox'[u] = Tail(inbox[u])
          /\ \A v \in User \ {u} : inbox'[v] = inbox[v]
      BY <2>4, <2>6, Zenon
    <3>1. pipes' = [pipes EXCEPT ![u] = [@ EXCEPT ![i] = over]]
      BY <2>6, Zenon
    <3>2. over.open = pipes[u][i].open /\ over.end = pipes[u][i].end /\ over.got = pipes[u][i].got
      BY <2>1, Zenon
    <3> HIDE DEF over, p
    <3> QED
      BY <1>1, <2>1, <2>6, <3>0, <3>1, <3>2, OnePipeKeeps, ZenonT(60) DEF Copied, Taken
  <2>7. CASE /\ inbox[u] # <<>> /\ inbox' = [inbox EXCEPT ![u] = Tail(@)]
             /\ Live(u, i) /\ pipes' = [pipes EXCEPT ![u][i].got = Append(@, Head(inbox[u]))]
    <3>1. pipes' = [pipes EXCEPT ![u] = [@ EXCEPT ![i] = more]]
      BY <2>7, Zenon
    <3>2. Append(p.got, Head(inbox[u])) \in Seq(Nat)
      <4>1. p.got \in Seq(Nat) /\ inbox[u] \in Seq(Nat)
        BY <1>2, Zenon DEF Pipe
      <4> QED
        BY <2>7, <4>1
    <3>3. /\ more \in Pipe /\ more.open = p.open /\ more.end = p.end
          /\ more.got = Append(p.got, Head(inbox[u]))
      BY <1>2, <3>2, Zenon DEF Pipe
    <3>4. /\ more.open = pipes[u][i].open /\ more.end = pipes[u][i].end
          /\ more.got = Append(pipes[u][i].got, Head(inbox[u]))
      BY <3>3, Zenon
    <3>0. /\ inbox' \in [User -> Seq(Nat)] /\ inbox'[u] = Tail(inbox[u])
          /\ \A v \in User \ {u} : inbox'[v] = inbox[v]
      BY <2>4, <2>7, Zenon
    <3> HIDE DEF more, p
    <3> QED
      BY <1>1, <2>7, <3>0, <3>1, <3>3, <3>4, OnePipeKeeps, ZenonT(60) DEF Copied, Taken
  <2> QED
    BY <1>4, <2>3, <2>5, <2>6, <2>7, Zenon DEF CopyIn, Live
<1> QED
  BY <1>3, <1>4, Zenon

\* What a client sends reaches the nodes in order and nothing twice, for every
\* number of nodes and clients: proxyCopy and handleClient of pkg/proxy/proxy.go,
\* with goroutines left from earlier connections that still read from the client.
THEOREM ProxyDeliversInOrder == ProxySpec => []BytesInOrder
<1>1. ProxyInv => BytesInOrder
  BY Zenon DEF ProxyInv, BytesInOrder, Ascending, NothingLost, Got, Live
<1>2. ProxyInv /\ [ProxyNext]_proxyVars => ProxyInv'
  <2> SUFFICES ASSUME ProxyInv, [ProxyNext]_proxyVars PROVE ProxyInv'
    BY Zenon
  <2>1. CASE Cancel \/ UNCHANGED proxyVars \/ \E u \in User : UserCloses(u)
    <3>1. UNCHANGED <<up, at, inbox, pipes>>
      BY <2>1, Zenon DEF Cancel, UserCloses, proxyVars, nodeVars, userVars
    <3>2. PipesTypeOK'
      BY <3>1, Zenon DEF ProxyInv, PipesTypeOK
    <3> QED
      BY <3>1, <3>2, QuietStep, ZenonT(60)
  <2> QED
    BY <2>1, ChangeKeeps, ClientKeeps, CopyKeeps, ZenonT(60) DEF ProxyNext
<1> QED
  BY <1>1, <1>2, ProxyInvInit, PTL DEF ProxySpec


-----------------------------------------------------------------------------
(* Join *)

\* A non-empty set of naturals has a least element.
LEMMA LeastNumber ==
  ASSUME NEW T \in SUBSET Nat, T # {}
  PROVE  \E x \in T : \A y \in T : x <= y
<1> DEFINE R == {ss \in Nat \X Nat : ss[1] < ss[2]}
<1>1. IsWellFoundedOn(R, Nat)
  BY NatLessThanWellFounded, Zenon DEF OpToRel
<1> HIDE DEF R
<1>2. \E x \in T : \A y \in T : ~(<<y, x>> \in R)
  BY <1>1, WFMin, Zenon
<1>3. \A x, y \in T : ~(<<y, x>> \in R) => x <= y
  BY DEF R
<1> QED
  BY <1>2, <1>3, Zenon

\* A non-empty set of positions has a greatest element.
LEMMA GreatestNumber ==
  ASSUME NEW m \in Nat, NEW T \in SUBSET (1 .. m), T # {}
  PROVE  \E x \in T : \A y \in T : y <= x
<1> DEFINE D == {d \in Nat : m - d \in T}
<1>1. PICK t \in T : TRUE
  BY Zenon
<1>2. m - t \in D
  <2>1. t \in 1 .. m /\ m - (m - t) = t /\ m - t \in Nat
    BY <1>1
  <2> QED
    BY <2>1, Zenon
<1>3. PICK d \in D : \A e \in D : d <= e
  BY <1>2, LeastNumber, Zenon
<1>4. ASSUME NEW y \in T
      PROVE  y <= m - d
  <2>1. y \in 1 .. m /\ m - (m - y) = y /\ m - y \in Nat
    OBVIOUS
  <2>2. m - y \in D
    BY <2>1, Zenon
  <2> QED
    BY <1>3, <2>1, <2>2
<1> QED
  BY <1>3, <1>4, Zenon

UpTo(F, i) == {j \in F : j <= i}

\* The positions of a set up to one of them are finitely many, and more the later
\* it is.
LEMMA CountUpTo ==
  ASSUME NEW m \in Nat, NEW F \in SUBSET (1 .. m)
  PROVE  /\ IsFiniteSet(F) /\ Cardinality(F) \in Nat
         /\ \A i \in F : IsFiniteSet(UpTo(F, i)) /\ Cardinality(UpTo(F, i)) \in 1 .. Cardinality(F)
         /\ \A i, k \in F : i < k => Cardinality(UpTo(F, i)) < Cardinality(UpTo(F, k))
<1>1. IsFiniteSet(F) /\ Cardinality(F) \in Nat
  <2>1. IsFiniteSet(1 .. m)
    BY FS_Interval
  <2> QED
    BY <2>1, FS_Subset, FS_CardinalityType, ZenonT(60)
<1>2. ASSUME NEW i \in F
      PROVE  /\ IsFiniteSet(UpTo(F, i)) /\ Cardinality(UpTo(F, i)) \in Nat
             /\ Cardinality(UpTo(F, i)) <= Cardinality(F) /\ Cardinality(UpTo(F, i)) # 0
  <2>1. UpTo(F, i) \in SUBSET F /\ i \in UpTo(F, i)
    BY DEF UpTo
  <2>2. IsFiniteSet(UpTo(F, i)) /\ Cardinality(UpTo(F, i)) <= Cardinality(F)
    BY <1>1, <2>1, FS_Subset, Zenon
  <2> QED
    BY <2>1, <2>2, FS_CardinalityType, FS_EmptySet, Zenon
<1>3. ASSUME NEW i \in F, NEW k \in F, i < k
      PROVE  Cardinality(UpTo(F, i)) < Cardinality(UpTo(F, k))
  <2>1. i \in Nat /\ k \in Nat /\ F \subseteq Nat
    OBVIOUS
  <2>2. UpTo(F, i) \in SUBSET UpTo(F, k)
    <3>1. ASSUME NEW y \in UpTo(F, i) PROVE y \in UpTo(F, k)
      <4>1. y \in F /\ y <= i /\ y \in Nat
        BY <2>1, Zenon DEF UpTo
      <4>2. y <= k
        BY <1>3, <2>1, <4>1
      <4> QED
        BY <4>1, <4>2, Zenon DEF UpTo
    <3> QED
      BY <3>1, Zenon
  <2>3. k \in UpTo(F, k) /\ k \notin UpTo(F, i)
    BY <1>3, <2>1 DEF UpTo
  <2>4. Cardinality(UpTo(F, i)) <= Cardinality(UpTo(F, k))
        /\ Cardinality(UpTo(F, i)) # Cardinality(UpTo(F, k))
    BY <1>2, <2>2, <2>3, FS_Subset, Zenon
  <2> QED
    BY <1>2, <2>4
<1> QED
  BY <1>1, <1>2, <1>3

\* There is an n-th position for every n up to the number of positions.
LEMMA NthExists ==
  ASSUME NEW m \in Nat, NEW F \in SUBSET (1 .. m), NEW n \in 1 .. Cardinality(F)
  PROVE  \E i \in F : Cardinality(UpTo(F, i)) = n
<1> DEFINE T == {i \in F : n <= Cardinality(UpTo(F, i))}
<1>1. IsFiniteSet(F) /\ Cardinality(F) \in Nat /\ n \in Nat /\ F \subseteq Nat
  <2>1. IsFiniteSet(F) /\ Cardinality(F) \in Nat
    BY CountUpTo, Zenon
  <2> QED
    BY <2>1
<1>2. F # {}
  BY <1>1, FS_EmptySet
<1>3. PICK g \in F : \A y \in F : y <= g
  BY <1>2, GreatestNumber, Zenon
<1>4. UpTo(F, g) = F
  BY <1>3, Zenon DEF UpTo
<1>5. PICK i \in T : \A y \in T : i <= y
  <2>1. g \in T
    BY <1>4
  <2> QED
    BY <1>1, <2>1, LeastNumber, ZenonT(60)
<1>6. IsFiniteSet(UpTo(F, i)) /\ Cardinality(UpTo(F, i)) \in Nat
  <2>1. IsFiniteSet(UpTo(F, i)) /\ Cardinality(UpTo(F, i)) \in 1 .. Cardinality(F)
    BY <1>5, CountUpTo, Zenon
  <2> QED
    BY <2>1
<1>7. CASE Cardinality(UpTo(F, i)) = n
  BY <1>5, <1>7, Zenon
<1>8. CASE Cardinality(UpTo(F, i)) > n
  <2> DEFINE P == UpTo(F, i) \ {i}
  <2>1. IsFiniteSet(P) /\ Cardinality(P) = Cardinality(UpTo(F, i)) - 1
    BY <1>5, <1>6, FS_RemoveElement, Zenon DEF UpTo
  <2>2. P # {} /\ P \in SUBSET (1 .. m)
    <3>1. Cardinality(P) # 0
      BY <1>1, <1>6, <1>8, <2>1
    <3> QED
      BY <2>1, <3>1, FS_EmptySet, Zenon DEF UpTo
  <2>3. PICK h \in P : \A y \in P : y <= h
    BY <2>2, GreatestNumber, Zenon
  <2>4. h \in F /\ h < i
    BY <1>5, <2>3 DEF UpTo
  <2>5. UpTo(F, h) = P
    <3>1. ASSUME NEW y \in UpTo(F, h) PROVE y \in P
      BY <1>5, <2>4 DEF UpTo
    <3>2. ASSUME NEW y \in P PROVE y \in UpTo(F, h)
      BY <2>3, Zenon DEF UpTo
    <3> QED
      BY <3>1, <3>2, ZenonT(60)
  <2>6. h \in T
    BY <1>1, <1>6, <1>8, <2>1, <2>4, <2>5
  <2> QED
    BY <1>5, <2>4, <2>6
<1> QED
  BY <1>1, <1>5, <1>6, <1>7, <1>8

\* collectJoinTargets keeps the first spelling of every address: the result is a
\* sequence of addresses that come first, and every address given is among them but
\* for its spelling.
LEMMA DistinctKeeps ==
  ASSUME NEW s \in Seq(Addr)
  PROVE  /\ Distinct(s) \in Seq(Addr)
         /\ \A n \in DOMAIN Distinct(s) : \E k \in Fresh(s) : Distinct(s)[n] = s[k]
         /\ \A i \in DOMAIN s : \E n \in DOMAIN Distinct(s) :
              normalizeJoinAddr(Distinct(s)[n]) = normalizeJoinAddr(s[i])
<1> DEFINE F == Fresh(s)
           c == Cardinality(F)
<1>1. Len(s) \in Nat /\ DOMAIN s = 1 .. Len(s) /\ F \in SUBSET (1 .. Len(s))
  BY DEF Fresh
<1>2. c \in Nat
  BY <1>1, CountUpTo, Zenon
<1>3. \A n \in 1 .. c : /\ NthFresh(s, n) \in F
                        /\ Cardinality(UpTo(F, NthFresh(s, n))) = n
  <2> TAKE n \in 1 .. c
  <2>1. \E i \in F : Cardinality(UpTo(F, i)) = n
    BY <1>1, NthExists, Zenon
  <2>2. NthFresh(s, n) = CHOOSE i \in F : Cardinality(UpTo(F, i)) = n
    BY Zenon DEF NthFresh, UpTo
  <2> QED
    BY <2>1, <2>2, Zenon
<1>4. Distinct(s) \in Seq(Addr)
  <2>1. \A n \in 1 .. c : s[NthFresh(s, n)] \in Addr
    BY <1>1, <1>3
  <2> QED
    BY <1>2, <2>1 DEF Distinct
<1>5. ASSUME NEW k \in F
      PROVE  \E n \in DOMAIN Distinct(s) : Distinct(s)[n] = s[k]
  <2> DEFINE n == Cardinality(UpTo(F, k))
  <2>1. n \in 1 .. c
    BY <1>1, CountUpTo, Zenon
  <2>2. NthFresh(s, n) \in F /\ Cardinality(UpTo(F, NthFresh(s, n))) = n
    BY <1>3, <2>1, Zenon
  <2>3. k \in Nat /\ NthFresh(s, n) \in Nat
    BY <1>1, <2>2
  <2>4. NthFresh(s, n) = k
    <3>1. n \in Nat /\ ~(n < n)
      BY <1>2, <2>1
    <3>2. ~(NthFresh(s, n) < k)
      BY <1>1, <2>2, <3>1, CountUpTo, Zenon
    <3>3. ~(k < NthFresh(s, n))
      BY <1>1, <2>2, <3>1, CountUpTo, Zenon
    <3> HIDE DEF n
    <3> QED
      BY <2>3, <3>2, <3>3
  <2>5. n \in DOMAIN Distinct(s) /\ Distinct(s)[n] = s[NthFresh(s, n)]
    BY <2>1, Zenon DEF Distinct
  <2> QED
    BY <2>4, <2>5, Zenon
<1>6. ASSUME NEW i \in DOMAIN s
      PROVE  \E n \in DOMAIN Distinct(s) : normalizeJoinAddr(Distinct(s)[n]) = normalizeJoinAddr(s[i])
  <2> DEFINE T == {j \in DOMAIN s : normalizeJoinAddr(s[j]) = normalizeJoinAddr(s[i])}
  <2>1. PICK k \in T : \A y \in T : k <= y
    <3>1. T \in SUBSET Nat /\ i \in T
      BY <1>1
    <3> QED
      BY <3>1, LeastNumber, Zenon
  <2>2. k \in F
    <3>1. ASSUME NEW j \in 1 .. k - 1
          PROVE  normalizeJoinAddr(s[j]) # normalizeJoinAddr(s[k])
      BY <1>1, <2>1
    <3> QED
      BY <2>1, <3>1, Zenon DEF Fresh
  <2> QED
    BY <1>5, <2>1, <2>2, Zenon
<1>7. ASSUME NEW n \in DOMAIN Distinct(s)
      PROVE  \E k \in F : Distinct(s)[n] = s[k]
  <2>1. n \in 1 .. c /\ Distinct(s)[n] = s[NthFresh(s, n)]
    BY Zenon DEF Distinct
  <2> QED
    BY <1>3, <2>1, Zenon
<1> QED
  BY <1>4, <1>6, <1>7, Zenon


JoinTypeOK ==
  /\ phase \in {"down", "joining", "up", "failed"} /\ hasState \in BOOLEAN
  /\ cache \in Seq(Addr) /\ queue \in Seq(Addr) /\ seen \subseteq Addr /\ last \in Seq(Addr)
  /\ leader \in Server \cup {NoServer} /\ member \in BOOLEAN
  /\ found \in {"yes", "no", "unknown"}

Usable(a) == Serves(buildJoinURL(a))

\* While the loop of join runs and nothing has gone wrong, a leader with a usable
\* address is still to be asked: its address is in the queue, in no other spelling
\* than one that is served, and was not asked yet.
LeaderAhead ==
  phase = "joining" /\ found = "yes" =>
    /\ leader # NoServer /\ Http(leader) \notin seen
    /\ \E i \in DOMAIN queue : NamesLeader(queue[i])
    /\ \A i \in DOMAIN queue : NamesLeader(queue[i]) => Usable(queue[i])

\* Without one, no address in the queue is usable.
NoLeaderAhead ==
  phase = "joining" /\ found = "no" /\ leader # NoServer =>
    \A i \in DOMAIN queue : NamesLeader(queue[i]) => ~Usable(queue[i])

JoinInv == JoinTypeOK /\ LeaderAhead /\ NoLeaderAhead

\* A normalized address is an address; two addresses have the same one exactly if
\* they name the same port of the same server.
LEMMA NormalizedAddr ==
  ASSUME NEW a \in Addr
  PROVE  /\ normalizeJoinAddr(a) \in Addr
         /\ normalizeJoinAddr(a) = Http(leader) <=> NamesLeader(a)
<1>1. a.server \in Server \cup {NoServer} /\ a.port \in {"http", "raft"}
  BY Zenon DEF Addr
<1>2. normalizeJoinAddr(a) \in Addr
  BY <1>1, Zenon DEF normalizeJoinAddr, Plain, Addr
<1>3. ASSUME NamesLeader(a) PROVE normalizeJoinAddr(a) = Http(leader)
  BY <1>3, Zenon DEF NamesLeader, normalizeJoinAddr, Http
<1>4. ASSUME normalizeJoinAddr(a) = Http(leader) PROVE NamesLeader(a)
  <2>1. normalizeJoinAddr(a).server = a.server /\ normalizeJoinAddr(a).port = a.port
    BY Zenon DEF normalizeJoinAddr, Plain
  <2>2. Http(leader).server = leader /\ Http(leader).port = "http"
    BY Zenon DEF Http, Plain
  <2> QED
    BY <1>4, <2>1, <2>2, Zenon DEF NamesLeader
<1> QED
  BY <1>2, <1>3, <1>4, Zenon

\* Of the addresses that collectJoinTargets keeps, the one of the leader is usable
\* exactly if the first spelling of it was.
LEMMA FirstSpelling ==
  ASSUME NEW s \in Seq(Addr), leader # NoServer, NEW n \in DOMAIN Distinct(s),
         NamesLeader(Distinct(s)[n])
  PROVE  Usable(Distinct(s)[n]) <=> FirstServed(s)
<1>1. PICK k \in Fresh(s) : Distinct(s)[n] = s[k]
  BY DistinctKeeps, Zenon
<1>2. k \in DOMAIN s /\ DOMAIN s = 1 .. Len(s) /\ Len(s) \in Nat /\ NamesLeader(s[k])
  BY <1>1 DEF Fresh
<1>3. \A i \in DOMAIN s : s[i] \in Addr
  BY <1>2
<1>4. ASSUME NEW j \in 1 .. k - 1
      PROVE  ~NamesLeader(s[j])
  <2>1. normalizeJoinAddr(s[j]) # normalizeJoinAddr(s[k])
    BY <1>1, <1>4, Zenon DEF Fresh
  <2>2. j \in DOMAIN s
    BY <1>2
  <2> QED
    BY <1>2, <1>3, <2>1, <2>2, NormalizedAddr, Zenon
<1>5. ASSUME Usable(s[k]) PROVE FirstServed(s)
  BY <1>2, <1>4, <1>5, Zenon DEF FirstServed, Usable
<1>6. ASSUME FirstServed(s) PROVE Usable(s[k])
  <2>1. PICK i \in DOMAIN s : /\ NamesLeader(s[i]) /\ Usable(s[i])
                             /\ \A j \in 1 .. i - 1 : ~NamesLeader(s[j])
    BY <1>6, Zenon DEF FirstServed, Usable
  <2>2. ~(i \in 1 .. k - 1) /\ ~(k \in 1 .. i - 1)
    BY <1>2, <1>4, <2>1, Zenon
  <2>3. i = k
    BY <1>2, <2>2
  <2> QED
    BY <2>1, <2>3, Zenon
<1> QED
  BY <1>1, <1>5, <1>6, Zenon

\* The tail has the addresses of the queue but its head.
LEMMA StillQueued ==
  ASSUME queue \in Seq(Addr), queue # <<>>, queue' = Tail(queue)
  PROVE  /\ \A i \in DOMAIN queue' : \E k \in DOMAIN queue : queue'[i] = queue[k]
         /\ \A k \in DOMAIN queue : \/ queue[k] = Head(queue)
                                   \/ \E i \in DOMAIN queue' : queue'[i] = queue[k]
<1>1. ASSUME NEW i \in DOMAIN queue'
      PROVE  \E k \in DOMAIN queue : queue'[i] = queue[k]
  <2>1. i + 1 \in DOMAIN queue /\ queue'[i] = queue[i + 1]
    OBVIOUS
  <2> QED
    BY <2>1, Zenon
<1>2. ASSUME NEW k \in DOMAIN queue, queue[k] # Head(queue)
      PROVE  \E i \in DOMAIN queue' : queue'[i] = queue[k]
  <2>1. k # 1 /\ k \in 1 .. Len(queue) /\ Len(queue) \in Nat
    BY <1>2
  <2>2. k - 1 \in DOMAIN queue' /\ queue'[k - 1] = queue[k]
    BY <2>1
  <2> QED
    BY <2>2, Zenon
<1> QED
  BY <1>1, <1>2, Zenon

\* A turn of the loop that goes on with the next target keeps what is ahead, if the
\* target was not a usable address of the leader.
LEMMA TailKeeps ==
  ASSUME JoinInv, phase = "joining", queue # <<>>, queue' = Tail(queue),
         UNCHANGED <<phase, leader, found>>,
         found = "yes" => ~NamesLeader(Head(queue)) /\ Http(leader) \notin seen'
  PROVE  LeaderAhead' /\ NoLeaderAhead'
<1>1. queue \in Seq(Addr)
  BY Zenon DEF JoinInv, JoinTypeOK
<1>2. \A a : NamesLeader(a)' <=> NamesLeader(a)
  BY Zenon DEF NamesLeader
<1>3. /\ \A i \in DOMAIN queue' : \E k \in DOMAIN queue : queue'[i] = queue[k]
      /\ \A k \in DOMAIN queue : \/ queue[k] = Head(queue)
                                \/ \E i \in DOMAIN queue' : queue'[i] = queue[k]
  BY <1>1, StillQueued, Zenon
<1>4. ASSUME found = "yes" PROVE LeaderAhead'
  <2>1. /\ leader # NoServer
        /\ \E i \in DOMAIN queue : NamesLeader(queue[i])
        /\ \A i \in DOMAIN queue : NamesLeader(queue[i]) => Usable(queue[i])
    BY <1>4, Zenon DEF JoinInv, LeaderAhead
  <2>2. \E i \in DOMAIN queue' : queue'[i].server = leader /\ queue'[i].port = "http"
    <3>1. PICK k \in DOMAIN queue : NamesLeader(queue[k])
      BY <2>1, Zenon
    <3>2. queue[k] # Head(queue)
      BY <1>4, <3>1, Zenon
    <3>3. PICK i \in DOMAIN queue' : queue'[i] = queue[k]
      BY <1>3, <3>1, <3>2, Zenon
    <3> QED
      BY <3>1, <3>3, Zenon DEF NamesLeader
  <2>3. ASSUME NEW i \in DOMAIN queue', queue'[i].server = leader, queue'[i].port = "http"
        PROVE  Usable(queue'[i])
    <3>1. PICK k \in DOMAIN queue : queue'[i] = queue[k]
      BY <1>3, <2>3, Zenon
    <3>2. NamesLeader(queue[k])
      BY <2>3, <3>1, Zenon DEF NamesLeader
    <3> QED
      BY <2>1, <3>1, <3>2, Zenon
  <2> QED
    BY <1>4, <2>1, <2>2, <2>3, Zenon DEF LeaderAhead, NamesLeader, Http, Plain
<1>5. ASSUME found = "no", leader # NoServer PROVE NoLeaderAhead'
  <2>1. \A i \in DOMAIN queue : NamesLeader(queue[i]) => ~Usable(queue[i])
    BY <1>5, Zenon DEF JoinInv, NoLeaderAhead
  <2>2. ASSUME NEW i \in DOMAIN queue', queue'[i].server = leader, queue'[i].port = "http"
        PROVE  ~Usable(queue'[i])
    <3>1. PICK k \in DOMAIN queue : queue'[i] = queue[k]
      BY <1>3, <2>2, Zenon
    <3>2. NamesLeader(queue[k])
      BY <2>2, <3>1, Zenon DEF NamesLeader
    <3> QED
      BY <2>1, <3>1, <3>2, Zenon
  <2> QED
    BY <2>2, Zenon DEF NoLeaderAhead, NamesLeader
<1> QED
  BY <1>4, <1>5, Zenon DEF LeaderAhead, NoLeaderAhead

\* A start of the node: the targets are those it was given.
LEMMA NewNodeKeeps ==
  ASSUME JoinInv, NEW addrs \in Configs, NewNode(addrs)
  PROVE  JoinInv'
<1> DEFINE all == cache \o addrs
<1>1. JoinTypeOK /\ all \in Seq(Addr)
  BY ConfigsAssumption DEF JoinInv, JoinTypeOK
<1>2. UNCHANGED <<hasState, cache, leader, member>> /\ seen' = {} /\ last' = cache
  BY Zenon DEF NewNode
<1> HIDE DEF all
<1>3. CASE phase' \in {"failed", "up"} /\ UNCHANGED <<queue, found>>
  BY <1>1, <1>2, <1>3, Zenon DEF JoinInv, JoinTypeOK, LeaderAhead, NoLeaderAhead
<1>4. CASE /\ phase' \in {"up", "joining"} /\ queue' = Distinct(all)
           /\ found' = IF FirstServed(all) THEN "yes" ELSE "no"
  <2>1. queue' \in Seq(Addr)
    BY <1>1, <1>4, DistinctKeeps, Zenon
  <2>2. JoinTypeOK'
    BY <1>1, <1>2, <1>4, <2>1, Zenon DEF JoinTypeOK
  <2>3. ASSUME leader # NoServer, NEW n \in DOMAIN queue',
               queue'[n].server = leader, queue'[n].port = "http"
        PROVE  Usable(queue'[n]) <=> FirstServed(all)
    BY <1>1, <1>4, <2>3, FirstSpelling, Zenon DEF NamesLeader
  <2>4. ASSUME found' = "yes" PROVE LeaderAhead'
    <3>1. FirstServed(all) /\ leader # NoServer
      BY <1>4, <2>4, Zenon DEF FirstServed
    <3>2. PICK i \in DOMAIN all : NamesLeader(all[i])
      BY <3>1, Zenon DEF FirstServed
    <3>3. PICK n \in DOMAIN queue' : normalizeJoinAddr(queue'[n]) = normalizeJoinAddr(all[i])
      BY <1>1, <1>4, <3>2, DistinctKeeps, Zenon
    <3>4. all[i] \in Addr /\ queue'[n] \in Addr
      BY <1>1, <2>1, <3>2, <3>3
    <3>5. NamesLeader(queue'[n])
      BY <3>2, <3>3, <3>4, NormalizedAddr, Zenon
    <3> QED
      BY <1>2, <2>3, <3>1, <3>5, Zenon DEF LeaderAhead, NamesLeader
  <2>5. ASSUME found' = "no" PROVE NoLeaderAhead'
    <3>1. ~FirstServed(all)
      BY <1>4, <2>5, Zenon
    <3> QED
      BY <1>2, <2>3, <3>1, Zenon DEF NoLeaderAhead, NamesLeader
  <2> QED
    BY <2>2, <2>4, <2>5, Zenon DEF JoinInv, LeaderAhead, NoLeaderAhead
<1> QED
  BY <1>3, <1>4, Zenon DEF NewNode, collectJoinTargets, all

\* join ends with an answer without an error, and goes on after one with an error.
LEMMA AnswerAccepts ==
  ASSUME NEW h, NEW m, AfterAnswer(Answer(FALSE, h, m))
  PROVE  phase' = "up" /\ cache' = h /\ queue' = queue
<1>1. Answer(FALSE, h, m).err = FALSE /\ Answer(FALSE, h, m).hint = h
  BY Zenon DEF Answer
<1> QED
  BY <1>1, Zenon DEF AfterAnswer

LEMMA AnswerRefuses ==
  ASSUME NEW h, NEW m, AfterAnswer(Answer(TRUE, h, m))
  PROVE  /\ UNCHANGED <<phase, cache>>
         /\ queue' = Tail(queue) \/ (h # <<>> /\ queue' = h \o Tail(queue))
<1>1. Answer(TRUE, h, m).err = TRUE /\ Answer(TRUE, h, m).hint = h
  BY Zenon DEF Answer
<1> QED
  BY <1>1, Zenon DEF AfterAnswer

\* One turn of the loop in join.
LEMMA JoinTurnKeeps ==
  ASSUME JoinInv, join
  PROVE  JoinInv'
<1> DEFINE target == Head(queue)
<1>1. JoinTypeOK /\ phase = "joining" /\ UNCHANGED <<hasState, last, leader>>
  BY Zenon DEF JoinInv, join
<1>2. CASE queue = <<>> /\ phase' = "failed" /\ UNCHANGED <<cache, queue, seen, member, found>>
  BY <1>1, <1>2, Zenon DEF JoinInv, JoinTypeOK, LeaderAhead, NoLeaderAhead
<1>3. ASSUME queue # <<>>
      PROVE  /\ target \in Addr /\ Tail(queue) \in Seq(Addr)
             /\ normalizeJoinAddr(target) \in Addr
  BY <1>1, <1>3, NormalizedAddr DEF JoinTypeOK
<1>4. CASE /\ queue # <<>> /\ normalizeJoinAddr(target) \in seen /\ queue' = Tail(queue)
           /\ UNCHANGED <<phase, cache, seen, member, found>>
  <2>1. JoinTypeOK'
    BY <1>1, <1>3, <1>4, Zenon DEF JoinTypeOK
  <2>2. ASSUME found = "yes"
        PROVE  ~NamesLeader(target) /\ Http(leader) \notin seen'
    <3>1. Http(leader) \notin seen
      BY <1>1, <2>2, Zenon DEF JoinInv, LeaderAhead
    <3> QED
      BY <1>3, <1>4, <3>1, NormalizedAddr, Zenon
  <2>3. LeaderAhead' /\ NoLeaderAhead'
    BY <1>1, <1>4, <2>2, TailKeeps, Zenon
  <2> QED
    BY <2>1, <2>3, Zenon DEF JoinInv
<1>5. ASSUME queue # <<>>, normalizeJoinAddr(target) \notin seen,
             seen' = seen \cup {normalizeJoinAddr(target)}
      PROVE  JoinInv'
  <2>1. seen' \subseteq Addr
    BY <1>1, <1>3, <1>5, Zenon DEF JoinTypeOK
  <2>2. ASSUME NEW e \in BOOLEAN, NEW h \in Seq(Addr), NEW m \in BOOLEAN,
               AfterAnswer(Answer(e, h, m)), member' = m, found' \in {"yes", "no", "unknown"}
        PROVE  JoinTypeOK'
    <3>1. phase' \in {"joining", "up"} /\ cache' \in Seq(Addr) /\ queue' \in Seq(Addr)
      <4>0. /\ phase = "joining" /\ cache \in Seq(Addr) /\ queue \in Seq(Addr)
            /\ Tail(queue) \in Seq(Addr)
        BY <1>1, <1>3, <1>5, Zenon DEF JoinTypeOK
      <4>1. CASE e = TRUE
        <5>1. AfterAnswer(Answer(TRUE, h, m))
          BY <2>2, <4>1, Zenon
        <5>2. /\ UNCHANGED <<phase, cache>>
              /\ queue' = Tail(queue) \/ queue' = h \o Tail(queue)
          BY <5>1, AnswerRefuses, Zenon
        <5>3. h \o Tail(queue) \in Seq(Addr)
          BY <4>0
        <5> QED
          BY <4>0, <5>2, <5>3, Zenon
      <4>2. CASE e = FALSE
        <5>1. AfterAnswer(Answer(FALSE, h, m))
          BY <2>2, <4>2, Zenon
        <5>2. phase' = "up" /\ cache' = h /\ queue' = queue
          BY <5>1, AnswerAccepts, Zenon
        <5> QED
          BY <4>0, <5>2, Zenon
      <4> QED
        BY <4>1, <4>2, Zenon
    <3> QED
      BY <1>1, <2>1, <2>2, <3>1, Zenon DEF JoinTypeOK
  <2>3. ASSUME NEW e \in BOOLEAN, NEW h, NEW m
        PROVE  Answer(e, h, m).member = m
    BY Zenon DEF Answer
  <2>4. CASE AfterAnswer(handleJoin(target)) /\ member' = handleJoin(target).member /\ found' = found
    <3>1. CASE Usable(target) /\ target.server = leader /\ leader # NoServer
      <4>1. handleJoin(target) = Answer(FALSE, <<target>>, TRUE)
        BY <3>1, Zenon DEF handleJoin, Usable
      <4>2. phase' = "up" /\ member' = TRUE
        BY <2>3, <2>4, <4>1, AnswerAccepts, Zenon
      <4>3. <<target>> \in Seq(Addr) /\ found' \in {"yes", "no", "unknown"}
        BY <1>1, <1>3, <1>5, <2>4 DEF JoinTypeOK
      <4>4. JoinTypeOK'
        BY <2>2, <2>4, <4>1, <4>2, <4>3, Zenon
      <4> QED
        BY <4>2, <4>4, Zenon DEF JoinInv, LeaderAhead, NoLeaderAhead
    <3>2. CASE ~(Usable(target) /\ target.server = leader /\ leader # NoServer)
      <4>1. handleJoin(target) = Answer(TRUE, <<>>, member)
        BY <3>2, Zenon DEF handleJoin, Refusal, Usable
      <4>2. queue' = Tail(queue) /\ UNCHANGED <<phase, cache>> /\ member' = member
        BY <2>3, <2>4, <4>1, AnswerRefuses, ZenonT(60)
      <4>3. <<>> \in Seq(Addr) /\ found' \in {"yes", "no", "unknown"} /\ member \in BOOLEAN
        BY <1>1, <2>4 DEF JoinTypeOK
      <4>4. JoinTypeOK'
        BY <2>2, <2>4, <4>1, <4>2, <4>3, ZenonT(60)
      <4>5. ASSUME found = "yes"
            PROVE  ~NamesLeader(target) /\ Http(leader) \notin seen'
        <5>1. /\ leader # NoServer /\ Http(leader) \notin seen
              /\ \A i \in DOMAIN queue : NamesLeader(queue[i]) => Usable(queue[i])
          BY <1>1, <4>5, Zenon DEF JoinInv, LeaderAhead
        <5>2. 1 \in DOMAIN queue /\ queue[1] = target
          BY <1>1, <1>5 DEF JoinTypeOK
        <5>3. ~NamesLeader(target)
          BY <3>2, <5>1, <5>2, Zenon DEF NamesLeader
        <5>4. normalizeJoinAddr(target) # Http(leader)
          BY <1>3, <1>5, <5>3, NormalizedAddr, Zenon
        <5> QED
          BY <1>1, <1>5, <5>1, <5>3, <5>4, Zenon
      <4>6. LeaderAhead' /\ NoLeaderAhead'
        BY <1>1, <1>5, <2>4, <4>2, <4>5, TailKeeps, Zenon
      <4> QED
        BY <4>4, <4>6, Zenon DEF JoinInv
    <3> QED
      BY <3>1, <3>2, Zenon
  <2>5. ASSUME Trouble, NEW answer \in TroubledJoin(target), AfterAnswer(answer),
               member' = answer.member
        PROVE  JoinInv'
    <3>1. PICK h \in Seq(Addr), m \in BOOLEAN : answer = Answer(TRUE, h, m)
      <4>1. NoHost \in Addr /\ member \in BOOLEAN
        BY <1>1, Zenon DEF JoinTypeOK, NoHost, Http, Plain, Addr
      <4>2. <<>> \in Seq(Addr) /\ <<NoHost>> \in Seq(Addr)
        BY <4>1
      <4> QED
        BY <2>5, <4>1, <4>2, Zenon DEF TroubledJoin, Refusal
    <3>2. found' = "unknown" /\ found' \in {"yes", "no", "unknown"} /\ member' = m
      BY <2>3, <2>5, <3>1, Zenon DEF Trouble
    <3>3. JoinTypeOK'
      BY <2>2, <2>5, <3>1, <3>2, ZenonT(60)
    <3> QED
      BY <3>2, <3>3, Zenon DEF JoinInv, LeaderAhead, NoLeaderAhead
  <2> QED
    BY <1>5, <2>4, <2>5, Zenon DEF join
<1> QED
  BY <1>2, <1>4, <1>5, Zenon DEF join


\* Only a turn of the loop takes a node from joining to up or failed.
LEMMA OtherSteps ==
  ASSUME JoinNext, phase = "joining", phase' \in {"up", "failed"}
  PROVE  join
<1>1. ~(\E addrs \in Configs : NewNode(addrs))
  BY Zenon DEF NewNode
<1>2. ~(HearsLeader \/ leaderWatchLoop \/ LeaderChanges \/ Ends)
  BY Zenon DEF HearsLeader, leaderWatchLoop, LeaderChanges, Ends
<1> QED
  BY <1>1, <1>2, Zenon DEF JoinNext

\* The first spelling of the HTTP address of the leader decides a join without
\* trouble, both ways: for every set of servers, all addresses that the node may be
\* given, and whatever other addresses are in front of it (collectJoinTargets, join
\* and buildJoinURL of pkg/cluster/node.go).
THEOREM JoinNeverMissesLeader == JoinSpec => JoinFindsLeader
<1>1. JoinInit => JoinInv
  <2> SUFFICES ASSUME JoinInit PROVE JoinInv
    BY Zenon
  <2>1. JoinTypeOK
    <3>1. <<>> \in Seq(Addr)
      OBVIOUS
    <3> QED
      BY <3>1, Zenon DEF JoinInit, JoinTypeOK
  <2>2. LeaderAhead /\ NoLeaderAhead
    BY Zenon DEF JoinInit, LeaderAhead, NoLeaderAhead
  <2> QED
    BY <2>1, <2>2, Zenon DEF JoinInv
<1>2. JoinInv /\ [JoinNext]_joinVars => JoinInv'
  <2> SUFFICES ASSUME JoinInv, [JoinNext]_joinVars PROVE JoinInv'
    BY Zenon
  <2>1. CASE HearsLeader
    BY <2>1, Zenon DEF HearsLeader, JoinInv, JoinTypeOK, LeaderAhead, NoLeaderAhead, NamesLeader
  <2>2. CASE leaderWatchLoop
    <3>1. RaftAddr(leader) \in Addr
      BY Zenon DEF JoinInv, JoinTypeOK, RaftAddr, Plain, Addr
    <3>2. <<RaftAddr(leader)>> \in Seq(Addr)
      BY <3>1
    <3>3. UNCHANGED <<phase, hasState, queue, seen, leader, member, found>>
          /\ cache' = <<RaftAddr(leader)>> /\ last' = cache'
      BY <2>2, Zenon DEF leaderWatchLoop
    <3> QED
      BY <3>2, <3>3, Zenon DEF JoinInv, JoinTypeOK, LeaderAhead, NoLeaderAhead, NamesLeader
  <2>3. CASE LeaderChanges
    BY <2>3, Zenon DEF LeaderChanges, Trouble, JoinInv, JoinTypeOK, LeaderAhead,
                         NoLeaderAhead
  <2>4. CASE Ends
    <3>0. found' = "unknown" \/ found' = found
      BY <2>4, Zenon DEF Ends, Trouble
    <3>1. found' \in {"yes", "no", "unknown"}
      <4>1. CASE found' = "unknown"
        BY <4>1, Zenon
      <4>2. CASE found' = found
        BY <4>2, Zenon DEF JoinInv, JoinTypeOK
      <4> QED
        BY <3>0, <4>1, <4>2, Zenon
    <3>2. /\ phase' = "down" /\ queue' = <<>> /\ seen' = {}
          /\ UNCHANGED <<hasState, cache, last, leader, member>>
      BY <2>4, Zenon DEF Ends
    <3>3. <<>> \in Seq(Addr)
      OBVIOUS
    <3> QED
      BY <3>1, <3>2, <3>3, Zenon DEF JoinInv, JoinTypeOK, LeaderAhead, NoLeaderAhead
  <2>5. CASE UNCHANGED joinVars
    BY <2>5, Zenon DEF joinVars, JoinInv, JoinTypeOK, LeaderAhead, NoLeaderAhead, NamesLeader
  <2> QED
    BY <2>1, <2>2, <2>3, <2>4, <2>5, NewNodeKeeps, JoinTurnKeeps, Zenon DEF JoinNext
<1>3. ASSUME JoinInv, JoinNext, phase = "joining", phase' = "failed"
      PROVE  found # "yes"
  <2>1. join
    BY <1>3, OtherSteps, Zenon
  <2>2. queue = <<>>
    BY <1>3, <2>1, Zenon DEF join, AfterAnswer
  <2> QED
    BY <1>3, <2>2 DEF JoinInv, LeaderAhead
<1>4. ASSUME JoinInv, JoinNext, phase = "joining", phase' = "up"
      PROVE  found # "no"
  <2> DEFINE target == Head(queue)
  <2>1. join
    BY <1>4, OtherSteps, Zenon
  <2>2. queue # <<>> /\ handleJoin(target).err = FALSE
    <3>1. ASSUME NEW answer \in TroubledJoin(target)
          PROVE  answer.err = TRUE
      <4>1. \A h, m : Answer(TRUE, h, m).err = TRUE
        BY Zenon DEF Answer
      <4> QED
        BY <3>1, <4>1, Zenon DEF TroubledJoin, Refusal
    <3>2. ASSUME NEW answer, AfterAnswer(answer)
          PROVE  ~(answer.err = TRUE)
      BY <1>4, <3>2, Zenon DEF AfterAnswer
    <3>3. handleJoin(target).err \in BOOLEAN
      BY Zenon DEF handleJoin, Refusal, Answer
    <3> QED
      BY <1>4, <2>1, <3>1, <3>2, <3>3, Zenon DEF join
  <2>3. Usable(target) /\ target.server = leader /\ leader # NoServer
    BY <2>2, Zenon DEF handleJoin, Refusal, Answer, Usable
  <2>4. target.port = "http"
    BY <2>3, Zenon DEF Usable, Serves, buildJoinURL
  <2>5. 1 \in DOMAIN queue /\ queue[1] = target
    BY <1>4, <2>2 DEF JoinInv, JoinTypeOK
  <2> QED
    BY <1>4, <2>3, <2>4, <2>5, Zenon DEF JoinInv, NoLeaderAhead, NamesLeader
<1>5. JoinInv /\ [JoinNext]_joinVars =>
        [phase = "joining" => /\ phase' = "failed" => found # "yes"
                              /\ phase' = "up" => found # "no"]_joinVars
  BY <1>3, <1>4, Zenon
<1> QED
  BY <1>1, <1>2, <1>5, PTL DEF JoinSpec, JoinFindsLeader
=============================================================================
