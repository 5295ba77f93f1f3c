------------------------------ MODULE Sessions ------------------------------
(***************************************************************************)
(* The server and its sessions (pkg/server/server.go and handler.go): for  *)
(* every connection Handle, the goroutine of RESP.ParseStream that sends   *)
(* it what it has parsed over a channel without a buffer, and the          *)
(* goroutine that closes the connection on a signal. What the parser makes *)
(* of bytes is in module Parser; here a client sends frames that are an    *)
(* array (a command), other data or not readable.                          *)
(***************************************************************************)
EXTENDS Integers, Sequences

CONSTANTS
  Session,     \* connections that clients may open
  MaxFrames    \* bound: MaxFrames[c] frames are sent over c

VARIABLES
  main,      \* Start: accepting, draining or stopped
  signal,    \* the context is done
  listener,  \* the listener is open
  sent,      \* sent[c]: what the client of c has sent
  read,      \* read[c]: how much of it the parser has read
  gone,      \* gone[c]: the client has closed its end
  conn,      \* conn[c]: none, open or closed by the server
  parser,    \* parser[c]: reading, closed, or what is about to be sent
  handle,    \* handle[c]: none, waiting, executing, writing or left
  watcher,   \* watcher[c]: whether the goroutine for the signal runs
  command,   \* command[c]: the number of the frame that Handle works on
  executed,  \* executed[c]: the commands executed (their numbers)
  replied,   \* replied[c]: those whose reply was written
  lastErr    \* lastErr[c]: why Handle has left

sessionVars == <<main, signal, listener, sent, read, gone, conn, parser, handle,
                 watcher, command, executed, replied, lastErr>>
clientVars == <<sent, gone>>
handleVars == <<conn, handle, command, executed, replied, lastErr>>

Frame == {"array", "other", "unreadable"}

SessionsInit ==
  /\ main = "accepting" /\ signal = FALSE /\ listener = TRUE
  /\ sent = [c \in Session |-> <<>>] /\ read = [c \in Session |-> 0]
  /\ gone = [c \in Session |-> FALSE] /\ conn = [c \in Session |-> "none"]
  /\ parser = [c \in Session |-> "reading"] /\ handle = [c \in Session |-> "none"]
  /\ watcher = [c \in Session |-> FALSE]
  /\ command = [c \in Session |-> 0]
  /\ executed = [c \in Session |-> <<>>] /\ replied = [c \in Session |-> <<>>]
  /\ lastErr = [c \in Session |-> "none"]

-----------------------------------------------------------------------------
(* Clients and Start *)

ClientSends(c, frame) ==
  /\ conn[c] # "none" /\ ~gone[c] /\ Len(sent[c]) < MaxFrames[c]
  /\ sent' = [sent EXCEPT ![c] = Append(@, frame)]
  /\ UNCHANGED <<main, signal, listener, read, gone, parser, watcher, handleVars>>

ClientCloses(c) ==
  /\ conn[c] # "none" /\ ~gone[c] /\ gone' = [gone EXCEPT ![c] = TRUE]
  /\ UNCHANGED <<main, signal, listener, sent, read, parser, watcher, handleVars>>

Signal ==
  /\ ~signal /\ signal' = TRUE
  /\ UNCHANGED <<main, listener, read, parser, watcher, clientVars, handleVars>>

CloseListener ==
  /\ signal /\ listener /\ listener' = FALSE
  /\ UNCHANGED <<main, signal, read, parser, watcher, clientVars, handleVars>>

\* Accept, and the goroutines of the connection start.
Accept(c) ==
  /\ main = "accepting" /\ listener /\ conn[c] = "none"
  /\ conn' = [conn EXCEPT ![c] = "open"] /\ handle' = [handle EXCEPT ![c] = "waiting"]
  /\ watcher' = [watcher EXCEPT ![c] = TRUE]
  /\ UNCHANGED <<main, signal, listener, read, parser, clientVars, command, executed, replied, lastErr>>

\* Accept fails: the loop ends when the listener is closed. Then stop() and wg.Wait().
StopAccepting ==
  /\ main = "accepting" /\ ~listener /\ main' = "draining" /\ signal' = TRUE
  /\ UNCHANGED <<listener, read, parser, watcher, clientVars, handleVars>>

Stop ==
  /\ main = "draining" /\ \A c \in Session : handle[c] \in {"none", "left"}
  /\ main' = "stopped"
  /\ UNCHANGED <<signal, listener, read, parser, watcher, clientVars, handleVars>>

-----------------------------------------------------------------------------
(* The goroutines of a connection *)

\* Wrong: the goroutine ends, but the connection stays open.
WatchIgnores(c) ==
  /\ watcher[c] /\ (signal \/ handle[c] = "left") /\ watcher' = [watcher EXCEPT ![c] = FALSE]
  /\ UNCHANGED <<main, signal, listener, read, parser, clientVars, handleVars>>

\* The select of the goroutine in Handle: the signal, or Handle has left.
Watch(c) ==
  /\ watcher[c] /\ watcher' = [watcher EXCEPT ![c] = FALSE]
  /\ \/ signal /\ conn' = [conn EXCEPT ![c] = "closed"]
     \/ handle[c] = "left" /\ UNCHANGED conn
  /\ UNCHANGED <<main, signal, listener, read, parser, clientVars, handle, command, executed,
                 replied, lastErr>>

\* After EOF the parser closes the channel and ends; after other errors it goes on.
AfterSend(what) == IF what = "eof" THEN "closed" ELSE "reading"

\* The parser has read a frame, what it had in its buffer included, or an error.
Parse(c) ==
  /\ handle[c] # "none" /\ parser[c] = "reading"
  /\ \/ /\ read[c] < Len(sent[c]) /\ read' = [read EXCEPT ![c] = @ + 1]
        /\ LET frame == sent[c][read[c] + 1] IN
           parser' = [parser EXCEPT ![c] = IF frame = "unreadable" THEN "error" ELSE frame]
     \/ /\ read[c] = Len(sent[c]) /\ gone[c] /\ conn[c] = "open"
        /\ parser' = [parser EXCEPT ![c] = "eof"] /\ UNCHANGED read
     \/ /\ conn[c] = "closed" \/ gone[c]   \* closed here, or reset by the client
        /\ parser' = [parser EXCEPT ![c] = "error"] /\ UNCHANGED read
  /\ UNCHANGED <<main, signal, listener, watcher, clientVars, handleVars>>

\* Handle leaves the loop; the deferred function closes the connection.
Leave(c, why) ==
  /\ handle' = [handle EXCEPT ![c] = "left"] /\ conn' = [conn EXCEPT ![c] = "closed"]
  /\ lastErr' = [lastErr EXCEPT ![c] = why]

\* Wrong: an error is logged and the loop goes on.
ReceiveGoesOn(c) ==
  /\ handle[c] = "waiting" /\ parser[c] \notin {"reading", "closed"}
  /\ parser' = [parser EXCEPT ![c] = AfterSend(@)] /\ command' = [command EXCEPT ![c] = read[c]]
  /\ handle' = [handle EXCEPT ![c] = IF parser[c] = "array" THEN "executing" ELSE @]
  /\ UNCHANGED <<main, signal, listener, read, watcher, clientVars, executed, replied, conn, lastErr>>

\* The parser and Handle meet at the channel.
Receive(c) ==
  /\ handle[c] = "waiting" /\ parser[c] \notin {"reading", "closed"}
  /\ parser' = [parser EXCEPT ![c] = AfterSend(@)] /\ command' = [command EXCEPT ![c] = read[c]]
  /\ \/ parser[c] \in {"eof", "error"} /\ Leave(c, parser[c])
     \/ parser[c] = "other" /\ UNCHANGED <<conn, handle, lastErr>>
     \/ /\ parser[c] = "array" /\ handle' = [handle EXCEPT ![c] = "executing"]
        /\ UNCHANGED <<conn, lastErr>>
  /\ UNCHANGED <<main, signal, listener, read, watcher, clientVars, executed, replied>>

\* ApplyCommand or ReadCommand; a panic is recovered and ends the session.
Execute(c) ==
  /\ handle[c] = "executing"
  /\ \/ /\ handle' = [handle EXCEPT ![c] = "writing"]
        /\ executed' = [executed EXCEPT ![c] = Append(@, command[c])] /\ UNCHANGED <<conn, lastErr>>
     \/ Leave(c, "panic") /\ UNCHANGED executed
  /\ UNCHANGED <<main, signal, listener, read, parser, watcher, clientVars, command, replied>>

\* The reply is written, which may take for ever when the client does not read,
\* unless the connection is closed.
Write(c) ==
  /\ handle[c] = "writing"
  /\ \/ /\ conn[c] = "open" /\ handle' = [handle EXCEPT ![c] = "waiting"]
        /\ replied' = [replied EXCEPT ![c] = Append(@, command[c])] /\ UNCHANGED <<conn, lastErr>>
     \/ (conn[c] = "closed" \/ gone[c]) /\ Leave(c, "write") /\ UNCHANGED replied
  /\ UNCHANGED <<main, signal, listener, read, parser, watcher, clientVars, command, executed>>

SessionsNext ==
  \/ Signal \/ CloseListener \/ StopAccepting \/ Stop
  \/ \E c \in Session :
       \/ Accept(c) \/ ClientCloses(c) \/ \E frame \in Frame : ClientSends(c, frame)
       \/ Watch(c) \/ Parse(c) \/ Receive(c) \/ Execute(c) \/ Write(c)

\* The goroutines run, commands end, and a write ends when it cannot succeed any more.
SessionsFairness ==
  /\ WF_sessionVars(CloseListener) /\ WF_sessionVars(StopAccepting) /\ WF_sessionVars(Stop)
  /\ \A c \in Session :
       /\ WF_sessionVars(Watch(c)) /\ WF_sessionVars(Parse(c)) /\ WF_sessionVars(Receive(c))
       /\ WF_sessionVars(Execute(c))
       /\ WF_sessionVars(Write(c) /\ (conn[c] = "closed" \/ gone[c]))

SessionsSpec == SessionsInit /\ [][SessionsNext]_sessionVars /\ SessionsFairness

-----------------------------------------------------------------------------
(* Properties *)

\* The numbers of the commands that the client of c has sent in front of the
\* first frame that cannot be read.
Commands(c) ==
  {n \in DOMAIN sent[c] :
     sent[c][n] = "array" /\ \A m \in 1 .. n : sent[c][m] # "unreadable"}

Executed(c) == {executed[c][i] : i \in DOMAIN executed[c]}

\* Commands of a client are executed in the order in which they were sent, each
\* once, none left out and none after a frame that cannot be read, and their replies
\* are written in the same order: those of all commands executed but perhaps the
\* last one. So it is while the parser reads ahead, and when the connection is
\* closed under it.
RepliesInOrder ==
  \A c \in Session :
    /\ \A i, j \in DOMAIN executed[c] : i < j => executed[c][i] < executed[c][j]
    /\ Executed(c) \subseteq Commands(c)
    /\ \A n \in Executed(c), m \in Commands(c) : m < n => m \in Executed(c)
    /\ Len(replied[c]) \in {Len(executed[c]) - 1, Len(executed[c])}
    /\ \A i \in DOMAIN replied[c] : replied[c][i] = executed[c][i]
    /\ handle[c] = "waiting" => Len(replied[c]) = Len(executed[c])

\* A session ends after its client has closed the connection, and after the
\* signal, also when Handle waits for a frame or for a client that does not read.
\* Commands are assumed to end, which one that waits for a leaked lock does not
\* (set.go:525).
SessionsEnd ==
  \A c \in Session : (handle[c] # "none" /\ (gone[c] \/ signal)) ~> handle[c] = "left"

\* After the signal the server stops: no session and no late connection keeps
\* wg.Wait from returning.
ServerStops == signal ~> main = "stopped"
=============================================================================
