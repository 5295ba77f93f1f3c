------------------------------- MODULE Parser -------------------------------
(***************************************************************************)
(* The parser goroutine of pkg/RESP/parsestream.go on a stream of bytes    *)
(* that ends anywhere: at the end of what the client meant to send, or in  *)
(* the middle because the connection was closed. The client's frames are   *)
(* encoded with the ToBytes methods, or are lines the parser refuses.      *)
(* A turn of the loop of parse is one step. Commands hold no nested        *)
(* arrays, and blank lines are not sent (parseSingleLine slices out of     *)
(* range on them).                                                         *)
(***************************************************************************)
EXTENDS Integers, Sequences

CONSTANTS
  Streams,     \* the sequences of frames that clients send
  MaxNumber    \* bound: the numbers in frames are at most this, one digit

VARIABLES
  frames,      \* history: the frames the client sends
  cut,         \* history: how many bytes of them arrive
  input,       \* bytes not read yet
  rs,          \* readState
  sent         \* what was sent to the channel; after Eof it is closed

parserVars == <<frames, cut, input, rs, sent>>

LF == 10
CR == 13
CRLF == <<CR, LF>>
Ascii(n) == IF n < 0 THEN <<45, 48 - n>> ELSE <<48 + n>>

BulkData(s)   == [kind |-> "bulk", data |-> s]
StringData(s) == [kind |-> "string", data |-> s]
ErrorData(s)  == [kind |-> "error", data |-> s]
PlainData(s)  == [kind |-> "plain", data |-> s]
IntData(n)    == [kind |-> "int", data |-> n]
ArrayData(s)  == [kind |-> "array", data |-> s]
NullBulk  == [kind |-> "nullbulk"]
NullArray == [kind |-> "nullarray"]
\* A line that does not parse, and what is sent for it.
Bad(s) == [kind |-> "bad", data |-> s]
Err == [kind |-> "err"]
Eof == [kind |-> "eof"]

RECURSIVE Flat(_)
Flat(ss) == IF ss = <<>> THEN <<>> ELSE Head(ss) \o Flat(Tail(ss))

RECURSIVE ToBytes(_)
ToBytes(d) ==
  CASE d.kind = "bulk"      -> <<36>> \o Ascii(Len(d.data)) \o CRLF \o d.data \o CRLF
    [] d.kind = "nullbulk"  -> <<36>> \o Ascii(-1) \o CRLF
    [] d.kind = "string"    -> <<43>> \o d.data \o CRLF
    [] d.kind = "error"     -> <<45>> \o d.data \o CRLF
    [] d.kind = "plain"     -> d.data \o CRLF
    [] d.kind = "int"       -> <<58>> \o Ascii(d.data) \o CRLF
    [] d.kind = "nullarray" -> <<42>> \o Ascii(-1) \o CRLF
    [] d.kind = "array"     -> <<42>> \o Ascii(Len(d.data)) \o CRLF
                                 \o Flat([i \in DOMAIN d.data |-> ToBytes(d.data[i])])
    [] d.kind = "bad"       -> d.data

\* strconv.Atoi and ParseInt, of one digit.
Number == {Ascii(n) : n \in -MaxNumber .. MaxNumber}
Atoi(s) == CHOOSE n \in -MaxNumber .. MaxNumber : Ascii(n) = s

NewState == [bulkLen |-> 0, arrayLen |-> 0, multiLine |-> FALSE, inArray |-> FALSE, data |-> <<>>]

\* Wrong: a bulk string is read up to the end of its line.
readLineBulkAsLine(in, bulk, n) ==
  LET ends == {i \in DOMAIN in : in[i] = LF} IN
  IF ends = {} THEN [msg |-> <<>>, err |-> "eof", rest |-> <<>>]
  ELSE LET i == CHOOSE i \in ends : \A j \in ends : i <= j
       IN [msg |-> SubSeq(in, 1, i), err |-> "no", rest |-> SubSeq(in, i + 1, Len(in))]

\* readLine: a bulk string with its CRLF, by its length, or a line up to LF.
readLine(in, bulk, n) ==
  LET ends  == {i \in DOMAIN in : in[i] = LF}
      size  == IF bulk THEN n + 2 ELSE CHOOSE i \in ends : \A j \in ends : i <= j
      msg   == SubSeq(in, 1, size)
      error(e) == [msg |-> <<>>, err |-> e, rest |-> <<>>]
  IN CASE bulk /\ in = <<>>           -> error("eof")
       [] bulk /\ Len(in) < size      -> error("protocol")
       [] ~bulk /\ ends = {}          -> error("eof")
       [] OTHER ->
            [msg |-> msg, rest |-> SubSeq(in, size + 1, Len(in)),
             err |-> IF msg[size] # LF \/ msg[size - 1] # CR THEN "protocol" ELSE "no"]

\* The text of a line, without its type and the CRLF.
Line(msg) == SubSeq(msg, 2, Len(msg) - 2)

parseSingleLine(msg) ==
  CASE msg[1] = 43 -> StringData(Line(msg))
    [] msg[1] = 45 -> ErrorData(Line(msg))
    [] msg[1] = 58 -> IF Line(msg) \in Number THEN IntData(Atoi(Line(msg))) ELSE Err
    [] OTHER       -> PlainData(Line(msg))  \* its first character is lost

-----------------------------------------------------------------------------
(* What a turn of the loop does: the next state and what is sent. *)

Send(d) == [rs |-> NewState, out |-> <<d>>]
Goes(state) == [rs |-> state, out |-> <<>>]

ArrayHeader(msg) ==
  LET n == Atoi(Line(msg)) IN
  IF Line(msg) \notin Number \/ n < -1 THEN Send(Err)
  ELSE IF n = -1 THEN Send(NullArray)
  ELSE IF n = 0 THEN Send(ArrayData(<<>>))
  ELSE Goes([rs EXCEPT !.arrayLen = n, !.inArray = TRUE, !.data = <<>>])

\* An element of the array, or a frame of its own.
Accept(state, d) ==
  LET data == Append(state.data, d) IN
  IF ~state.inArray THEN [rs |-> state, out |-> <<d>>]
  ELSE IF Len(data) = state.arrayLen THEN Send(ArrayData(data))
  ELSE Goes([state EXCEPT !.data = data])

BulkHeader(msg) ==
  LET n == Atoi(Line(msg)) IN
  IF Line(msg) \notin Number \/ n < -1 THEN Send(Err)
  ELSE IF n = -1 THEN Accept([rs EXCEPT !.bulkLen = 0], NullBulk)
  ELSE Goes([rs EXCEPT !.bulkLen = n, !.multiLine = TRUE])

Turn(line) ==
  IF line.err # "no" THEN Send(IF line.err = "eof" THEN Eof ELSE Err)
  ELSE IF rs.multiLine
  THEN Accept([rs EXCEPT !.multiLine = FALSE, !.bulkLen = 0],
              BulkData(SubSeq(line.msg, 1, Len(line.msg) - 2)))
  ELSE CASE line.msg[1] = 42 -> ArrayHeader(line.msg)
         [] line.msg[1] = 36 -> BulkHeader(line.msg)
         [] OTHER -> LET d == parseSingleLine(line.msg)
                     IN  IF d = Err THEN Send(Err) ELSE Accept(rs, d)

Closed == sent # <<>> /\ sent[Len(sent)] = Eof

ParseStep ==
  /\ ~Closed
  /\ LET line == readLine(input, rs.multiLine, rs.bulkLen)
         turn == Turn(line)
     IN /\ input' = line.rest
        /\ rs' = turn.rs
        /\ sent' = sent \o turn.out
  /\ UNCHANGED <<frames, cut>>

Encoded(fs) == Flat([i \in DOMAIN fs |-> ToBytes(fs[i])])

\* Some of the bytes that the client means to send arrive, then the stream ends.
ParserInit ==
  /\ frames \in Streams /\ cut \in 0 .. Len(Encoded(frames))
  /\ input = SubSeq(Encoded(frames), 1, cut)
  /\ rs = NewState /\ sent = <<>>

ParserSpec == ParserInit /\ [][ParseStep]_parserVars

-----------------------------------------------------------------------------
(* Properties *)

\* The frame as the receiver sees it: an inline command has lost its first
\* character.
Seen(d) ==
  CASE d.kind = "bad" -> Err
    [] d.kind = "plain" -> PlainData(Tail(d.data))
    [] OTHER -> d

\* The frames that have arrived as a whole.
Whole == {n \in 0 .. Len(frames) : Len(Encoded(SubSeq(frames, 1, n))) <= cut}

\* What the parser sends is what the client sent, frame by frame: bulk strings
\* are taken as they are, with any bytes in them; a refused line costs no other
\* frame; when the stream breaks inside a frame nothing of this frame is sent,
\* neither a shorter command nor a part of it as a command of its own, and the
\* channel is closed.
FramesKept ==
  Closed =>
    \E n \in Whole : \E end \in {<<Eof>>, <<Err, Eof>>} :
      /\ \A m \in Whole : m <= n
      /\ sent = [i \in 1 .. n |-> Seen(frames[i])] \o end
=============================================================================
