------------------------------ MODULE Session ------------------------------
(***************************************************************************)
(* What one connection does with its bytes: HandleEvent, HandleRead,       *)
(* ProcessInput, HandleWrite and Close (src/connection.cpp), the           *)
(* incremental parser (RespParser, src/resp.cpp), and the edge-triggered   *)
(* events of epoll between the client and the loop (src/poller.cpp).       *)
(*                                                                         *)
(* The client's bytes are tokens: a request is a "head" and its "arg", or  *)
(* a "line" (an inline command); "empty" is *0, "blank" an empty line and  *)
(* "badhead" a header no number follows.  A reply is the position of its   *)
(* request in the stream, and an error reply is 0.  Sizes count tokens and *)
(* replies; a reply is sent whole.                                         *)
(***************************************************************************)
EXTENDS Integers, Sequences, SequencesExt

CONSTANTS
    Streams,    \* what the client may send
    Room,       \* replies the socket takes before EAGAIN
    OutLimit,   \* kMaxOutputBuffer
    QueryLimit, \* kMaxQueryBuffer
    Resets,     \* whether the client may vanish
    Closes,     \* whether the server may call Close()
    MaxAnswers  \* bound: the answers the client reads

Token == {"head", "arg", "line", "empty", "blank", "badhead"}

ASSUME SessionAssumption ==
    /\ Streams \subseteq Seq(Token)
    /\ Room \in Nat \ {0} /\ OutLimit \in Nat \ {0} /\ QueryLimit \in Nat \ {0}
    /\ Resets \in BOOLEAN /\ Closes \in BOOLEAN /\ MaxAnswers \in Nat

VARIABLES
    stream,   \* what this client sends
    sent,     \* tokens the client has sent
    fin,      \* the client has sent its FIN
    gone,     \* the client has reset the connection
    received, \* replies the client has read
    kernel,   \* replies in the socket's send buffer
    edge,     \* epoll has an event to report
    read,     \* tokens appended to the parser's buffer
    pos,      \* the parser's cursor
    output,   \* output_
    writable, \* registered_events_ has kEventWritable
    closing,  \* close_after_write_
    closed,   \* closed_
    pc,       \* where the loop is
    event,    \* the events being handled
    eof,      \* recv has returned 0
    then      \* where HandleWrite returns to

client == <<stream, sent, fin, gone, received>>
parser == <<read, pos>>
flow == <<event, eof, then>>
vars == <<client, kernel, edge, parser, output, writable, closing, closed, pc, flow>>

-----------------------------------------------------------------------------
(* The socket. *)

\* What epoll_wait reports when writing is, or is not, registered.
Ready(w) ==
    {e \in {"in", "out", "hup"} :
        \/ e = "in" /\ (sent > read \/ fin \/ gone)
        \/ e = "out" /\ w /\ (Len(kernel) < Room \/ gone)
        \/ e = "hup" /\ (fin \/ gone)}

\* epoll_ctl(MOD) reports again whatever is ready.
Modify(w) ==
    /\ writable' = w
    /\ edge' = (edge \/ (writable # w /\ Ready(w) # {}))

-----------------------------------------------------------------------------
(* The client. *)

Send ==
    /\ ~fin /\ ~gone /\ sent < Len(stream)
    /\ sent' = sent + 1 /\ edge' = TRUE
    /\ UNCHANGED <<stream, fin, gone, received, kernel, parser, output, writable,
                   closing, closed, pc, flow>>

Finish ==
    /\ ~fin /\ ~gone
    /\ fin' = TRUE /\ edge' = TRUE
    /\ UNCHANGED <<stream, sent, gone, received, kernel, parser, output, writable,
                   closing, closed, pc, flow>>

Reset ==
    /\ Resets /\ ~gone
    /\ gone' = TRUE /\ edge' = TRUE
    /\ UNCHANGED <<stream, sent, fin, received, kernel, parser, output, writable,
                   closing, closed, pc, flow>>

\* Room in the send buffer is an event only while writing is registered.
Receive ==
    /\ ~gone /\ kernel # <<>> /\ Len(received) < MaxAnswers
    /\ received' = Append(received, Head(kernel)) /\ kernel' = Tail(kernel)
    /\ edge' = (edge \/ writable)
    /\ UNCHANGED <<stream, sent, fin, gone, parser, output, writable, closing,
                   closed, pc, flow>>

-----------------------------------------------------------------------------
(* The loop. *)

\* MarkClosed; nothing is done after it.
MarkClosed == closed' = TRUE /\ pc' = "wait"

\* HandleEvent: read when there is something to read, a hang-up or not.
HandleEvent ==
    /\ pc = "wait" /\ ~closed /\ edge
    /\ edge' = FALSE /\ event' = Ready(writable) /\ eof' = FALSE
    /\ pc' = IF "in" \in event' THEN "read" ELSE IF "out" \in event' THEN "write" ELSE "wait"
    /\ then' = "wait"
    /\ UNCHANGED <<client, kernel, parser, output, writable, closing, closed>>

\* Mutant: one recv per event, although events are edge-triggered.
RecvOnce ==
    /\ pc = "read" /\ ~gone /\ sent > read
    /\ \E n \in read + 1 .. sent : read' = n
    /\ pc' = "parse"
    /\ UNCHANGED <<client, kernel, edge, pos, output, writable, closing, closed,
                   flow>>

\* HandleRead: recv until there is nothing left,
Recv ==
    /\ pc = "read" /\ ~gone /\ sent > read
    /\ \E n \in read + 1 .. sent : read' = n
    /\ UNCHANGED <<client, kernel, edge, pos, output, writable, closing, closed,
                   pc, flow>>

RecvFails ==
    /\ pc = "read" /\ gone
    /\ MarkClosed
    /\ UNCHANGED <<client, kernel, edge, parser, output, writable, closing, flow>>

\* ... or EAGAIN or the FIN ends it; too much unparsed is an error.
RecvEnds ==
    /\ pc = "read" /\ ~gone /\ sent = read
    /\ eof' = fin
    /\ IF ~fin /\ read - pos > QueryLimit
       THEN /\ output' = Append(output, 0) /\ closing' = TRUE
            /\ pc' = "write" /\ then' = "after"
       ELSE pc' = "parse" /\ UNCHANGED <<output, closing, then>>
    /\ UNCHANGED <<client, kernel, edge, parser, writable, closed, event>>

-----------------------------------------------------------------------------
(* The parser: what RespParser::Next makes of the tokens it has. *)

At(p) == IF p < read THEN stream[p + 1] ELSE "none"

Incomplete == At(pos) = "none" \/ (At(pos) = "head" /\ At(pos + 1) = "none")
Malformed == At(pos) = "badhead" \/ (At(pos) = "head" /\ At(pos + 1) \notin {"arg", "none"})
Complete == ~Incomplete /\ ~Malformed /\ At(pos) \notin {"empty", "blank"}

\* Mutant: the header stays consumed when the rest is missing.
ParseIncompleteKeeps ==
    /\ pc = "parse" /\ Incomplete
    /\ pos' = IF At(pos) = "head" THEN pos + 1 ELSE pos
    /\ pc' = "parsed"
    /\ UNCHANGED <<client, kernel, edge, read, output, writable, closing, closed, flow>>

\* Next returns false: the cursor is back where it was.
ParseIncomplete ==
    /\ pc = "parse" /\ Incomplete
    /\ pc' = "parsed"
    /\ UNCHANGED <<client, kernel, edge, parser, output, writable, closing, closed, flow>>

\* Next returns false for a blank line too, which it has consumed.
ParseBlank ==
    /\ pc = "parse" /\ At(pos) = "blank"
    /\ pos' = pos + 1 /\ pc' = "parsed"
    /\ UNCHANGED <<client, kernel, edge, read, output, writable, closing, closed, flow>>

ParseEmpty ==
    /\ pc = "parse" /\ At(pos) = "empty"
    /\ pos' = pos + 1
    /\ UNCHANGED <<client, kernel, edge, read, output, writable, closing, closed, pc, flow>>

\* Next throws; the header of a request with a bad argument stays consumed.
ParseMalformed ==
    /\ pc = "parse" /\ Malformed
    /\ pos' = IF At(pos) = "head" THEN pos + 1 ELSE pos
    /\ output' = Append(output, 0) /\ closing' = TRUE
    /\ pc' = "parsed"
    /\ UNCHANGED <<client, kernel, edge, read, writable, closed, flow>>

\* Mutant: an inline command takes one token too many.
ExecuteSkips ==
    /\ pc = "parse" /\ Complete
    /\ output' = Append(output, pos + 1)
    /\ pos' = pos + 2
    /\ UNCHANGED <<client, kernel, edge, read, writable, closing, closed, pc, flow>>

\* A request is executed and its reply queued, until there are too many.
Execute ==
    /\ pc = "parse" /\ Complete
    /\ output' = Append(output, pos + 1)
    /\ pos' = IF At(pos) = "head" THEN pos + 2 ELSE pos + 1
    /\ IF Len(output') > OutLimit
       THEN closing' = TRUE /\ pc' = "parsed"
       ELSE UNCHANGED <<closing, pc>>
    /\ UNCHANGED <<client, kernel, edge, read, writable, closed, flow>>

\* Mutant: the FIN closes at once.
ParsedAtFin ==
    /\ pc = "parsed"
    /\ IF eof THEN MarkClosed ELSE pc' = "write" /\ UNCHANGED closed
    /\ then' = "after"
    /\ UNCHANGED <<client, kernel, edge, parser, output, writable, closing, event, eof>>

\* ProcessInput returns to HandleRead.
Parsed ==
    /\ pc = "parsed"
    /\ IF output # <<>>
       THEN /\ pc' = "write" /\ then' = "after"
            /\ closing' = (closing \/ eof) /\ UNCHANGED closed
       ELSE /\ IF eof THEN MarkClosed ELSE pc' = "after" /\ UNCHANGED closed
            /\ UNCHANGED <<closing, then>>
    /\ UNCHANGED <<client, kernel, edge, parser, output, writable, event, eof>>

\* HandleRead returns to HandleEvent.
After ==
    /\ pc = "after"
    /\ IF "hup" \in event
       THEN IF output # <<>>
            THEN closing' = TRUE /\ pc' = "write" /\ then' = "wait" /\ UNCHANGED closed
            ELSE MarkClosed /\ UNCHANGED <<closing, then>>
       ELSE /\ pc' = IF "out" \in event THEN "write" ELSE "wait"
            /\ then' = "wait" /\ UNCHANGED <<closing, closed>>
    /\ UNCHANGED <<client, kernel, edge, parser, output, writable, event, eof>>

-----------------------------------------------------------------------------
(* HandleWrite. *)

Write ==
    /\ pc = "write" /\ ~gone /\ output # <<>> /\ Len(kernel) < Room
    /\ kernel' = Append(kernel, Head(output)) /\ output' = Tail(output)
    /\ UNCHANGED <<client, edge, parser, writable, closing, closed, pc, flow>>

\* Mutant: EPOLLOUT is not registered.
WriteBlockedSilently ==
    /\ pc = "write" /\ ~gone /\ output # <<>> /\ Len(kernel) = Room
    /\ pc' = then
    /\ UNCHANGED <<client, kernel, edge, parser, output, writable, closing, closed, flow>>

\* EAGAIN: EnableWriteIfNeeded.
WriteBlocked ==
    /\ pc = "write" /\ ~gone /\ output # <<>> /\ Len(kernel) = Room
    /\ pc' = "enable"
    /\ UNCHANGED <<client, kernel, edge, parser, output, writable, closing, closed, flow>>

Enable ==
    /\ pc = "enable"
    /\ Modify(TRUE)
    /\ pc' = then
    /\ UNCHANGED <<client, kernel, parser, output, closing, closed, flow>>

WriteFails ==
    /\ pc = "write" /\ gone /\ output # <<>>
    /\ MarkClosed
    /\ UNCHANGED <<client, kernel, edge, parser, output, writable, closing, flow>>

\* All sent: DisableWriteIfIdle, and close when told to.
Written ==
    /\ pc = "write" /\ output = <<>>
    /\ Modify(FALSE)
    /\ IF closing THEN MarkClosed ELSE pc' = then /\ UNCHANGED closed
    /\ UNCHANGED <<client, kernel, parser, output, closing, flow>>

\* A posted Close().
Close ==
    /\ Closes /\ pc = "wait" /\ ~closed
    /\ IF output # <<>>
       THEN closing' = TRUE /\ pc' = "write" /\ then' = "wait" /\ UNCHANGED closed
       ELSE MarkClosed /\ UNCHANGED <<closing, then>>
    /\ UNCHANGED <<client, kernel, edge, parser, output, writable, event, eof>>

-----------------------------------------------------------------------------
Init ==
    /\ stream \in Streams
    /\ sent = 0 /\ fin = FALSE /\ gone = FALSE /\ received = <<>>
    /\ kernel = <<>> /\ edge = FALSE /\ read = 0 /\ pos = 0 /\ output = <<>>
    /\ writable = FALSE /\ closing = FALSE /\ closed = FALSE
    /\ pc = "wait" /\ event = {} /\ eof = FALSE /\ then = "wait"

LoopStep ==
    \/ HandleEvent \/ Recv \/ RecvFails \/ RecvEnds
    \/ ParseIncomplete \/ ParseBlank \/ ParseEmpty \/ ParseMalformed \/ Execute
    \/ Parsed \/ After
    \/ Write \/ WriteBlocked \/ Enable \/ WriteFails \/ Written

Next == Send \/ Finish \/ Reset \/ Receive \/ LoopStep \/ Close

Spec == Init /\ [][Next]_vars

\* The loop handles what epoll reports, and the client reads its replies.
FairSpec == Spec /\ WF_vars(LoopStep) /\ WF_vars(Receive)

-----------------------------------------------------------------------------
(* What the client is owed. *)

\* What is owed for the first n tokens from any of them on, an error ending it.
Owed(n) ==
    LET f[p \in 0 .. n] ==
            IF p = n THEN <<>>
            ELSE CASE stream[p + 1] \in {"line", "arg"} -> <<p + 1>> \o f[p + 1]
                   [] stream[p + 1] \in {"empty", "blank"} -> f[p + 1]
                   [] stream[p + 1] = "badhead" -> <<0>>
                   [] stream[p + 1] = "head" ->
                        IF p + 1 = n THEN <<>>
                        ELSE IF stream[p + 2] = "arg" THEN <<p + 1>> \o f[p + 2]
                        ELSE <<0>>
    IN  f

Replies(n) == Owed(n)[0]

Reply == 0 .. Len(stream)

Answers == received \o kernel \o output

TypeOK ==
    /\ stream \in Streams /\ sent \in 0 .. Len(stream)
    /\ read \in 0 .. sent /\ pos \in 0 .. read
    /\ fin \in BOOLEAN /\ gone \in BOOLEAN /\ edge \in BOOLEAN /\ writable \in BOOLEAN
    /\ closing \in BOOLEAN /\ closed \in BOOLEAN /\ eof \in BOOLEAN
    /\ received \in Seq(Reply) /\ output \in Seq(Reply)
    /\ kernel \in Seq(Reply) /\ Len(kernel) <= Room
    /\ pc \in {"wait", "read", "parse", "parsed", "after", "write", "enable"}
    /\ then \in {"wait", "after"} /\ event \subseteq {"in", "out", "hup"}

\* The answers before the first error: what follows a protocol error is not
\* accounted for, the code goes on parsing there (connection.cpp:167).
Sound ==
    LET errors == {i \in DOMAIN Answers : Answers[i] = 0}
    IN  IF errors = {} THEN Answers
        ELSE SubSeq(Answers, 1, (CHOOSE i \in errors : \A j \in errors : i <= j) - 1)

\* Pipelined requests are answered one for one and in order, however their
\* bytes arrive and the replies leave, until an error is answered.
InOrder == IsPrefix(Sound, Replies(read))

\* The loop is woken by EPOLLOUT exactly while there is output left: it neither
\* spins on a socket it has nothing for, nor forgets one it has.
WriteInterest == (pc = "wait" /\ ~closed) => (writable <=> output # <<>>)

\* A client that shuts down its sending side after requests that are not
\* malformed and not too many gets every answer before the connection is closed,
\* posted Close or not.  A blank line hides what follows it (resp.cpp:360).
HalfClose ==
    (closed /\ eof /\ ~gone /\ 0 \notin Range(Answers)
            /\ (\A i \in 1 .. sent - 1 : stream[i] # "blank")
            /\ Len(Replies(sent)) <= OutLimit)
        => Answers = Replies(sent) /\ output = <<>>

\* The parser has gone past every blank line in front of token p: when it has just
\* taken one, Next returned false and what follows it waits for more to come
\* (resp.cpp:360).
PastBlanks(p) ==
    \A q \in 1 .. p - 1 : q >= pos => stream[q] # "blank"

\* A complete request is answered, or the connection closed, however requests and
\* replies are cut: but for the requests behind a blank line, which Next takes for
\* want of bytes, and which wait for the next bytes of the client.
Answered ==
    \A s \in Streams : \A p \in 1 .. Len(s) :
        (stream = s /\ p \in Range(Replies(sent)) /\ PastBlanks(p))
            ~> (p \in Range(received) \/ closed)
=============================================================================
