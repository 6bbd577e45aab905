--------------------------- MODULE HttpConnection ---------------------------
(***************************************************************************)
(* One connection of the server (server/app.py, _OneRequestProtocol): the  *)
(* transport delivers the client's bytes in chunks of any size,            *)
(* data_received() collects them until a request is complete, and a task   *)
(* of the event loop answers it.                                           *)
(*                                                                         *)
(* The client's bytes are numbered; what the protocol buffers is a range   *)
(* of them.  Only lengths and the ways in which a head can be malformed    *)
(* are kept of their contents.                                             *)
(***************************************************************************)
EXTENDS Integers, Sequences

CONSTANTS
  MaxHead,      \* bound: length of a head, its blank line included
  MaxLength,    \* bound: Content-Length
  MaxBytes,     \* bound: bytes sent by the client
  HeadLimit,    \* 65536: bytes buffered without the end of the head
  BodyLimit,    \* 64 MiB: bytes buffered without the end of the body
  Chunk         \* most bytes that one read of the transport delivers

ASSUME ConnectionAssumption ==
  {MaxHead, MaxLength, MaxBytes, HeadLimit, BodyLimit, Chunk} \subseteq Nat \ {0}

VARIABLES
  stream,       \* what the client sends: kind and length of the head, Content-Length, all bytes
  transport,    \* open, flushing (closed, with output pending), closed
  received,     \* bytes delivered by the transport
  start,        \* self._buffer holds the bytes start + 1 .. received
  headersDone,  \* self._headers_done
  expected,     \* self._content_length
  tasks,        \* the _respond tasks: the bytes each was given, and whether it has answered
  wire          \* the responses written: the number of a task, or 0 for an abort

connectionVars == <<stream, transport, received, start, headersDone, expected, tasks, wire>>

\* A head is well-formed, or its request line or its Content-Length is not.  A
\* well-formed Content-Length may be negative; a missing one counts as 0.
Kinds == {"ok", "bad line", "bad length"}

Streams ==
  [kind : Kinds, head : 1 .. MaxHead, length : -1 .. MaxLength, bytes : 0 .. MaxBytes]

TypeOK ==
  /\ stream \in Streams
  /\ transport \in {"open", "flushing", "closed"}
  /\ received \in 0 .. MaxBytes
  /\ start \in 0 .. received
  /\ headersDone \in BOOLEAN
  /\ expected \in 0 .. MaxLength
  /\ tasks \in Seq([from : Nat, to : Nat, answered : BOOLEAN])
  /\ wire \in Seq(Nat)

Init ==
  /\ stream \in Streams
  /\ transport = "open"
  /\ received = 0
  /\ start = 0
  /\ headersDone = FALSE
  /\ expected = 0
  /\ tasks = << >>
  /\ wire = << >>

----------------------------------------------------------------------------
\* _write_response(): write, then close.  The kernel takes the whole response
\* and the connection is gone, or some of it stays with the transport, which goes
\* on flushing and still accepts output.  A closed transport drops what is written.
Write(response) ==
  IF transport = "closed"
  THEN UNCHANGED <<transport, wire>>
  ELSE /\ wire' = Append(wire, response)
       /\ transport' \in IF transport = "open" THEN {"flushing", "closed"} ELSE {"flushing"}

AbortLeavesOpen == wire' = Append(wire, 0) /\ UNCHANGED transport      \* mutant
Abort == Write(0)
Proceed == UNCHANGED <<transport, wire>>

\* data_received(), as long as the head has not ended.
AwaitHead ==
  /\ ~headersDone
  /\ received' < stream.head
  /\ IF received' - start > HeadLimit THEN Abort ELSE Proceed
  /\ UNCHANGED <<start, headersDone, expected, tasks>>

\* data_received() with the bytes after `from` in the buffer and the head known.
BodyExceeded(from) == received' - from > expected'       \* mutant: off by one
BodyComplete(from) == received' - from >= expected'
TooLong(from) == ~BodyComplete(from) /\ received' - from > BodyLimit

KeepRest(from) == start' = from + expected'      \* mutant: the buffer is not cleared
DropRest(from) == start' = received'

Respond(from) == [from |-> from, to |-> from + expected', answered |-> FALSE]

DispatchEarly(from) ==                           \* mutant: the length is not awaited
  tasks' = Append(tasks, Respond(from)) /\ DropRest(from)
Dispatch(from) ==
  IF BodyComplete(from)
  THEN tasks' = Append(tasks, Respond(from)) /\ DropRest(from)
  ELSE start' = from /\ UNCHANGED tasks

\* _parse_head() and the rest of the call.  A malformed head aborts the
\* connection, and the call goes on as after a head without Content-Length.
Declared == IF stream.length < 0 THEN 0 ELSE stream.length

HeadEnds ==
  /\ ~headersDone
  /\ received' >= stream.head
  /\ headersDone' = TRUE
  /\ expected' = IF stream.kind = "ok" THEN Declared ELSE 0
  /\ IF stream.kind # "ok" \/ TooLong(stream.head) THEN Abort ELSE Proceed
  /\ Dispatch(stream.head)

MoreBody ==
  /\ headersDone
  /\ UNCHANGED <<headersDone, expected>>
  /\ IF TooLong(start) THEN Abort ELSE Proceed
  /\ Dispatch(start)

\* The transport reads until it is closed.
DataReceived(n) ==
  /\ transport = "open"
  /\ received + n <= stream.bytes
  /\ received' = received + n
  /\ AwaitHead \/ HeadEnds \/ MoreBody
  /\ UNCHANGED stream

\* _respond(): handle() has come to its answer.
AnswerAgain(i) == UNCHANGED tasks                \* mutant: a response may be sent twice
Answer(i) == tasks' = [tasks EXCEPT ![i].answered = TRUE]

Reply(i) ==
  /\ ~tasks[i].answered
  /\ Answer(i)
  /\ Write(i)
  /\ UNCHANGED <<stream, received, start, headersDone, expected>>

\* The transport has sent all that was written, or the client has left; the
\* tasks are not told.
Close ==
  /\ transport # "closed"
  /\ transport' = "closed"
  /\ UNCHANGED <<stream, received, start, headersDone, expected, tasks, wire>>

Quiet ==
  /\ transport = "closed"
  /\ \A i \in DOMAIN tasks : tasks[i].answered
  /\ UNCHANGED connectionVars

Next ==
  \/ \E n \in 1 .. Chunk : DataReceived(n)
  \/ \E i \in DOMAIN tasks : Reply(i)
  \/ Close
  \/ Quiet

\* handle() comes to an answer for every task (for predictions: EveryRequestAnswered
\* of PredictServer).  Clients need not send, and may leave.
Fairness == \A i \in 1 .. MaxBytes : WF_connectionVars(i \in DOMAIN tasks /\ Reply(i))

Spec == Init /\ [][Next]_connectionVars
FairSpec == Spec /\ Fairness

----------------------------------------------------------------------------
\* The first request handled has exactly the bytes that the head announced,
\* however the chunks were cut, and no byte is in the body of two requests.
WholeBodies ==
  \A i \in DOMAIN tasks :
    /\ tasks[i].to <= received
    /\ i = 1 => tasks[i].from = stream.head
    /\ tasks[i].to - tasks[i].from = IF stream.kind = "ok" THEN Declared ELSE 0
    /\ \A j \in 1 .. i - 1 : tasks[j].to <= tasks[i].from

\* A connection that is open buffers no more than the limit of what it awaits.
BufferBounded ==
  transport = "open" =>
    received - start <= IF headersDone THEN BodyLimit ELSE HeadLimit

\* A well-formed request is handled once and answered once at most, and each byte that
\* comes in after it costs at most one more handling and one more response (app.py:222).
Surplus ==
  IF received > stream.head + Declared THEN received - (stream.head + Declared) ELSE 0
OneForOne == stream.kind = "ok" => Len(tasks) <= 1 + Surplus /\ Len(wire) <= 1 + Surplus

\* An abort goes out before anything else, and a connection with a malformed
\* head handles one request at most, though the client sends on.
AbortIsFirst ==
  /\ \A k \in DOMAIN wire : wire[k] = 0 => k = 1
  /\ stream.kind # "ok" => Len(tasks) <= 1

\* Once the head and the announced body have come in, the client is answered, if
\* it stays, whatever else it sends.
CompleteIsAnswered ==
  (headersDone /\ received >= stream.head + expected) ~> (wire # << >> \/ transport = "closed")

\* What app.py:10 says: each connection serves exactly one request.  TLC refutes it as an
\* invariant of MCHttpConnection.cfg (see OneForOne for what holds).
OneRequest == Len(tasks) <= 1
=============================================================================
