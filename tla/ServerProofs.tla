----------------------------- MODULE ServerProofs -----------------------------
(***************************************************************************)
(* The server around the objects that SharedObjectProofs is about.         *)
(*                                                                         *)
(* First its connections (HttpConnection): what one of them does with the  *)
(* bytes it is given, for heads, bodies, limits and chunks of any size.    *)
(*                                                                         *)
(* Then its predictions (PredictServer), for any number of requests,       *)
(* aliases, workers and any capacity and timeout: how long a request can   *)
(* stay open, that what SharedObjectProofs shows of the executor and of    *)
(* the registry holds of the server, and that predictions use the Agent    *)
(* that get() returned.                                                    *)
(*                                                                         *)
(* Spec is the specification of one connection, ServerSpec the server's.   *)
(***************************************************************************)
EXTENDS PredictServer, HttpConnection, SequenceTheorems, FiniteSetTheorems, TLAPS

\* The Content-Length that the connection works with once the head has ended.
Announced == IF stream.kind = "ok" THEN Declared ELSE 0

\* Where the buffer begins, before and after the end of the head.
HeadInv ==
  /\ ~headersDone => start = 0 /\ tasks = << >>
  /\ headersDone => stream.head <= start /\ expected = Announced
  /\ headersDone /\ tasks = << >> => start = stream.head
  /\ stream.kind # "ok" /\ headersDone => transport # "open" /\ Len(tasks) <= 1

\* The requests handled so far: their bytes, in order, and all before the buffer.
TaskInv ==
  \A i \in 1 .. Len(tasks) :
    /\ tasks[i].to <= start
    /\ i = 1 => tasks[i].from = stream.head
    /\ tasks[i].to = tasks[i].from + Announced
    /\ \A j \in 1 .. i - 1 : tasks[j].to <= tasks[i].from

\* Nothing is written to a connection that goes on reading, so an abort comes first.
WireInv ==
  /\ transport = "open" => wire = << >>
  /\ \A k \in 1 .. Len(wire) : wire[k] = 0 => k = 1

\* Each response is an abort or the answer of a task, and none is written twice.
WroteInv ==
  \A k \in 1 .. Len(wire) :
    /\ wire[k] \in 0 .. Len(tasks)
    /\ wire[k] > 0 => tasks[wire[k]].answered
    /\ \A l \in 1 .. k - 1 : wire[l] # wire[k]

\* Every task but the first has taken a byte of its own from the buffer, and an abort
\* that follows a request is due to a byte that is still there.
SurplusInv ==
  stream.kind = "ok" /\ tasks # << >> =>
    /\ Len(tasks) + stream.head + Declared <= start + 1
    /\ wire # << >> /\ wire[1] = 0 => start < received

Inv == TypeOK /\ HeadInv /\ TaskInv /\ WireInv /\ WroteInv /\ SurplusInv /\ BufferBounded

----------------------------------------------------------------------------
\* The range of the constants and of the stream, as the steps below use it.
LEMMA Numbers ==
  ASSUME TypeOK
  PROVE  /\ stream.head \in Nat \ {0} /\ stream.bytes \in Nat /\ Declared \in 0 .. MaxLength
         /\ received \in Nat /\ start \in Nat /\ start <= received /\ expected \in Nat
         /\ Announced \in 0 .. MaxLength
         /\ {MaxHead, MaxLength, MaxBytes, HeadLimit, BodyLimit, Chunk} \subseteq Nat
         /\ Len(tasks) \in Nat /\ Len(wire) \in Nat
         /\ DOMAIN tasks = 1 .. Len(tasks) /\ DOMAIN wire = 1 .. Len(wire)
  BY ConnectionAssumption DEF TypeOK, Streams, Declared, Announced

\* Differences of numbers of bytes.
LEMMA AtMost ==
  \A a, b, c \in Nat :
    /\ a - a <= c
    /\ ~(a - b > c) => a - b <= c
  OBVIOUS

\* What writing does.
LEMMA Written ==
  ASSUME TypeOK, WireInv, NEW response \in Nat, Write(response),
         response = 0 => transport = "open"
  PROVE  /\ transport' \in {"flushing", "closed"}
         /\ wire' \in Seq(Nat)
         /\ WireInv'
         /\ \/ wire' = wire
            \/ /\ Len(wire') = Len(wire) + 1 /\ wire'[Len(wire) + 1] = response
               /\ \A k \in 1 .. Len(wire) : wire'[k] = wire[k]
<1>1. wire \in Seq(Nat) /\ transport \in {"open", "flushing", "closed"}
  BY DEF TypeOK
<1>2. CASE transport = "closed"
  BY <1>1, <1>2 DEF Write, WireInv
<1>3. CASE transport # "closed"
  <2>1. wire' = Append(wire, response) /\ transport' \in {"flushing", "closed"}
    BY <1>3 DEF Write
  <2>2. /\ wire' \in Seq(Nat) /\ Len(wire') = Len(wire) + 1
        /\ \A k \in 1 .. Len(wire) : wire'[k] = wire[k]
        /\ wire'[Len(wire) + 1] = response
    BY <1>1, <2>1
  <2>3. response = 0 => wire = << >>
    BY DEF WireInv
  <2>4. \A k \in 1 .. Len(wire') : wire'[k] = 0 => k = 1
    <3>1. ASSUME NEW k \in 1 .. Len(wire'), wire'[k] = 0 PROVE k = 1
      <4>1. CASE k = Len(wire) + 1
        BY <1>1, <2>2, <2>3, <3>1, <4>1
      <4>2. CASE k # Len(wire) + 1
        <5>1. k \in 1 .. Len(wire)
          BY <1>1, <2>2, <4>2
        <5> QED
          BY <2>2, <3>1, <5>1 DEF WireInv
      <4> QED
        BY <4>1, <4>2
    <3> QED
      BY <3>1
  <2> QED
    BY <1>1, <2>1, <2>2, <2>4 DEF WireInv
<1> QED
  BY <1>2, <1>3

\* The first response of a connection.
LEMMA FirstWritten ==
  ASSUME NEW w \in Seq(Nat), w = << >> \/ (Len(w) = 1 /\ w[1] = 0)
  PROVE  /\ Len(w) \in Nat
         /\ \A k \in 1 .. Len(w) : w[k] = 0 /\ 1 .. k - 1 = {}
  OBVIOUS

LEMMA NotWritten ==
  ASSUME TypeOK, WireInv, Proceed
  PROVE  transport' = transport /\ wire' = wire /\ wire' \in Seq(Nat) /\ WireInv'
  BY DEF TypeOK, WireInv, Proceed

\* A request is handled from the byte `from` on: it joins the others.
LEMMA Dispatched ==
  ASSUME TypeOK, TaskInv, NEW from \in Nat, received' \in Nat, received <= received',
         start <= from, from <= received',
         tasks = << >> => from = stream.head, expected' = Announced, stream' = stream,
         Dispatch(from)
  PROVE  /\ tasks' \in Seq([from : Nat, to : Nat, answered : BOOLEAN])
         /\ start' \in 0 .. received' /\ from <= start'
         /\ TaskInv'
         /\ BodyComplete(from) =>
              Len(tasks') = Len(tasks) + 1 /\ start' = received' /\ from + Announced <= received'
              /\ tasks'[Len(tasks) + 1].answered = FALSE
         /\ ~BodyComplete(from) => tasks' = tasks /\ start' = from
<1>1. Announced' = Announced /\ Announced \in Nat
  BY Numbers DEF Announced, Declared
<1>2. tasks \in Seq([from : Nat, to : Nat, answered : BOOLEAN]) /\ start \in Nat
  BY Numbers DEF TypeOK
<1> DEFINE T == [from : Nat, to : Nat, answered : BOOLEAN]
<1>3. tasks \in Seq(T)
  BY <1>2
<1> HIDE DEF T
<1>4. ASSUME NEW i \in 1 .. Len(tasks) PROVE tasks[i].to \in Nat
  <2>1. tasks[i] \in T
    BY <1>3
  <2> QED
    BY <2>1 DEF T
<1>5. CASE ~BodyComplete(from)
  <2>1. tasks' = tasks /\ start' = from
    BY <1>5 DEF Dispatch
  <2>2. TaskInv'
    <3>1. ASSUME NEW i \in 1 .. Len(tasks) PROVE tasks[i].to <= start'
      BY <1>4, <1>2, <2>1 DEF TaskInv
    <3> QED
      BY <1>1, <2>1, <3>1 DEF TaskInv
  <2> QED
    BY <1>2, <1>5, <2>1, <2>2
<1>6. CASE BodyComplete(from)
  <2> DEFINE new == Respond(from)
  <2>1. tasks' = Append(tasks, new) /\ start' = received'
    BY <1>6 DEF Dispatch, DropRest
  <2>2. new = [from |-> from, to |-> from + Announced, answered |-> FALSE]
    BY DEF Respond
  <2>3. from + Announced <= received'
    <3>1. received' - from >= Announced
      BY <1>6 DEF BodyComplete
    <3>2. \A a, b, c \in Nat : a - b >= c => b + c <= a
      OBVIOUS
    <3> QED
      BY <1>1, <3>1, <3>2
  <2> HIDE DEF new
  <2>4. new \in [from : Nat, to : Nat, answered : BOOLEAN]
    BY <1>1, <2>2
  <2>5. /\ tasks' \in Seq([from : Nat, to : Nat, answered : BOOLEAN])
        /\ Len(tasks') = Len(tasks) + 1
        /\ \A i \in 1 .. Len(tasks) : tasks'[i] = tasks[i]
        /\ tasks'[Len(tasks) + 1] = new
    BY <1>2, <2>1, <2>4
  <2>6. TaskInv'
    <3>1. ASSUME NEW i \in 1 .. Len(tasks')
          PROVE  /\ tasks'[i].to <= start'
                 /\ i = 1 => tasks'[i].from = stream.head
                 /\ tasks'[i].to = tasks'[i].from + Announced
                 /\ \A j \in 1 .. i - 1 : tasks'[j].to <= tasks'[i].from
      <4>1. CASE i = Len(tasks) + 1
        <5>1. i = 1 => tasks = << >>
          BY <1>2, <4>1
        <5>2. \A j \in 1 .. i - 1 : tasks'[j].to <= start /\ tasks'[j].to \in Nat
          <6>1. 1 .. i - 1 = 1 .. Len(tasks)
            BY <1>2, <4>1
          <6> QED
            BY <1>4, <2>5, <6>1 DEF TaskInv
        <5>3. \A j \in 1 .. i - 1 : tasks'[j].to <= from
          BY <1>2, <5>2
        <5> QED
          BY <2>1, <2>2, <2>3, <2>5, <4>1, <5>1, <5>3
      <4>2. CASE i # Len(tasks) + 1
        <5>1. i \in 1 .. Len(tasks) /\ 1 .. i - 1 \subseteq 1 .. Len(tasks)
          BY <1>2, <2>5, <4>2
        <5>2. tasks[i].to <= start /\ tasks[i].to \in Nat
          BY <1>4, <5>1 DEF TaskInv
        <5>3. tasks[i].to <= start'
          BY <1>2, <2>1, <5>2
        <5> QED
          BY <2>5, <5>1, <5>3 DEF TaskInv
      <4> QED
        BY <4>1, <4>2
    <3> QED
      BY <1>1, <3>1 DEF TaskInv
  <2> QED
    BY <1>6, <2>1, <2>2, <2>3, <2>5, <2>6
<1> QED
  BY <1>5, <1>6

----------------------------------------------------------------------------
\* A call of data_received() that has the head: `from` is where the body begins, and
\* the connection is aborted if that is due.
LEMMA Handled ==
  ASSUME Inv, transport = "open", received' \in Nat, received < received',
         received' <= stream.bytes, stream' = stream,
         headersDone' = TRUE, expected' = Announced,
         NEW from \in Nat, start <= from, from <= received', stream.head <= from,
         tasks = << >> => from = stream.head,
         Dispatch(from),
         NEW due \in BOOLEAN, stream.kind # "ok" => due, due => stream.kind # "ok" \/ TooLong(from),
         TooLong(from) => due,
         IF due THEN Abort ELSE Proceed
  PROVE  Inv'
<1>1. TypeOK /\ HeadInv /\ TaskInv /\ WireInv /\ WroteInv /\ SurplusInv
  BY DEF Inv
<1>2. /\ stream \in Streams /\ stream.bytes \in 0 .. MaxBytes /\ Announced \in 0 .. MaxLength
      /\ Announced' = Announced /\ wire = << >> /\ Len(tasks) \in Nat
      /\ stream.head \in Nat /\ Declared \in Nat /\ received \in Nat
  BY <1>1, Numbers DEF TypeOK, Streams, Announced, Declared, WireInv
<1>3. /\ transport' \in {"open", "flushing", "closed"} /\ wire' \in Seq(Nat) /\ WireInv'
      /\ wire' = << >> \/ (Len(wire') = 1 /\ wire'[1] = 0)
      /\ due => transport' # "open"
      /\ ~due => wire' = << >>
  <2>1. CASE due
    <3>1. Write(0)
      BY <2>1 DEF Abort
    <3> QED
      BY <1>1, <1>2, <2>1, <3>1, Written
  <2>2. CASE ~due
    <3>1. Proceed
      BY <2>2
    <3>2. transport' = transport /\ wire' = wire /\ wire' \in Seq(Nat) /\ WireInv'
      BY <1>1, <3>1, NotWritten
    <3> QED
      BY <1>2, <2>2, <3>2
  <2> QED
    BY <2>1, <2>2
<1>4. /\ tasks' \in Seq([from : Nat, to : Nat, answered : BOOLEAN])
      /\ start' \in 0 .. received' /\ from <= start'
      /\ TaskInv'
      /\ BodyComplete(from) =>
           Len(tasks') = Len(tasks) + 1 /\ start' = received' /\ from + Announced <= received'
           /\ tasks'[Len(tasks) + 1].answered = FALSE
      /\ ~BodyComplete(from) => tasks' = tasks /\ start' = from
  <2>1. received <= received'
    BY <1>2
  <2> QED
    BY <1>1, <2>1, Dispatched, ZenonT(30)
<1>5. TypeOK'
  <2>1. received' \in 0 .. MaxBytes /\ expected' \in 0 .. MaxLength
    BY <1>2, ConnectionAssumption
  <2> QED
    BY <1>2, <1>3, <1>4, <2>1 DEF TypeOK
<1>6. stream.kind # "ok" => tasks = << >>
  BY <1>1 DEF HeadInv
<1>7. tasks' = << >> => ~BodyComplete(from) /\ tasks = << >>
  BY <1>2, <1>4
<1>8. HeadInv'
  <2>1. stream.head <= start'
    BY <1>2, <1>4
  <2>2. tasks' = << >> => start' = stream.head
    BY <1>4, <1>7
  <2>3. stream.kind # "ok" => transport' # "open" /\ Len(tasks') <= 1
    BY <1>3, <1>4, <1>6
  <2> QED
    BY <1>2, <2>1, <2>2, <2>3 DEF HeadInv
<1>9. SurplusInv'
  <2>1. Declared' = Declared /\ Len(tasks) \in Nat /\ start \in Nat /\ start <= received
    BY <1>1, Numbers DEF Declared
  <2> SUFFICES ASSUME stream.kind = "ok", tasks' # << >>
               PROVE  /\ Len(tasks') + stream.head + Declared <= start' + 1
                      /\ wire' # << >> /\ wire'[1] = 0 => start' < received'
    BY <2>1 DEF SurplusInv
  <2>2. Announced = Declared
    BY DEF Announced
  <2>3. tasks # << >> => Len(tasks) + stream.head + Declared <= start + 1
    BY <1>1 DEF SurplusInv
  <2>4. CASE BodyComplete(from)
    <3>1. /\ Len(tasks') = Len(tasks) + 1 /\ start' = received'
          /\ from + Declared <= received'
      BY <1>4, <2>2, <2>4
    <3>2. wire' = << >>
      BY <1>3, <2>4 DEF TooLong
    <3>3. CASE tasks = << >>
      <4>1. Len(tasks) = 0 /\ from = stream.head
        BY <3>3
      <4> QED
        BY <1>2, <3>1, <3>2, <4>1
    <3>4. CASE tasks # << >>
      BY <1>2, <2>1, <2>3, <3>1, <3>2, <3>4
    <3> QED
      BY <3>3, <3>4
  <2>5. CASE ~BodyComplete(from)
    <3>1. tasks' = tasks /\ start' = from
      BY <1>4, <2>5
    <3>2. due => received' - from > BodyLimit
      BY DEF TooLong
    <3>3. due => from < received'
      BY <3>2, ConnectionAssumption
    <3> QED
      BY <1>2, <1>3, <2>1, <2>3, <3>1, <3>3
  <2> QED
    BY <2>4, <2>5
<1>11. WroteInv'
  <2>1. /\ Len(wire') \in Nat
        /\ \A k \in 1 .. Len(wire') : wire'[k] = 0 /\ 1 .. k - 1 = {}
    BY <1>3, FirstWritten
  <2>2. 0 \in 0 .. Len(tasks')
    BY <1>4
  <2> QED
    BY <2>1, <2>2 DEF WroteInv
<1>10. BufferBounded'
  <2> SUFFICES ASSUME transport' = "open" PROVE received' - start' <= BodyLimit
    BY DEF BufferBounded
  <2>1. BodyComplete(from) \/ ~(received' - from > BodyLimit)
    BY <1>3 DEF TooLong
  <2>2. BodyLimit \in Nat
    BY ConnectionAssumption
  <2>3. CASE BodyComplete(from)
    <3>1. start' = received'
      BY <1>4, <2>3
    <3>2. received' - received' <= BodyLimit
      BY <2>2, AtMost
    <3> QED
      BY <3>1, <3>2
  <2>4. CASE ~BodyComplete(from)
    <3>1. start' = from
      BY <1>4, <2>4
    <3>2. received' - from <= BodyLimit
      BY <2>1, <2>2, <2>4, AtMost
    <3> QED
      BY <3>1, <3>2
  <2> QED
    BY <2>3, <2>4
<1> QED
  BY <1>3, <1>4, <1>5, <1>8, <1>9, <1>10, <1>11 DEF Inv

LEMMA ReceiveKeeps ==
  ASSUME Inv, NEW n \in 1 .. Chunk, DataReceived(n)
  PROVE  Inv'
<1>1. TypeOK /\ HeadInv /\ TaskInv /\ WireInv /\ WroteInv /\ SurplusInv
  BY DEF Inv
<1>2. /\ received' \in Nat /\ received < received' /\ received' <= stream.bytes
      /\ transport = "open" /\ stream' = stream
  BY <1>1, Numbers DEF DataReceived
<1>3. /\ stream.head \in Nat /\ start \in Nat /\ start <= received /\ received \in Nat
      /\ stream.bytes \in 0 .. MaxBytes /\ HeadLimit \in Nat /\ MaxBytes \in Nat
  BY <1>1, Numbers DEF TypeOK, Streams
<1>4. CASE AwaitHead
  <2>1. start = 0 /\ tasks = << >> /\ UNCHANGED <<start, headersDone, expected, tasks>> /\ ~headersDone
    BY <1>1, <1>4 DEF AwaitHead, HeadInv
  <2>2. /\ transport' \in {"open", "flushing", "closed"} /\ wire' \in Seq(Nat) /\ WireInv'
        /\ wire' = << >> \/ (Len(wire') = 1 /\ wire'[1] = 0)
        /\ transport' = "open" => ~(received' - start > HeadLimit)
    <3>1. CASE received' - start > HeadLimit
      <4>1. Write(0) /\ wire = << >>
        BY <1>1, <1>2, <1>4, <3>1 DEF AwaitHead, Abort, WireInv
      <4> QED
        BY <1>1, <1>2, <4>1, Written
    <3>2. CASE ~(received' - start > HeadLimit)
      <4>1. Proceed /\ wire = << >>
        BY <1>1, <1>2, <1>4, <3>2 DEF AwaitHead, WireInv
      <4>2. transport' = transport /\ wire' = wire /\ wire' \in Seq(Nat) /\ WireInv'
        BY <1>1, <4>1, NotWritten
      <4> QED
        BY <1>2, <3>2, <4>1, <4>2
    <3> QED
      BY <3>1, <3>2
  <2>3. TypeOK'
    <3>1. received' \in 0 .. MaxBytes /\ start' \in 0 .. received'
      BY <1>2, <1>3, <2>1
    <3> QED
      BY <1>1, <1>2, <2>1, <2>2, <3>1 DEF TypeOK
  <2>4. HeadInv' /\ TaskInv'
    BY <2>1 DEF HeadInv, TaskInv
  <2>5. SurplusInv' /\ WroteInv'
    <3>1. \A k \in 1 .. Len(wire') : wire'[k] = 0 /\ 1 .. k - 1 = {}
      BY <2>2, FirstWritten
    <3>2. Len(tasks') \in Nat /\ tasks' = << >>
      BY <2>1
    <3> QED
      BY <3>1, <3>2 DEF SurplusInv, WroteInv
  <2>6. BufferBounded'
    <3> SUFFICES ASSUME transport' = "open" PROVE received' - start <= HeadLimit
      BY <2>1 DEF BufferBounded
    <3> QED
      BY <1>2, <1>3, <2>2, AtMost
  <2> QED
    BY <2>2, <2>3, <2>4, <2>5, <2>6 DEF Inv
<1>5. CASE HeadEnds
  <2> DEFINE due == stream.kind # "ok" \/ TooLong(stream.head)
  <2>1. start = 0 /\ tasks = << >>
    BY <1>1, <1>5 DEF HeadEnds, HeadInv
  <2>2. /\ headersDone' = TRUE /\ expected' = Announced /\ stream.head <= received'
        /\ Dispatch(stream.head) /\ IF due THEN Abort ELSE Proceed
    BY <1>3, <1>2, <1>5 DEF HeadEnds, Announced
  <2>3. start <= stream.head /\ stream.head <= stream.head
    BY <1>3, <2>1
  <2>4. due \in BOOLEAN
    BY DEF TooLong
  <2>5. /\ stream.kind # "ok" => due
        /\ due => stream.kind # "ok" \/ TooLong(stream.head)
        /\ TooLong(stream.head) => due
    BY Zenon
  <2> HIDE DEF due
  <2> QED
    BY <1>2, <1>3, <2>1, <2>2, <2>3, <2>4, <2>5, Handled
<1>6. CASE MoreBody
  <2> DEFINE due == TooLong(start)
  <2>1. /\ headersDone' = TRUE /\ expected' = Announced /\ stream.head <= start
        /\ tasks = << >> => start = stream.head
        /\ stream.kind = "ok"
    BY <1>1, <1>2, <1>6 DEF MoreBody, HeadInv, TypeOK
  <2>2. Dispatch(start) /\ IF due THEN Abort ELSE Proceed
    BY <1>6 DEF MoreBody
  <2>3. start <= start /\ start <= received'
    BY <1>2, <1>3
  <2>4. due \in BOOLEAN
    BY DEF TooLong
  <2>5. stream.kind # "ok" => due
    BY <2>1
  <2>6. (TooLong(start) => due) /\ (due => stream.kind # "ok" \/ TooLong(start))
    OBVIOUS
  <2> HIDE DEF due
  <2> QED
    BY <1>2, <1>3, <2>1, <2>2, <2>3, <2>4, <2>5, <2>6, Handled
<1> QED
  BY <1>4, <1>5, <1>6 DEF DataReceived

LEMMA ReplyKeeps ==
  ASSUME Inv, NEW i \in DOMAIN tasks, Reply(i)
  PROVE  Inv'
<1> DEFINE T == [from : Nat, to : Nat, answered : BOOLEAN]
<1>1. TypeOK /\ HeadInv /\ TaskInv /\ WireInv /\ WroteInv /\ SurplusInv
  BY DEF Inv
<1>2. i \in 1 .. Len(tasks) /\ Len(tasks) \in Nat /\ tasks \in Seq(T)
  BY <1>1, Numbers DEF TypeOK
<1>3. /\ transport' \in {"flushing", "closed"} /\ wire' \in Seq(Nat) /\ WireInv'
      /\ \/ wire' = wire
         \/ /\ Len(wire') = Len(wire) + 1 /\ wire'[Len(wire) + 1] = i
            /\ \A k \in 1 .. Len(wire) : wire'[k] = wire[k]
  BY <1>1, <1>2, Written DEF Reply
<1>4. tasks' = [tasks EXCEPT ![i].answered = TRUE]
  BY DEF Reply, Answer
<1>5. /\ tasks' \in Seq(T) /\ Len(tasks') = Len(tasks)
      /\ tasks'[i].answered = TRUE
      /\ \A j \in 1 .. Len(tasks) : tasks'[j].from = tasks[j].from /\ tasks'[j].to = tasks[j].to
  <2> HIDE DEF T
  <2>1. tasks[i] \in T
    BY <1>2
  <2> USE DEF T
  <2> DEFINE t == [tasks[i] EXCEPT !.answered = TRUE]
  <2>2. t \in T /\ t.from = tasks[i].from /\ t.to = tasks[i].to /\ t.answered = TRUE
    BY <2>1
  <2>3. tasks' = [tasks EXCEPT ![i] = t]
    BY <1>4
  <2> HIDE DEF t, T
  <2>4. tasks' \in Seq(T) /\ Len(tasks') = Len(tasks)
    BY <1>2, <2>2, <2>3
  <2>5. \A j \in 1 .. Len(tasks) : tasks'[j] = IF j = i THEN t ELSE tasks[j]
    BY <1>2, <2>3
  <2> QED
    BY <1>2, <2>2, <2>4, <2>5
<1>6. UNCHANGED <<stream, received, start, headersDone, expected>>
  BY DEF Reply
<1>7. TypeOK'
  BY <1>1, <1>3, <1>5, <1>6 DEF TypeOK
<1>8. HeadInv'
  <2>1. headersDone /\ tasks # << >> /\ tasks' # << >>
    BY <1>1, <1>2, <1>5 DEF HeadInv
  <2>2. Announced' = Announced
    BY <1>6 DEF Announced, Declared
  <2> QED
    BY <1>1, <1>3, <1>5, <1>6, <2>1, <2>2 DEF HeadInv
<1>9. TaskInv'
  <2>1. Announced' = Announced
    BY <1>6 DEF Announced, Declared
  <2>2. \A k \in 1 .. Len(tasks) : 1 .. k - 1 \subseteq 1 .. Len(tasks)
    BY <1>2
  <2> QED
    BY <1>1, <1>5, <1>6, <2>1, <2>2 DEF TaskInv
<1>10. SurplusInv'
  <2>1. Declared' = Declared /\ Len(wire) \in Nat
    BY <1>1, <1>6, Numbers DEF Declared
  <2>2. tasks # << >>
    BY <1>2
  <2>3. wire' # << >> /\ wire'[1] = 0 => wire # << >> /\ wire[1] = 0
    <3>1. CASE wire = << >>
      BY <1>2, <1>3, <3>1
    <3>2. CASE wire # << >>
      <4>1. 1 \in 1 .. Len(wire)
        BY <1>1, <3>2 DEF TypeOK
      <4> QED
        BY <1>3, <3>2, <4>1
    <3> QED
      BY <3>1, <3>2
  <2> QED
    BY <1>1, <1>5, <1>6, <2>1, <2>2, <2>3 DEF SurplusInv
<1>12. WroteInv'
  <2>1. ~tasks[i].answered /\ Len(wire) \in Nat
    BY <1>1, Numbers DEF Reply
  <2>2. \A j \in 1 .. Len(tasks) : tasks[j].answered => tasks'[j].answered
    <3> HIDE DEF T
    <3>1. \A j \in 1 .. Len(tasks) : j # i => tasks'[j] = tasks[j]
      BY <1>2, <1>4
    <3> QED
      BY <1>5, <3>1
  <2>3. \A k \in 1 .. Len(wire) : wire[k] # i
    BY <1>2, <2>1 DEF WroteInv, Inv
  <2>4. CASE wire' = wire
    <3>1. \A k \in 1 .. Len(wire) : wire[k] \in 0 .. Len(tasks) /\ \A l \in 1 .. k - 1 : wire[l] # wire[k]
      BY <1>1 DEF WroteInv
    <3>2. ASSUME NEW k \in 1 .. Len(wire), wire[k] > 0 PROVE tasks'[wire[k]].answered
      <4>1. wire[k] \in 1 .. Len(tasks)
        BY <1>2, <3>1, <3>2
      <4>2. tasks[wire[k]].answered
        BY <1>1, <3>2 DEF WroteInv
      <4> QED
        BY <2>2, <4>1, <4>2
    <3> QED
      BY <1>5, <2>4, <3>1, <3>2 DEF WroteInv
  <2>5. CASE /\ Len(wire') = Len(wire) + 1 /\ wire'[Len(wire) + 1] = i
             /\ \A k \in 1 .. Len(wire) : wire'[k] = wire[k]
    <3>1. ASSUME NEW k \in 1 .. Len(wire')
          PROVE  /\ wire'[k] \in 0 .. Len(tasks)
                 /\ wire'[k] > 0 => tasks'[wire'[k]].answered
                 /\ \A l \in 1 .. k - 1 : wire'[l] # wire'[k]
      <4>1. CASE k = Len(wire) + 1
        <5>1. wire'[k] = i /\ tasks'[i].answered
          BY <1>5, <2>5, <4>1
        <5>2. \A l \in 1 .. k - 1 : l \in 1 .. Len(wire)
          BY <2>1, <4>1
        <5>3. \A l \in 1 .. k - 1 : wire'[l] # i
          BY <2>3, <2>5, <5>2
        <5>4. i \in 0 .. Len(tasks)
          BY <1>2
        <5> QED
          BY <5>1, <5>3, <5>4
      <4>2. CASE k # Len(wire) + 1
        <5>1. k \in 1 .. Len(wire) /\ \A l \in 1 .. k - 1 : l \in 1 .. Len(wire)
          BY <2>1, <2>5, <4>2
        <5>2. /\ wire[k] \in 0 .. Len(tasks) /\ \A l \in 1 .. k - 1 : wire[l] # wire[k]
              /\ wire[k] > 0 => tasks[wire[k]].answered
          BY <1>1, <5>1 DEF WroteInv
        <5>3. wire[k] > 0 => wire[k] \in 1 .. Len(tasks)
          BY <1>2, <5>2
        <5> QED
          BY <2>2, <2>5, <5>1, <5>2, <5>3
      <4> QED
        BY <4>1, <4>2
    <3> QED
      BY <1>5, <3>1 DEF WroteInv
  <2> QED
    BY <1>3, <2>4, <2>5
<1>11. BufferBounded'
  BY <1>3 DEF BufferBounded
<1> QED
  BY <1>3, <1>7, <1>8, <1>9, <1>10, <1>11, <1>12 DEF Inv

----------------------------------------------------------------------------
LEMMA InvInit == Init => Inv
<1> SUFFICES ASSUME Init PROVE Inv
  OBVIOUS
<1>1. TypeOK
  <2>1. << >> \in Seq(Nat) /\ << >> \in Seq([from : Nat, to : Nat, answered : BOOLEAN])
    OBVIOUS
  <2>2. received \in 0 .. MaxBytes /\ start \in 0 .. received /\ expected \in 0 .. MaxLength
    BY ConnectionAssumption DEF Init
  <2> QED
    BY <2>1, <2>2 DEF Init, TypeOK
<1>2. HeadInv /\ TaskInv /\ WireInv /\ WroteInv /\ SurplusInv
  <2>1. Len(wire) = 0
    BY DEF Init
  <2> QED
    BY <2>1 DEF Init, HeadInv, TaskInv, WireInv, WroteInv, SurplusInv
<1>3. BufferBounded
  BY ConnectionAssumption DEF Init, BufferBounded
<1> QED
  BY <1>1, <1>2, <1>3 DEF Inv

LEMMA InvNext == Inv /\ [Next]_connectionVars => Inv'
<1> SUFFICES ASSUME Inv, [Next]_connectionVars PROVE Inv'
  OBVIOUS
<1>1. ASSUME NEW n \in 1 .. Chunk, DataReceived(n) PROVE Inv'
  BY <1>1, ReceiveKeeps
<1>2. ASSUME NEW i \in DOMAIN tasks, Reply(i) PROVE Inv'
  BY <1>2, ReplyKeeps
<1>3. CASE Close
  BY <1>3 DEF Close, Inv, TypeOK, HeadInv, TaskInv, WireInv, WroteInv, SurplusInv,
         BufferBounded, Announced, Declared
<1>4. CASE UNCHANGED connectionVars
  BY <1>4 DEF connectionVars, Inv, TypeOK, HeadInv, TaskInv, WireInv, WroteInv, SurplusInv,
         BufferBounded, Announced, Declared
<1> QED
  BY <1>1, <1>2, <1>3, <1>4 DEF Next, Quiet

THEOREM ConnectionInvariant == Spec => []Inv
BY InvInit, InvNext, PTL DEF Spec

\* Every variable of a connection keeps its range.
THEOREM ConnectionType == Spec => []TypeOK
<1>1. Inv => TypeOK
  BY DEF Inv
<1> QED
  BY <1>1, ConnectionInvariant, PTL

\* The first request handled has exactly the bytes that its head announced, and no byte
\* is in the body of two requests, however the chunks are cut.
THEOREM BodiesAreWhole == Spec => []WholeBodies
<1>1. Inv => WholeBodies
  <2> SUFFICES ASSUME Inv, NEW i \in 1 .. Len(tasks)
               PROVE  /\ tasks[i].to <= received
                      /\ i = 1 => tasks[i].from = stream.head
                      /\ tasks[i].to - tasks[i].from = Announced
                      /\ \A j \in 1 .. i - 1 : tasks[j].to <= tasks[i].from
    BY Numbers DEF WholeBodies, Inv, Announced
  <2>1. tasks[i].from \in Nat /\ tasks[i].to \in Nat
    <3> DEFINE T == [from : Nat, to : Nat, answered : BOOLEAN]
    <3>1. tasks \in Seq(T)
      BY DEF Inv, TypeOK
    <3> HIDE DEF T
    <3>2. tasks[i] \in T
      BY <3>1
    <3> QED
      BY <3>2 DEF T
  <2>2. start \in Nat /\ received \in Nat /\ start <= received /\ Announced \in Nat
    BY Numbers DEF Inv
  <2> HIDE DEF Announced
  <2> QED
    BY <2>1, <2>2 DEF Inv, TaskInv
<1> QED
  BY <1>1, ConnectionInvariant, PTL

\* A connection that is open buffers no more than the limit of what it awaits.
THEOREM BufferIsBounded == Spec => []BufferBounded
<1>1. Inv => BufferBounded
  BY DEF Inv
<1> QED
  BY <1>1, ConnectionInvariant, PTL

\* A sequence without repetition is no longer than the range of its numbers.
LEMMA Pigeonhole ==
  ASSUME NEW w \in Seq(Nat), NEW low \in 0 .. 1, NEW high \in Nat,
         \A k \in 1 .. Len(w) : w[k] \in low .. high /\ \A l \in 1 .. k - 1 : w[l] # w[k]
  PROVE  Len(w) <= high - low + 1
<1>1. Len(w) \in Nat /\ w \in [1 .. Len(w) -> low .. high]
  OBVIOUS
<1>2. \A k, l \in 1 .. Len(w) : w[k] = w[l] => k = l
  <2> SUFFICES ASSUME NEW k \in 1 .. Len(w), NEW l \in 1 .. Len(w), k < l PROVE w[k] # w[l]
    BY <1>1
  <2>1. k \in 1 .. l - 1
    OBVIOUS
  <2> QED
    BY <2>1
<1>3. w \in Injection(1 .. Len(w), low .. high)
  BY <1>1, <1>2 DEF Injection, IsInjective
<1>4. /\ IsFiniteSet(low .. high)
      /\ Cardinality(low .. high) = IF low > high THEN 0 ELSE high - low + 1
  BY FS_Interval
<1>5. Cardinality(1 .. Len(w)) <= Cardinality(low .. high)
  BY <1>3, <1>4, FS_Injection
<1>6. Cardinality(1 .. Len(w)) = Len(w)
  BY <1>1, FS_Interval
<1> QED
  BY <1>1, <1>4, <1>5, <1>6

\* A well-formed request is handled once and answered once at most; every byte after it
\* adds at most one handling and one response.
THEOREM OneAnswerForOne == Spec => []OneForOne
<1>1. Inv => OneForOne
  <2> SUFFICES ASSUME Inv, stream.kind = "ok"
               PROVE  Len(tasks) <= 1 + Surplus /\ Len(wire) <= 1 + Surplus
    BY DEF OneForOne
  <2>1. /\ wire \in Seq(Nat) /\ Len(tasks) \in Nat /\ Surplus \in Nat
        /\ stream.head \in Nat /\ Declared \in Nat /\ start \in Nat /\ start <= received
        /\ received \in Nat
    BY Numbers DEF Inv, TypeOK, Surplus
  <2>2. WroteInv /\ WireInv /\ SurplusInv
    BY DEF Inv
  <2>3. CASE tasks = << >>
    <3>1. Len(tasks) = 0
      BY <2>3
    <3>2. Len(wire) <= 0 - 0 + 1
      BY <2>1, <2>2, <3>1, Pigeonhole DEF WroteInv
    <3> QED
      BY <2>1, <3>1, <3>2
  <2>4. CASE tasks # << >> /\ wire # << >> /\ wire[1] = 0
    <3>1. Len(tasks) + stream.head + Declared <= start + 1 /\ start < received
      BY <2>2, <2>4 DEF SurplusInv
    <3>2. Len(wire) <= Len(tasks) - 0 + 1
      BY <2>1, <2>2, Pigeonhole DEF WroteInv
    <3> QED
      BY <2>1, <3>1, <3>2 DEF Surplus
  <2>5. CASE tasks # << >> /\ ~(wire # << >> /\ wire[1] = 0)
    <3>1. Len(tasks) + stream.head + Declared <= start + 1
      BY <2>2, <2>5 DEF SurplusInv
    <3>2. \A k \in 1 .. Len(wire) : wire[k] \in 1 .. Len(tasks)
      <4>1. \A k \in 1 .. Len(wire) : wire[k] # 0
        BY <2>1, <2>2, <2>5 DEF WireInv
      <4> QED
        BY <2>1, <2>2, <4>1 DEF WroteInv
    <3>3. Len(wire) <= Len(tasks) - 1 + 1
      BY <2>1, <2>2, <3>2, Pigeonhole DEF WroteInv
    <3> QED
      BY <2>1, <3>1, <3>3 DEF Surplus
  <2> QED
    BY <2>3, <2>4, <2>5
<1> QED
  BY <1>1, ConnectionInvariant, PTL

\* An abort goes out before anything else, and after a malformed head one request is
\* handled at most.
THEOREM AbortComesFirst == Spec => []AbortIsFirst
<1>1. Inv => AbortIsFirst
  <2> SUFFICES ASSUME Inv PROVE AbortIsFirst
    OBVIOUS
  <2>1. DOMAIN wire = 1 .. Len(wire)
    BY DEF Inv, TypeOK
  <2>2. stream.kind # "ok" => Len(tasks) <= 1
    BY DEF Inv, HeadInv, TypeOK
  <2> QED
    BY <2>1, <2>2 DEF Inv, WireInv, AbortIsFirst
<1> QED
  BY <1>1, ConnectionInvariant, PTL

----------------------------------------------------------------------------
\* Predictions: the clocks of a request.

\* The clocks of a request.  Before its second submit() it has been open for at
\* most the time it has waited, after it for at most one timeout more.
ClockInv ==
  \A r \in Requests :
    /\ waited[r] \in 0 .. Timeout
    /\ age[r] \in Nat
    /\ caller[Predict(r)] # "idle" => caller[Load(r)] = "returned"
    /\ caller[Predict(r)] = "idle" => age[r] <= waited[r]
    /\ age[r] <= Timeout + waited[r]

DomainInv ==
  /\ caller \in [Jobs -> Exec!CallerStates]
  /\ future \in [Jobs -> Exec!FutureStates]
  /\ waited \in [Requests -> Nat]
  /\ age \in [Requests -> Nat]

TimeInv == ClockInv /\ DomainInv

LEMMA JobFacts ==
  ASSUME NEW r \in Requests
  PROVE /\ Load(r) \in Jobs /\ Predict(r) \in Jobs
        /\ \A s \in Requests : Load(r) # Predict(s)
        /\ \A s \in Requests : (Load(r) = Load(s) \/ Predict(r) = Predict(s)) => r = s
  BY DEF Load, Predict, Jobs

\* A step that touches neither the clocks nor any caller or future.
LEMMA QuietStep ==
  ASSUME TimeInv, UNCHANGED <<caller, waited, age>>,
         future' \in [Jobs -> Exec!FutureStates]
  PROVE TimeInv'
  BY DEF TimeInv, ClockInv, DomainInv

LEMMA ServerStart == ServerInit => TimeInv
<1> SUFFICES ASSUME ServerInit PROVE TimeInv
  OBVIOUS
<1>1. DomainInv
  BY DEF ServerInit, Exec!Init, DomainInv, Exec!CallerStates, Exec!FutureStates
<1>2. ClockInv
  BY JobFacts, ServerAssumption DEF ServerInit, Exec!Init, ClockInv
<1> QED
  BY <1>1, <1>2 DEF TimeInv

\* What a step of submit() may do to its own caller and future.
LEMMA ResumeFacts ==
  ASSUME TimeInv, NEW j \in Jobs, Exec!Resume(j) \/ Exec!Discard(j) \/ Exec!Expire(j)
  PROVE /\ future' \in [Jobs -> Exec!FutureStates]
        /\ \E v \in Exec!CallerStates \ {"idle"} : caller' = [caller EXCEPT ![j] = v]
        /\ caller[j] \in {"waiting", "expired"}
<1>1. CASE Exec!Resume(j)
  <2>1. CASE future[j] \in {"returned", "raised", "interrupted"} /\ caller' = [caller EXCEPT ![j] = future[j]]
    BY <1>1, <2>1 DEF Exec!Resume, Exec!Busy, TimeInv, DomainInv, Exec!CallerStates, Exec!Answers
  <2>2. CASE Exec!Busy(j)
    BY <1>1, <2>2 DEF Exec!Resume, Exec!Busy, TimeInv, DomainInv, Exec!CallerStates, Exec!Answers
  <2> QED
    BY <1>1, <2>1, <2>2 DEF Exec!Resume
<1>2. CASE Exec!Discard(j)
  BY <1>2 DEF Exec!Discard, Exec!Busy, TimeInv, DomainInv, Exec!CallerStates, Exec!Answers
<1>3. CASE Exec!Expire(j)
  BY <1>3 DEF Exec!Expire, TimeInv, DomainInv, Exec!CallerStates, Exec!FutureStates
<1> QED
  BY <1>1, <1>2, <1>3

LEMMA EnqueueFacts ==
  ASSUME TimeInv, NEW j \in Jobs, NEW callers \in [Jobs -> Exec!CallerStates],
         Exec!Enqueue(j, callers)
  PROVE /\ future' \in [Jobs -> Exec!FutureStates]
        /\ \E v \in Exec!CallerStates \ {"idle"} : caller' = [callers EXCEPT ![j] = v]
  BY DEF Exec!Enqueue, TimeInv, DomainInv, Exec!CallerStates, Exec!Answers, Exec!FutureStates

\* The worker tasks write no caller; futures they resolve.
LEMMA WorkerFacts ==
  ASSUME TimeInv, NEW w \in Exec!Workers, Exec!WorkerStep(w)
  PROVE UNCHANGED caller /\ future' \in [Jobs -> Exec!FutureStates]
<1> USE DEF TimeInv, DomainInv, Exec!FutureStates, Exec!Outcomes
<1>1. CASE Exec!Take(w)
  BY <1>1 DEF Exec!Take
<1>2. CASE Exec!Finish(w)
  BY <1>2 DEF Exec!Finish, Exec!Resolve
<1>3. CASE Exec!Interrupt(w)
  BY <1>3 DEF Exec!Interrupt, Exec!Resolve
<1> QED
  BY <1>1, <1>2, <1>3 DEF Exec!WorkerStep

LEMMA BeginStep == ASSUME TimeInv, NEW r \in Requests, Begin(r) PROVE TimeInv'
<1>1. Load(r) \in Jobs
  BY JobFacts
<1>2. caller[Load(r)] = "idle" /\ Exec!Enqueue(Load(r), caller) /\ UNCHANGED <<waited, age>>
  BY DEF Begin, Exec!Submit
<1>3. PICK v \in Exec!CallerStates \ {"idle"} : caller' = [caller EXCEPT ![Load(r)] = v]
  BY <1>1, <1>2, EnqueueFacts DEF TimeInv, DomainInv
<1>4. future' \in [Jobs -> Exec!FutureStates]
  BY <1>1, <1>2, EnqueueFacts DEF TimeInv, DomainInv
<1>5. DomainInv'
  BY <1>2, <1>3, <1>4 DEF TimeInv, DomainInv
<1>6. ClockInv'
  BY <1>1, <1>2, <1>3, JobFacts DEF TimeInv, DomainInv, ClockInv
<1> QED
  BY <1>5, <1>6 DEF TimeInv

LEMMA ContinueStep == ASSUME TimeInv, NEW r \in Requests, Continue(r) PROVE TimeInv'
<1> DEFINE callers == [caller EXCEPT ![Load(r)] = "returned"]
<1>1. Load(r) \in Jobs /\ Predict(r) \in Jobs /\ Load(r) # Predict(r)
  BY JobFacts
<1>2. /\ caller[Load(r)] = "waiting" /\ Exec!Enqueue(Predict(r), callers)
      /\ waited' = [waited EXCEPT ![r] = 0] /\ UNCHANGED age
  BY DEF Continue, Exec!Resubmit, NewDeadline
<1>3. callers \in [Jobs -> Exec!CallerStates]
  BY DEF TimeInv, DomainInv, Exec!CallerStates, Exec!Answers
<1>4. /\ future' \in [Jobs -> Exec!FutureStates]
      /\ \E v \in Exec!CallerStates \ {"idle"} : caller' = [callers EXCEPT ![Predict(r)] = v]
  BY <1>1, <1>2, <1>3, EnqueueFacts
<1>5. PICK v \in Exec!CallerStates \ {"idle"} : caller' = [callers EXCEPT ![Predict(r)] = v]
  BY <1>4
<1>6. DomainInv'
  BY <1>2, <1>3, <1>4, <1>5 DEF TimeInv, DomainInv
<1>7. caller[Predict(r)] = "idle" /\ age[r] <= Timeout
  BY <1>1, <1>2, ServerAssumption DEF TimeInv, ClockInv, DomainInv
<1>8. caller'[Load(r)] = "returned" /\ caller'[Predict(r)] # "idle"
  BY <1>1, <1>5 DEF TimeInv, DomainInv
<1>9. \A s \in Requests \ {r} : caller'[Load(s)] = caller[Load(s)] /\ caller'[Predict(s)] = caller[Predict(s)]
  BY <1>1, <1>5, JobFacts DEF TimeInv, DomainInv
<1>10. ClockInv'
  <2> SUFFICES ASSUME NEW s \in Requests
               PROVE /\ waited'[s] \in 0 .. Timeout
                     /\ age'[s] \in Nat
                     /\ caller'[Predict(s)] # "idle" => caller'[Load(s)] = "returned"
                     /\ caller'[Predict(s)] = "idle" => age'[s] <= waited'[s]
                     /\ age'[s] <= Timeout + waited'[s]
    BY DEF ClockInv, Load, Predict
  <2>1. CASE s = r
    BY <1>2, <1>7, <1>8, <2>1, ServerAssumption DEF TimeInv, DomainInv
  <2>2. CASE s # r
    BY <1>2, <1>9, <2>2 DEF TimeInv, DomainInv, ClockInv
  <2> QED
    BY <2>1, <2>2
<1> QED
  BY <1>6, <1>10 DEF TimeInv

\* Conclude and Expire move one of the request's two callers.
LEMMA AnswerStep ==
  ASSUME TimeInv, NEW r \in Requests, Conclude(r) \/ Expire(r) PROVE TimeInv'
<1>1. /\ UNCHANGED <<waited, age>>
      /\ \E j \in {Load(r), Predict(r)} :
            Exec!Resume(j) \/ Exec!Discard(j) \/ Exec!Expire(j)
  BY DEF Conclude, Expire
<1>2. PICK j \in {Load(r), Predict(r)} : Exec!Resume(j) \/ Exec!Discard(j) \/ Exec!Expire(j)
  BY <1>1
<1>3. j \in Jobs /\ Load(r) \in Jobs /\ Predict(r) \in Jobs
  BY JobFacts
<1>4. PICK v \in Exec!CallerStates \ {"idle"} : caller' = [caller EXCEPT ![j] = v]
  BY <1>2, <1>3, ResumeFacts
<1>5. future' \in [Jobs -> Exec!FutureStates] /\ caller[j] \in {"waiting", "expired"}
  BY <1>2, <1>3, ResumeFacts
<1>6. DomainInv'
  BY <1>1, <1>4, <1>5 DEF TimeInv, DomainInv
<1>7. ClockInv'
  BY <1>1, <1>3, <1>4, <1>5, JobFacts DEF TimeInv, DomainInv, ClockInv
<1> QED
  BY <1>6, <1>7 DEF TimeInv

\* Time passes only for requests that still have some of their deadline left.
LEMMA TickStep == ASSUME TimeInv, Tick PROVE TimeInv'
<1>1. UNCHANGED <<caller, future>>
  BY DEF Tick, executorVars
<1>2. \A r \in Requests : Open(r) => waited[r] # Timeout
  BY JobFacts DEF Tick, Due, Open, TimedJobs
<1>3. /\ waited' = [r \in Requests |-> IF Open(r) THEN waited[r] + 1 ELSE waited[r]]
      /\ age' = [r \in Requests |-> IF Open(r) THEN age[r] + 1 ELSE age[r]]
  BY DEF Tick
<1>4. DomainInv'
  BY <1>1, <1>3 DEF TimeInv, DomainInv
<1>5. ASSUME NEW r \in Requests
      PROVE /\ waited'[r] \in 0 .. Timeout /\ age'[r] \in Nat
            /\ caller[Predict(r)] = "idle" => age'[r] <= waited'[r]
            /\ age'[r] <= Timeout + waited'[r]
  BY <1>2, <1>3, ServerAssumption DEF TimeInv, ClockInv, DomainInv
<1>6. ClockInv'
  BY <1>1, <1>5 DEF TimeInv, ClockInv, Load, Predict
<1> QED
  BY <1>4, <1>6 DEF TimeInv

LEMMA ServerStep == TimeInv /\ [ServerNext]_vars => TimeInv'
<1> SUFFICES ASSUME TimeInv, [ServerNext]_vars PROVE TimeInv'
  OBVIOUS
<1>1. ASSUME NEW r \in Requests, RequestStep(r) PROVE TimeInv'
  BY <1>1, BeginStep, ContinueStep, AnswerStep DEF RequestStep
<1>2. ASSUME NEW r \in Requests, ThreadStep(r) PROVE TimeInv'
  <2>1. UNCHANGED <<caller, future, waited, age>>
    BY <1>2
    DEF ThreadStep, GetStart, GetLoad, GetEnd, PredictStart, PredictEnd,
        Exec!ThreadStart, Exec!ThreadEnd, executorVars
  <2> QED
    BY <2>1, QuietStep DEF TimeInv, DomainInv
<1>3. ASSUME NEW w \in Exec!Workers, WorkerTurn(w) PROVE TimeInv'
  BY <1>3, WorkerFacts, QuietStep DEF WorkerTurn
<1>4. CASE Tick
  BY <1>4, TickStep
<1>5. CASE Serve \/ Rest \/ UNCHANGED vars
  BY <1>5, QuietStep DEF Serve, Exec!Start, Rest, vars, executorVars, TimeInv, DomainInv
<1> QED
  BY <1>1, <1>2, <1>3, <1>4, <1>5 DEF ServerNext

\* A request is answered within two execution timeouts of the call of handle(),
\* one for each submit() of app.py:157-160, even if threads never end.
THEOREM AnsweredInTwoDeadlines == ServerSpec => []TwoDeadlines
<1>1. TimeInv => TwoDeadlines
  BY ServerAssumption DEF TimeInv, ClockInv, TwoDeadlines
<1> QED
  BY <1>1, ServerStart, ServerStep, PTL DEF ServerSpec

\* Every step of the server is one of the registry, or leaves it alone.
LEMMA RegistrySteps == [ServerNext]_vars => [Reg!RegistryNext]_Reg!registryVars
<1> SUFFICES ASSUME [ServerNext]_vars PROVE [Reg!RegistryNext]_Reg!registryVars
  OBVIOUS
<1> USE DEF registryVars, Reg!registryVars
<1>1. ASSUME NEW r \in Requests, RequestStep(r)
      PROVE UNCHANGED Reg!registryVars
  BY <1>1 DEF RequestStep, Begin, Continue, Conclude, Expire
<1>2. ASSUME NEW r \in Requests, ThreadStep(r)
      PROVE Reg!RegistryNext \/ UNCHANGED Reg!registryVars
  BY <1>2 DEF ThreadStep, GetStart, GetLoad, GetEnd, PredictStart, PredictEnd, Reg!RegistryNext
<1>3. ASSUME NEW w \in Exec!Workers, WorkerTurn(w)
      PROVE UNCHANGED Reg!registryVars
  BY <1>3 DEF WorkerTurn
<1>4. CASE Serve \/ Tick \/ Rest \/ UNCHANGED vars
  BY <1>4 DEF Serve, Tick, Rest, vars
<1> QED
  BY <1>1, <1>2, <1>3, <1>4 DEF ServerNext

\* Every step of the server is one of the executor, or leaves it alone.
LEMMA ExecutorSteps == [ServerNext]_vars => [Exec!Next]_(Exec!vars)
<1> SUFFICES ASSUME [ServerNext]_vars PROVE Exec!Next \/ UNCHANGED Exec!vars
  OBVIOUS
<1>1. ASSUME NEW r \in Requests, RequestStep(r) PROVE Exec!Next
  <2>1. Load(r) \in Jobs /\ Predict(r) \in Jobs
    BY JobFacts
  <2>2. CASE Continue(r)
    BY <2>1, <2>2 DEF Continue, Exec!Next
  <2>3. CASE ~Continue(r)
    <3>1. PICK j \in Jobs : Exec!Submit(j) \/ Exec!Resume(j) \/ Exec!Discard(j) \/ Exec!Expire(j)
      BY <1>1, <2>1, <2>3 DEF RequestStep, Begin, Conclude, Expire
    <3> QED
      BY <3>1 DEF Exec!Next, Exec!CallerStep
  <2> QED
    BY <2>2, <2>3
<1>2. ASSUME NEW r \in Requests, ThreadStep(r) PROVE Exec!Next \/ UNCHANGED Exec!vars
  <2>1. Load(r) \in Jobs /\ Predict(r) \in Jobs
    BY JobFacts
  <2>2. CASE GetLoad(r)
    BY <2>2 DEF GetLoad, executorVars, Exec!vars
  <2>3. CASE ~GetLoad(r)
    <3>1. PICK j \in Jobs : Exec!ThreadStep(j)
      BY <1>2, <2>1, <2>3
      DEF ThreadStep, GetStart, GetEnd, PredictStart, PredictEnd, Exec!ThreadStep, Exec!Outcomes
    <3> QED
      BY <3>1 DEF Exec!Next
  <2> QED
    BY <2>2, <2>3
<1>3. ASSUME NEW w \in Exec!Workers, WorkerTurn(w) PROVE Exec!Next
  BY <1>3 DEF WorkerTurn, Exec!Next
<1>4. CASE Serve
  BY <1>4 DEF Serve, Exec!Next
<1>5. CASE Tick \/ Rest \/ UNCHANGED vars
  BY <1>5 DEF Tick, Rest, vars, executorVars, Exec!vars
<1> QED
  BY <1>1, <1>2, <1>3, <1>4, <1>5 DEF ServerNext

\* The server's jobs meet what BoundedExecutor assumes of its constants.
LEMMA ServerMeetsExecutor ==
  /\ Capacity \in Nat \ {0} /\ Concurrency \in Nat \ {0}
  /\ Nobody \notin Jobs /\ TimedJobs \subseteq Jobs
BY ServerAssumption DEF Jobs, TimedJobs

\* The two submit() calls of a request, the one right after the other has answered, its
\* timers and its threads are steps of the executor or leave it alone: with 2 jobs for each
\* request, the theorems of SharedObjectProofs hold of the executor inside the server.
THEOREM ServerUsesExecutor == ServerSpec => UsesExecutor
<1>1. ServerInit => Exec!Init
  BY DEF ServerInit
<1> QED
  BY <1>1, ExecutorSteps, PTL DEF ServerSpec, UsesExecutor, Exec!Spec

\* Every step of the server is a step of the registry or leaves it alone, so the
\* theorems of SharedObjectProofs hold of the registry inside the server.
THEOREM ServerUsesRegistry == ServerSpec => UsesRegistry
<1>1. ServerInit => Reg!RegistryInit
  BY DEF ServerInit
<1> QED
  BY <1>1, RegistrySteps, PTL DEF ServerSpec, UsesRegistry, Reg!RegistrySpec

----------------------------------------------------------------------------
\* What stands between registry.get() and the prediction: the outcome of the thread, the
\* future that a worker resolves with it, and the coroutine that goes on from there.
LinkInv ==
  \A r \in Requests :
    \/ get[r] = "returned"
    \/ /\ thread[Load(r)] # "returned"
       /\ future[Load(r)] # "returned"
       /\ caller[Predict(r)] = "idle"

ShapeInv == DOMAIN thread = Jobs /\ DOMAIN get = Requests

\* A call of get() that has returned has ended.
LEMMA GetIsFinal ==
  ASSUME ShapeInv, NEW r \in Requests, get[r] = "returned", [Reg!RegistryNext]_Reg!registryVars
  PROVE  get'[r] = "returned"
  BY DEF ShapeInv, Reg!RegistryNext, Reg!Enter, Reg!Hit, Reg!BeginLoad, Reg!FinishLoad,
         Reg!FailLoad, Reg!RegistryRest, Reg!registryVars

\* A worker moves the outcome of a thread to its future and invents none.
LEMMA WorkerLink ==
  ASSUME TimeInv, ShapeInv, NEW w \in Exec!Workers, Exec!WorkerStep(w), NEW j \in Jobs
  PROVE  /\ DOMAIN thread' = Jobs
         /\ thread'[j] = "returned" => thread[j] = "returned"
         /\ future'[j] = "returned" => future[j] = "returned" \/ thread[j] = "returned"
<1> USE DEF TimeInv, DomainInv, ShapeInv
<1>1. ASSUME NEW threads, DOMAIN threads = Jobs, Exec!Fetch(w, threads)
      PROVE  DOMAIN thread' = Jobs /\ (thread'[j] = "returned" => threads[j] = "returned")
  <2>1. CASE thread' = threads
    BY <1>1, <2>1
  <2>2. CASE \E k \in DOMAIN queue : thread' = [threads EXCEPT ![queue[k]] = "pooled"]
    BY <1>1, <2>2
  <2> QED
    BY <1>1, <2>1, <2>2 DEF Exec!Fetch, Exec!AwaitJob, Exec!HandOver
<1>2. CASE Exec!Take(w)
  BY <1>1, <1>2 DEF Exec!Take
<1>3. CASE Exec!Finish(w)
  BY <1>1, <1>3 DEF Exec!Finish, Exec!Resolve
<1>4. CASE Exec!Interrupt(w)
  <2> DEFINE threads == IF thread[job[w]] = "pooled"
                        THEN [thread EXCEPT ![job[w]] = "dropped"] ELSE thread
  <2>1. DOMAIN threads = Jobs /\ (threads[j] = "returned" => thread[j] = "returned")
    OBVIOUS
  <2>2. Exec!Fetch(w, threads) /\ Exec!Resolve(job[w], "interrupted")
    BY <1>4 DEF Exec!Interrupt
  <2> HIDE DEF threads
  <2> QED
    BY <1>1, <2>1, <2>2 DEF Exec!Resolve
<1> QED
  BY <1>2, <1>3, <1>4 DEF Exec!WorkerStep

\* A step of a request: it goes on to its second submit() only with what get() returned.
LEMMA RequestLink ==
  ASSUME TimeInv, ShapeInv, LinkInv, NEW r \in Requests, RequestStep(r),
         NEW s \in Requests, get[s] # "returned"
  PROVE  /\ thread'[Load(s)] # "returned"
         /\ future'[Load(s)] # "returned"
         /\ caller'[Predict(s)] = "idle"
         /\ DOMAIN thread' = Jobs
<1>1. /\ thread[Load(s)] # "returned" /\ future[Load(s)] # "returned"
      /\ caller[Predict(s)] = "idle"
  BY DEF LinkInv
<1>2. /\ Load(r) \in Jobs /\ Predict(r) \in Jobs /\ Load(s) \in Jobs /\ Predict(s) \in Jobs
      /\ Load(s) # Predict(r) /\ Load(r) # Predict(s)
      /\ Predict(r) = Predict(s) => r = s
  BY JobFacts
<1>3. thread' = thread
  BY DEF RequestStep, Begin, Continue, Conclude, Expire, Exec!Submit, Exec!Resubmit, Exec!Enqueue, Exec!Resume,
         Exec!Discard, Exec!Busy, Exec!Expire
<1>4. CASE Begin(r)
  <2>1. Exec!Enqueue(Load(r), caller)
    BY <1>4 DEF Begin, Exec!Submit
  <2> QED
    BY <1>1, <1>2, <1>3, <2>1 DEF Exec!Enqueue, TimeInv, DomainInv, ShapeInv
<1>5. CASE Continue(r)
  <2>1. r # s
    BY <1>1, <1>5 DEF Continue, Exec!Resubmit
  <2>2. Exec!Enqueue(Predict(r), [caller EXCEPT ![Load(r)] = "returned"])
    BY <1>5 DEF Continue, Exec!Resubmit
  <2> QED
    BY <1>1, <1>2, <1>3, <2>1, <2>2 DEF Exec!Enqueue, TimeInv, DomainInv, ShapeInv
<1>6. CASE Conclude(r) \/ Expire(r)
  <2>1. PICK j \in {Load(r), Predict(r)} : Exec!Resume(j) \/ Exec!Discard(j) \/ Exec!Expire(j)
    BY <1>6 DEF Conclude, Expire
  <2>2. j \in Jobs /\ caller[j] \in {"waiting", "expired"}
    BY <1>2, <2>1, ResumeFacts
  <2>3. PICK v \in Exec!CallerStates \ {"idle"} : caller' = [caller EXCEPT ![j] = v]
    BY <2>1, <2>2, ResumeFacts
  <2>4. j # Predict(s)
    BY <1>1, <2>2
  <2>5. future' = future \/ future' = [future EXCEPT ![j] = "cancelled"]
    BY <2>1 DEF Exec!Resume, Exec!Discard, Exec!Busy, Exec!Expire
  <2> QED
    BY <1>1, <1>2, <1>3, <2>2, <2>3, <2>4, <2>5 DEF TimeInv, DomainInv, ShapeInv
<1> QED
  BY <1>4, <1>5, <1>6 DEF RequestStep

\* A step of a thread: its outcome is that of the call of get() it makes.
LEMMA ThreadLink ==
  ASSUME TimeInv, ShapeInv, LinkInv, NEW r \in Requests, ThreadStep(r),
         NEW s \in Requests, get[s] # "returned", get'[s] # "returned"
  PROVE  /\ thread'[Load(s)] # "returned"
         /\ DOMAIN thread' = Jobs
<1>1. thread[Load(s)] # "returned"
  BY DEF LinkInv
<1>2. /\ Load(r) \in Jobs /\ Predict(r) \in Jobs /\ Load(s) \in Jobs
      /\ Load(s) # Predict(r) /\ (Load(s) = Load(r) => s = r)
  BY JobFacts
<1>3. CASE GetStart(r) \/ PredictStart(r)
  BY <1>1, <1>2, <1>3 DEF GetStart, PredictStart, Exec!ThreadStart, ShapeInv
<1>4. CASE GetLoad(r)
  BY <1>1, <1>4 DEF GetLoad, executorVars, ShapeInv
<1>5. CASE PredictEnd(r)
  BY <1>1, <1>2, <1>5 DEF PredictEnd, Exec!ThreadEnd, ShapeInv
<1>6. CASE GetEnd(r)
  <2>1. PICK e : Exec!ThreadEnd(Load(r), e)
    BY <1>6 DEF GetEnd
  <2>2. thread' = [thread EXCEPT ![Load(r)] = e]
    BY <2>1 DEF Exec!ThreadEnd
  <2>3. CASE s # r
    BY <1>1, <1>2, <2>2, <2>3 DEF ShapeInv
  <2>4. CASE s = r
    <3>1. ~Reg!Hit(r) /\ ~Reg!FinishLoad(r)
      BY <2>4 DEF Reg!Hit, Reg!FinishLoad, ShapeInv
    <3>2. PICK f \in {"raised", "timeout"} : Exec!ThreadEnd(Load(r), f)
      BY <1>6, <3>1 DEF GetEnd
    <3>3. thread' = [thread EXCEPT ![Load(r)] = f]
      BY <3>2 DEF Exec!ThreadEnd
    <3> QED
      BY <1>1, <1>2, <2>4, <3>2, <3>3 DEF ShapeInv
  <2> QED
    BY <2>3, <2>4
<1> QED
  BY <1>3, <1>4, <1>5, <1>6 DEF ThreadStep

LEMMA LinkStep == TimeInv /\ ShapeInv /\ LinkInv /\ [ServerNext]_vars => ShapeInv' /\ LinkInv'
<1> SUFFICES ASSUME TimeInv, ShapeInv, LinkInv, [ServerNext]_vars
             PROVE  ShapeInv' /\ LinkInv'
  OBVIOUS
<1>1. [Reg!RegistryNext]_Reg!registryVars
  BY RegistrySteps
<1>2. DOMAIN get' = Requests
  BY <1>1 DEF ShapeInv, Reg!RegistryNext, Reg!Enter, Reg!Hit, Reg!BeginLoad, Reg!FinishLoad,
         Reg!FailLoad, Reg!RegistryRest, Reg!registryVars
<1>3. DOMAIN thread' = Jobs
  <2>1. ASSUME NEW r \in Requests, RequestStep(r) PROVE thread' = thread
    BY <2>1 DEF RequestStep, Begin, Continue, Conclude, Expire, Exec!Submit, Exec!Resubmit, Exec!Enqueue,
           Exec!Resume, Exec!Discard, Exec!Busy, Exec!Expire
  <2>2. ASSUME NEW r \in Requests, ThreadStep(r) PROVE DOMAIN thread' = DOMAIN thread
    BY <2>2 DEF ThreadStep, GetStart, GetLoad, GetEnd, PredictStart, PredictEnd,
           Exec!ThreadStart, Exec!ThreadEnd, executorVars
  <2>3. ASSUME NEW w \in Exec!Workers, WorkerTurn(w) PROVE DOMAIN thread' = Jobs
    <3>1. CASE Requests = {}
      <4>1. ASSUME NEW threads, DOMAIN threads = Jobs, Exec!Fetch(w, threads)
            PROVE  DOMAIN thread' = Jobs
        BY <4>1 DEF Exec!Fetch, Exec!AwaitJob, Exec!HandOver
      <4> QED
        BY <2>3, <4>1 DEF WorkerTurn, Exec!WorkerStep, Exec!Take, Exec!Finish, Exec!Interrupt, ShapeInv
    <3>2. CASE Requests # {}
      <4>1. PICK r \in Requests : Load(r) \in Jobs
        BY <3>2, JobFacts
      <4> QED
        BY <2>3, <4>1, WorkerLink DEF WorkerTurn
    <3> QED
      BY <3>1, <3>2
  <2>4. Serve \/ Tick \/ Rest \/ UNCHANGED vars => thread' = thread
    BY DEF Serve, Exec!Start, Tick, Rest, vars, executorVars
  <2> QED
    BY <2>1, <2>2, <2>3, <2>4 DEF ServerNext, ShapeInv
<1>4. ASSUME NEW s \in Requests, get'[s] # "returned"
      PROVE  /\ thread'[Load(s)] # "returned"
             /\ future'[Load(s)] # "returned"
             /\ caller'[Predict(s)] = "idle"
  <2>1. get[s] # "returned"
    BY <1>1, <1>4, GetIsFinal
  <2>2. /\ thread[Load(s)] # "returned" /\ future[Load(s)] # "returned"
        /\ caller[Predict(s)] = "idle"
    BY <2>1 DEF LinkInv
  <2>3. Load(s) \in Jobs
    BY JobFacts
  <2>4. ASSUME NEW r \in Requests, RequestStep(r)
        PROVE  /\ thread'[Load(s)] # "returned"
               /\ future'[Load(s)] # "returned"
               /\ caller'[Predict(s)] = "idle"
    BY <2>1, <2>4, RequestLink
  <2>5. ASSUME NEW r \in Requests, ThreadStep(r)
        PROVE  /\ thread'[Load(s)] # "returned"
               /\ UNCHANGED <<future, caller>>
    <3>1. UNCHANGED <<future, caller>>
      BY <2>5 DEF ThreadStep, GetStart, GetLoad, GetEnd, PredictStart, PredictEnd,
             Exec!ThreadStart, Exec!ThreadEnd, executorVars
    <3> QED
      BY <1>4, <2>1, <2>5, <3>1, ThreadLink
  <2>6. ASSUME NEW w \in Exec!Workers, WorkerTurn(w)
        PROVE  /\ thread'[Load(s)] # "returned"
               /\ future'[Load(s)] # "returned"
               /\ UNCHANGED caller
    <3>1. Exec!WorkerStep(w)
      BY <2>6 DEF WorkerTurn
    <3> QED
      BY <2>2, <2>3, <3>1, WorkerLink, WorkerFacts
  <2>7. Serve \/ Tick \/ Rest \/ UNCHANGED vars => UNCHANGED <<thread, future, caller>>
    BY DEF Serve, Exec!Start, Tick, Rest, vars, executorVars
  <2> QED
    BY <2>2, <2>4, <2>5, <2>6, <2>7 DEF ServerNext
<1> QED
  BY <1>2, <1>3, <1>4 DEF ShapeInv, LinkInv, Load, Predict

\* The registry inside the server: the lock is held exactly by the call that loads, and what
\* returned calls were handed is resident.
ResidentInv ==
  /\ Reg!RegistryTypeOK
  /\ \A c \in Requests :
       /\ get[c] = "loading" <=> lock = c
       /\ get[c] = "loading" => agents[AliasOf[c]] = 0 /\ got[c] # 0
       /\ get[c] = "returned" => got[c] # 0 /\ got[c] = agents[AliasOf[c]]

LEMMA ResidentStep ==
  ResidentInv /\ [Reg!RegistryNext]_Reg!registryVars => ResidentInv'
<1> SUFFICES ASSUME ResidentInv, [Reg!RegistryNext]_Reg!registryVars PROVE ResidentInv'
  OBVIOUS
<1> USE ServerAssumption DEF ResidentInv, Reg!RegistryTypeOK, Reg!CallStates
<1>1. ASSUME NEW c \in Requests, Reg!Enter(c) PROVE ResidentInv'
  BY <1>1 DEF Reg!Enter
<1>2. ASSUME NEW c \in Requests, Reg!Hit(c) PROVE ResidentInv'
  BY <1>2 DEF Reg!Hit, Reg!LockFree
<1>3. ASSUME NEW c \in Requests, Reg!BeginLoad(c) PROVE ResidentInv'
  <2>1. AliasOf[c] \in Aliases
    OBVIOUS
  <2>2. got'[c] = loads[AliasOf[c]] + 1 /\ got'[c] \in Nat \ {0}
    BY <1>3, <2>1 DEF Reg!BeginLoad
  <2>3. Reg!RegistryTypeOK'
    BY <1>3, <2>1, <2>2 DEF Reg!BeginLoad
  <2> QED
    BY <1>3, <2>2, <2>3 DEF Reg!BeginLoad, Reg!LockFree
<1>4. ASSUME NEW c \in Requests, Reg!FinishLoad(c) PROVE ResidentInv'
  <2>1. \A d \in Requests : get[d] = "loading" => d = c
    BY <1>4 DEF Reg!FinishLoad
  <2> QED
    BY <1>4, <2>1 DEF Reg!FinishLoad, Reg!Store
<1>5. ASSUME NEW c \in Requests, Reg!FailLoad(c) PROVE ResidentInv'
  BY <1>5 DEF Reg!FailLoad
<1>6. CASE Reg!RegistryRest \/ UNCHANGED Reg!registryVars
  BY <1>6 DEF Reg!RegistryRest, Reg!registryVars
<1> QED
  BY <1>1, <1>2, <1>3, <1>4, <1>5, <1>6 DEF Reg!RegistryNext

\* A prediction is queued only for an alias whose Agent is resident, and it is this Agent
\* that the request was handed.
THEOREM PredictionsUseResidents == ServerSpec => []PredictsOnResident
<1>1. ServerInit => ShapeInv /\ LinkInv
  BY JobFacts DEF ServerInit, Exec!Init, Reg!RegistryInit, ShapeInv, LinkInv
<1>2. ServerInit => ResidentInv
  BY ServerAssumption
  DEF ServerInit, Reg!RegistryInit, ResidentInv, Reg!RegistryTypeOK, Reg!CallStates
<1>3. ResidentInv /\ [ServerNext]_vars => ResidentInv'
  BY RegistrySteps, ResidentStep
<1>4. LinkInv /\ ResidentInv => PredictsOnResident
  BY DEF LinkInv, ResidentInv, PredictsOnResident
<1> QED
  BY <1>1, <1>2, <1>3, <1>4, ServerStart, ServerStep, LinkStep, PTL DEF ServerSpec

===============================================================================
