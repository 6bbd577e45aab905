------------------------------ MODULE RemoteCall ------------------------------
(***************************************************************************)
(* One call of the client (client/http.py, _request()) and what the server *)
(* makes of it (server/app.py, handle() and _predict(); server/queue.py):  *)
(* connection, request, admission, the two jobs of a prediction, response, *)
(* with a server that may die and a client that may stop waiting.          *)
(*                                                                         *)
(* The length of a response is counted in pieces: one for the head, which  *)
(* carries the status and the Content-Length, and `length` for the body.   *)
(***************************************************************************)
EXTENDS RequestPipeline

CONSTANTS
  Requests,      \* the requests tried
  MaxBody,       \* bound: pieces of the body of a result
  ServerLimit,   \* MAX_RESPONSE_BYTES, in pieces
  ClientLimit    \* max_response_bytes of the client, in pieces

ASSUME CallAssumption ==
  /\ Requests \subseteq Request
  /\ {MaxBody, ServerLimit, ClientLimit} \subseteq Nat \ {0}

VARIABLES
  request,   \* what the client asks
  phase,     \* of the client: start, waiting (for the head), reading (the body), done
  outcome,   \* what _request() returns ("result") or the code of what it raises
  server,    \* idle, received, load or predict (awaiting that job), replied, gone
  job,       \* that job: none, queued, running
  runs,      \* times that a thread has begun agent.predict() for this call
  reply,     \* the response written
  sent,      \* pieces of it that have reached the client
  link       \* the server's end of the connection: up, closed, reset

vars == <<request, phase, outcome, server, job, runs, reply, sent, link>>
serverVars == <<server, job, runs, reply, sent, link>>

CheckpointErrors ==
  {"MODEL_NOT_FOUND", "MODEL_INCOMPLETE", "MODEL_CHECKSUM_FAILED", "MODEL_INCOMPATIBLE"}
LoadErrors == CheckpointErrors \cup {"DEVICE_UNAVAILABLE", "DTYPE_UNSUPPORTED", "SERVER_ERROR"}
ModelErrors == {"TOKEN_BUDGET_EXCEEDED", "NON_FINITE_OUTPUT"}
RequestErrors ==
  {"UNAUTHORIZED", "REQUEST_TOO_LARGE", "METHOD_NOT_ALLOWED", "UNSUPPORTED_MEDIA_TYPE",
   "PROTOCOL_UNSUPPORTED", "MALFORMED_REQUEST"}
ServerCodes == RequestErrors \cup LoadErrors \cup ModelErrors \cup {"QUEUE_FULL", "SERVER_BUSY"}
ClientCodes == {"MALFORMED_REQUEST", "SERVER_UNAVAILABLE", "RESPONSE_TOO_LARGE", "untyped"}

\* `wide`: a body cut after that many pieces ends inside a character (0: nowhere).
Replies == [code : ServerCodes \cup {"ok"}, length : 1 .. MaxBody, wide : 0 .. MaxBody - 1]
NoReply == [code |-> "none", length |-> 0, wide |-> 0]

TypeOK ==
  /\ request \in Request
  /\ phase \in {"start", "waiting", "reading", "done"}
  /\ outcome \in ServerCodes \cup ClientCodes \cup {"result", "none"}
  /\ (outcome = "none") = (phase # "done")
  /\ server \in {"idle", "received", "load", "predict", "replied", "gone"}
  /\ job \in {"none", "queued", "running"}
  /\ runs \in Nat
  /\ reply \in Replies \cup {NoReply}
  /\ sent \in 0 .. reply.length + 1
  /\ link \in {"up", "closed", "reset"}

Init ==
  /\ request \in Requests
  /\ phase = "start"
  /\ outcome = "none"
  /\ server = "idle"
  /\ job = "none"
  /\ runs = 0
  /\ reply = NoReply
  /\ sent = 0
  /\ link = "up"

----------------------------------------------------------------------------
\* The client.  Every exception of the transport, a timeout too, becomes
\* SERVER_UNAVAILABLE; nothing is sent a second time.
Finish(what) == phase' = "done" /\ outcome' = what

Retry == phase' = "start" /\ UNCHANGED outcome       \* mutant: one more try after a timeout
GiveUp == Finish("SERVER_UNAVAILABLE")

Connect ==
  /\ phase = "start"
  /\ \/ /\ server # "gone"
        /\ phase' = "waiting"
        /\ server' = "received"
        /\ UNCHANGED outcome
     \/ /\ Finish("SERVER_UNAVAILABLE")             \* refused, unreachable, broken while sending
        /\ UNCHANGED server
  /\ UNCHANGED <<request, job, runs, reply, sent, link>>

\* getresponse() and the check of the declared length, whatever the status.
GetHead ==
  /\ phase = "waiting"
  /\ sent > 0
  /\ IF reply.length > ClientLimit
     THEN Finish("RESPONSE_TOO_LARGE")
     ELSE phase' = "reading" /\ UNCHANGED outcome
  /\ UNCHANGED <<request, serverVars>>

Answered == sent = reply.length + 1
Meaning == IF reply.code = "ok" THEN "result" ELSE reply.code

\* read() ends after the declared length, or, without an error, at the end of the
\* stream: a shorter body does not parse, or does not decode, which nothing catches.
ReadWhatCame ==                                      \* mutant: a short body passes for the whole
  phase = "reading" /\ (Answered \/ link = "closed") /\ Finish(Meaning)
ReadBody ==
  /\ phase = "reading"
  /\ \/ Answered /\ Finish(Meaning)
     \/ /\ ~Answered /\ link = "closed"
        /\ Finish(IF reply.wide # 0 /\ sent = reply.wide + 1
                  THEN "untyped" ELSE "MALFORMED_REQUEST")
Read == ReadBody /\ UNCHANGED <<request, serverVars>>

\* The connection ends before the head, or is reset.
Lost ==
  /\ phase \in {"waiting", "reading"}
  /\ link = "reset" \/ (link = "closed" /\ sent = 0)
  /\ Finish("SERVER_UNAVAILABLE")
  /\ UNCHANGED <<request, serverVars>>

\* The socket's timeout: nothing to read for that long.
NeverExpires == FALSE                                \* mutant: the socket has no timeout
Expires ==
  \/ phase = "waiting" /\ sent = 0
  \/ phase = "reading" /\ ~Answered
Timeout ==
  /\ Expires
  /\ link = "up"
  /\ GiveUp
  /\ UNCHANGED <<request, serverVars>>

----------------------------------------------------------------------------
\* The server.  It is not told that the client has left, and goes on.  handle()
\* replaces a response over the limit by an error.
Respond(code, length, wide) ==
  /\ server' = "replied"
  /\ reply' = IF length > ServerLimit
              THEN [code |-> "SERVER_ERROR", length |-> 1, wide |-> 0]
              ELSE [code |-> code, length |-> length, wide |-> wide]
Fail(code) == Respond(code, 1, 0)
Succeed == \E n \in 1 .. MaxBody : \E w \in 0 .. n - 1 : Respond("ok", n, w)

\* submit() of the job that _predict() awaits as `stage`.
Submit(stage) ==
  \/ Fail("QUEUE_FULL") /\ job' = "none"
  \/ server' = stage /\ job' = "queued" /\ UNCHANGED reply

Admit ==
  /\ server = "received"
  /\ IF Verdict(request) # "ok"
     THEN Fail(Verdict(request)) /\ UNCHANGED job
     ELSE \/ request.endpoint = "predict" /\ Submit("load")
          \/ request.endpoint # "predict" /\ Succeed /\ UNCHANGED job
  /\ UNCHANGED <<request, phase, outcome, runs, sent, link>>

\* A worker takes the job; a job whose caller has gone is passed over.
Start ==
  /\ server \in {"load", "predict"} /\ job = "queued"
  /\ job' = "running"
  /\ runs' = IF server = "predict" THEN runs + 1 ELSE runs
  /\ UNCHANGED <<request, phase, outcome, server, reply, sent, link>>
LoadEnds ==
  /\ server = "load" /\ job = "running"
  /\ \/ Submit("predict")
     \/ \E code \in LoadErrors : Fail(code) /\ job' = "none"
  /\ UNCHANGED <<request, phase, outcome, runs, sent, link>>

PredictEnds ==
  /\ server = "predict" /\ job = "running"
  /\ job' = "none"
  /\ \/ \E code \in {"TOKEN_BUDGET_EXCEEDED", "SERVER_ERROR"} : Fail(code)
     \/ /\ ~\E i \in DOMAIN request.questions : Unanswerable(request.questions[i])
        /\ Fail("NON_FINITE_OUTPUT") \/ Succeed
  /\ UNCHANGED <<request, phase, outcome, runs, sent, link>>

\* execution_timeout: a queued job is discarded, a running one goes on unheard.
Busy ==
  /\ server \in {"load", "predict"}
  /\ Fail("SERVER_BUSY")
  /\ job' = "none"
  /\ UNCHANGED <<request, phase, outcome, runs, sent, link>>

Deliver ==
  /\ link = "up" /\ server = "replied" /\ ~Answered
  /\ sent' = sent + 1
  /\ UNCHANGED <<request, phase, outcome, server, job, runs, reply, link>>

Close ==
  /\ link = "up" /\ server = "replied" /\ Answered
  /\ link' = "closed"
  /\ UNCHANGED <<request, phase, outcome, server, job, runs, reply, sent>>

\* The server dies, before or after its answer; what is not delivered is lost.
Die ==
  /\ server # "gone"
  /\ server' = "gone"
  /\ job' = "none"
  /\ link' \in IF link = "up" THEN {"closed", "reset"} ELSE {link}
  /\ UNCHANGED <<request, phase, outcome, runs, reply, sent>>
Rest == phase = "done" /\ server \in {"idle", "replied", "gone"} /\ UNCHANGED vars

Client == Connect \/ GetHead \/ Read \/ Lost \/ Timeout
Server == Admit \/ Start \/ LoadEnds \/ PredictEnds \/ Busy \/ Deliver \/ Close \/ Die
Next == Client \/ Server \/ Rest

\* Only the client's own steps are fair: the server may stop anywhere.
Spec == Init /\ [][Next]_vars
FairSpec == Spec /\ WF_vars(Client)

----------------------------------------------------------------------------
\* What the client returns or raises is what the server decided, complete: a
\* result is a whole result, and an error that only servers make was sent by it.
AnswerIsTheServers ==
  /\ outcome = "result" => reply.code = "ok" /\ Answered
  /\ outcome \in ServerCodes \ {"MALFORMED_REQUEST"} => outcome = reply.code /\ Answered

\* What the outcome says of the prediction: http.py:11, a request is not retried,
\* so one call predicts at most once; a result comes from exactly one prediction;
\* and after a refusal none was begun or will be, so the caller may ask again.
\* After SERVER_UNAVAILABLE, SERVER_BUSY or a response cut short it cannot know.
Refusals ==
  (RequestErrors \ {"MALFORMED_REQUEST"}) \cup (LoadErrors \ {"SERVER_ERROR"}) \cup {"QUEUE_FULL"}

RunsAsTold ==
  /\ runs <= 1
  /\ outcome = "result" /\ request.endpoint = "predict" => runs = 1
  /\ outcome \in Refusals => runs = 0

\* Nothing reaches the model that misses one of the requirements, whatever the
\* order of the checks that look for them.
WellFormed(q) ==
  /\ q.id = "named" /\ q.instructions = "text" /\ q.texts = "fit"
  /\ \/ /\ q.type = "choice" /\ q.options <= MaxOptions
        /\ \/ q.criteria = "list" /\ q.labels = "distinct"
           \/ q.criteria = "object" /\ q.options > 0
     \/ q.type = "score" /\ q.criteria = "list" /\ q.options \in 1 .. MaxOptions
     \/ q.type = "noul" /\ q.criteria \in {"null", "object"}

Admissible(r) ==
  /\ r.endpoint = "predict" /\ r.method = "POST" /\ r.media = "json" /\ r.size = "fits"
  /\ TokenRequired => r.token = "right"
  /\ r.body = "object" /\ r.version = "same" /\ r.state = "fits"
  /\ r.model \in {"default", "known"}
  /\ r.keyed /\ Len(r.questions) <= MaxQuestions
  /\ \A i \in DOMAIN r.questions : WellFormed(r.questions[i])

OnlyAdmissible == job # "none" \/ runs > 0 => Admissible(request)

\* schemas.py:4: the server's rules for questions are the model's.  Every question that
\* is run meets the protocol's rules of form and size, whichever check comes first, and
\* the model refuses none of them; the exception is a choice whose list of labels is empty.
QuestionsAgree ==
  runs > 0 =>
    \A i \in DOMAIN request.questions :
      LET q == request.questions[i]
      IN  /\ WellFormed(q)
          /\ Unanswerable(q) => q.type = "choice" /\ q.criteria = "list" /\ q.options = 0

\* The client waits for ever for nothing: every call ends.
CallEnds == <>(phase = "done")

\* What errors.py:92 says of SERVER_UNAVAILABLE: the server could not be reached.
\* TLC refutes it as an invariant of MCRemoteCall.cfg (see RunsAsTold for what holds).
UnavailableMeansUnreached == outcome = "SERVER_UNAVAILABLE" => runs = 0
=============================================================================
