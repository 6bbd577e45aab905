---------------------------- MODULE PredictServer ----------------------------
(***************************************************************************)
(* POST /v1/predict behind validation (server/app.py, _predict): a request *)
(* goes through the bounded executor twice, first with registry.get, then  *)
(* with agent.predict, each submit() with the configured execution         *)
(* timeout.  The module composes BoundedExecutor and AgentRegistry and     *)
(* adds the clock that the two deadlines share.                            *)
(*                                                                         *)
(* Time is counted in units in which the event loop runs every callback    *)
(* that is due; pool threads may take any time, or never end.              *)
(***************************************************************************)
EXTENDS Integers, Sequences, FiniteSets

CONSTANTS
  Requests, Aliases, AliasOf,
  Nobody,                  \* no job, and no holder of the registry's lock
  Capacity, Concurrency,   \* config.queue_capacity, config.concurrency
  Timeout                  \* config.execution_timeout

ASSUME ServerAssumption ==
  /\ Timeout \in Nat \ {0}
  /\ Capacity \in Nat \ {0}
  /\ Concurrency \in Nat \ {0}
  /\ IsFiniteSet(Requests)
  /\ AliasOf \in [Requests -> Aliases]
  /\ Nobody \notin Requests \cup (Requests \X {"load", "predict"})

\* The two calls of submit() that a request makes.
Jobs == Requests \X {"load", "predict"}
Load(r) == <<r, "load">>
Predict(r) == <<r, "predict">>

\* Both pass timeout=self.config.execution_timeout.
TimedPredictsOnly == Requests \X {"predict"}          \* mutant
TimedJobs == Jobs

VARIABLES
  queue, starts, stops, task, job, thread, future, discarded, caller, accepted,
  lock, agents, loads, get, got,
  waited,   \* time since the submit() that the request is awaiting
  age       \* time since handle() was called, until it is answered

executorVars ==
  <<queue, starts, stops, task, job, thread, future, discarded, caller, accepted>>
registryVars == <<lock, agents, loads, get, got>>
vars == <<executorVars, registryVars, waited, age>>

Exec == INSTANCE BoundedExecutor WITH Timed <- TimedJobs, NoJob <- Nobody, MaxStops <- 0,
                                       Generations <- 1
Reg == INSTANCE AgentRegistry WITH Calls <- Requests, NoCall <- Nobody

ServerInit ==
  /\ Exec!Init
  /\ Reg!RegistryInit
  /\ waited = [r \in Requests |-> 0]
  /\ age = [r \in Requests |-> 0]

\* serve() calls app.start() before it accepts a connection.
Serve ==
  /\ Exec!Start
  /\ UNCHANGED <<registryVars, waited, age>>

----------------------------------------------------------------------------
\* The coroutine of a request: _predict().

\* The request has been validated and its alias is known.
Begin(r) ==
  /\ Exec!Active
  /\ Exec!Submit(Load(r))
  /\ UNCHANGED <<registryVars, waited, age>>

\* registry.get() returned: the second submit() is called in the same step,
\* with a deadline of its own.
KeepWaiting(r) == UNCHANGED waited        \* the deadline the doc describes
NewDeadline(r) == waited' = [waited EXCEPT ![r] = 0]

Continue(r) ==
  /\ Exec!Resubmit(Load(r), Predict(r))
  /\ NewDeadline(r)
  /\ UNCHANGED <<registryVars, age>>

\* Any other answer of a submit() ends the request.
Conclude(r) ==
  /\ \/ Exec!Resume(Load(r)) /\ caller'[Load(r)] # "returned"
     \/ Exec!Resume(Predict(r))
     \/ \E j \in {Load(r), Predict(r)} : Exec!Discard(j)
  /\ UNCHANGED <<registryVars, waited, age>>

Expire(r) ==
  /\ waited[r] = Timeout
  /\ \E j \in {Load(r), Predict(r)} : Exec!Expire(j)
  /\ UNCHANGED <<registryVars, waited, age>>

----------------------------------------------------------------------------
\* Workers and pool threads.

WorkerTurn(w) ==
  /\ Exec!WorkerStep(w)
  /\ UNCHANGED <<registryVars, waited, age>>

\* A thread runs registry.get(alias) ...
GetStart(r) ==
  /\ Exec!ThreadStart(Load(r))
  /\ Reg!Enter(r)
  /\ UNCHANGED <<waited, age>>

GetLoad(r) ==
  /\ Reg!BeginLoad(r)
  /\ UNCHANGED <<executorVars, waited, age>>

GetEnd(r) ==
  /\ \/ (Reg!Hit(r) \/ Reg!FinishLoad(r)) /\ Exec!ThreadEnd(Load(r), "returned")
     \/ Reg!FailLoad(r) /\ \E e \in {"raised", "timeout"} : Exec!ThreadEnd(Load(r), e)
  /\ UNCHANGED <<waited, age>>

\* ... or agent.predict(state, questions).
PredictStart(r) ==
  /\ Exec!ThreadStart(Predict(r))
  /\ UNCHANGED <<registryVars, waited, age>>

PredictEnd(r) ==
  /\ \E e \in Exec!Outcomes : Exec!ThreadEnd(Predict(r), e)
  /\ UNCHANGED <<registryVars, waited, age>>

----------------------------------------------------------------------------
\* The clock.

Open(r) == \E j \in {Load(r), Predict(r)} : caller[j] \in {"waiting", "expired"}

\* A callback of the request's coroutine is due: a timer, a future, a timeout.
Due(r) ==
  \E j \in {Load(r), Predict(r)} :
    \/ caller[j] = "expired"
    \/ caller[j] = "waiting" /\ future[j] # "pending"
    \/ caller[j] = "waiting" /\ j \in TimedJobs /\ waited[r] = Timeout

\* Without a request there is nothing to time: the clock stands still.
Tick ==
  /\ \A r \in Requests : ~Due(r)
  /\ \E r \in Requests : Open(r)
  /\ waited' = [r \in Requests |-> IF Open(r) THEN waited[r] + 1 ELSE waited[r]]
  /\ age' = [r \in Requests |-> IF Open(r) THEN age[r] + 1 ELSE age[r]]
  /\ UNCHANGED <<executorVars, registryVars>>

----------------------------------------------------------------------------
Closed(r) == caller[Load(r)] # "idle" /\ ~Open(r)

\* Every request is answered and no thread runs: the server waits for clients.
Rest ==
  /\ \A r \in Requests : Closed(r)
  /\ Exec!InThreads = {}
  /\ \A w \in Exec!Workers : task[w] = "get"
  /\ UNCHANGED vars

RequestStep(r) == Begin(r) \/ Continue(r) \/ Conclude(r) \/ Expire(r)
ThreadStep(r) ==
  GetStart(r) \/ GetLoad(r) \/ GetEnd(r) \/ PredictStart(r) \/ PredictEnd(r)

ServerNext ==
  \/ Serve
  \/ \E r \in Requests : RequestStep(r) \/ ThreadStep(r)
  \/ \E w \in Exec!Workers : WorkerTurn(w)
  \/ Tick
  \/ Rest

\* The event loop runs what is due and time goes on; threads may hang.
ServerFairness ==
  /\ \A r \in Requests : WF_vars(Continue(r)) /\ WF_vars(Conclude(r)) /\ WF_vars(Expire(r))
  /\ \A w \in Exec!Workers : WF_vars(WorkerTurn(w))
  /\ WF_vars(Tick)

ServerSpec == ServerInit /\ [][ServerNext]_vars
FairServerSpec == ServerSpec /\ ServerFairness

----------------------------------------------------------------------------
ServerTypeOK ==
  /\ Exec!TypeOK
  /\ Reg!RegistryTypeOK
  /\ waited \in [Requests -> 0 .. Timeout]
  /\ age \in [Requests -> Nat]

\* No request stays open longer than two execution timeouts, even when model
\* loads and predictions never end: one for each submit().
TwoDeadlines == \A r \in Requests : age[r] <= 2 * Timeout

\* What docs/server.md:112 says of the deadline: it covers the whole request.
\* TLC refutes it as an invariant of MCPredictServer.cfg (see TwoDeadlines for what holds).
WholeRequestDeadline == \A r \in Requests : age[r] <= Timeout

\* The server only ever uses the executor and the registry as BoundedExecutor and
\* AgentRegistry allow.
UsesExecutor == Exec!Spec
UsesRegistry == Reg!RegistrySpec

\* A prediction is queued only for an alias whose Agent is resident, and it is
\* this Agent that the request was handed.
PredictsOnResident ==
  \A r \in Requests :
    caller[Predict(r)] # "idle" => got[r] # 0 /\ got[r] = agents[AliasOf[r]]

\* Every accepted request is answered.
EveryRequestAnswered == \A r \in Requests : Open(r) ~> Closed(r)
=============================================================================
