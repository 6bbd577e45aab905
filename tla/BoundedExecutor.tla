-------------------------- MODULE BoundedExecutor --------------------------
(***************************************************************************)
(* The bounded request queue of server/queue.py: submit() puts a job on a  *)
(* FIFO of fixed capacity and waits for the job's future, worker tasks     *)
(* take jobs off it and run them in pool threads, a deadline may answer    *)
(* the caller first, and stop() cancels the worker tasks.                  *)
(*                                                                         *)
(* An action is one uninterrupted step of the event loop (a task between   *)
(* two awaits) or one step of a pool thread.  A job is one call of         *)
(* submit(); its caller is the coroutine that awaits it.                   *)
(***************************************************************************)
EXTENDS Integers, Sequences, FiniteSets

CONSTANTS
  Jobs,         \* the calls of submit()
  NoJob,        \* what an idle worker holds
  Timed,        \* the calls that pass a timeout
  Capacity,     \* maxsize of the queue
  Concurrency,  \* worker tasks created by one start()
  MaxStops,     \* bound: how often stop() finds workers to cancel
  Generations   \* bound: sets of worker tasks that can be told apart; one for the first
                \* start() and one after each stop() are all that the code creates

ASSUME ExecutorAssumption ==
  /\ Capacity \in Nat \ {0}
  /\ Concurrency \in Nat \ {0}
  /\ MaxStops \in Nat
  /\ Generations \in Nat /\ Generations > MaxStops
  /\ NoJob \notin Jobs
  /\ Timed \subseteq Jobs

\* A worker task is named by the start() that created it and its index there.
Workers == (1 .. Generations) \X (1 .. Concurrency)

VARIABLES
  queue,      \* self._queue
  starts,     \* how often start() has created worker tasks
  stops,      \* how often stop() has cancelled them
  task,       \* where each worker task is
  job,        \* the job each worker task holds
  thread,     \* what the pool has done with each job's fn
  future,     \* each job's future
  discarded,  \* job.discarded
  caller,     \* where each caller of submit() is
  accepted    \* history: the jobs put on the queue, in that order

vars == <<queue, starts, stops, task, job, thread, future, discarded, caller, accepted>>

----------------------------------------------------------------------------
\* How fn ended: with a value, an exception, or a TimeoutError of its own.
Outcomes == {"returned", "raised", "timeout"}

\* dropped: the pool future was cancelled before a thread picked it up.
ThreadStates == {"none", "pooled", "running", "dropped"} \cup Outcomes

\* interrupted: the exception set is the CancelledError a worker caught.
FutureStates == {"none", "pending", "cancelled", "interrupted"} \cup Outcomes

\* expired: the deadline has passed and wait_for is cancelling the future.
Answers == {"returned", "raised", "interrupted", "SERVER_BUSY", "QUEUE_FULL"}
CallerStates == {"idle", "waiting", "expired"} \cup Answers

\* cancelled: stop() has cancelled the task while it awaits its thread.
TaskStates == {"unborn", "get", "run", "cancelled", "ended"}

TypeOK ==
  /\ queue \in Seq(Jobs)
  /\ starts \in 0 .. MaxStops + 1
  /\ stops \in 0 .. MaxStops
  /\ task \in [Workers -> TaskStates]
  /\ job \in [Workers -> Jobs \cup {NoJob}]
  /\ thread \in [Jobs -> ThreadStates]
  /\ future \in [Jobs -> FutureStates]
  /\ discarded \in [Jobs -> BOOLEAN]
  /\ caller \in [Jobs -> CallerStates]
  /\ accepted \in Seq(Jobs)

Init ==
  /\ queue = << >>
  /\ starts = 0
  /\ stops = 0
  /\ task = [w \in Workers |-> "unborn"]
  /\ job = [w \in Workers |-> NoJob]
  /\ thread = [j \in Jobs |-> "none"]
  /\ future = [j \in Jobs |-> "none"]
  /\ discarded = [j \in Jobs |-> FALSE]
  /\ caller = [j \in Jobs |-> "idle"]
  /\ accepted = << >>

----------------------------------------------------------------------------
\* Starting and stopping.

Active == starts > stops                  \* self._workers is not empty
Current == {w \in Workers : Active /\ w[1] = starts}   \* self._workers

\* start(): only an executor without workers creates them.
StartWorkersOnFlag ==                     \* mutant: a mark of stop() is never taken back
  IF Active /\ stops = 0
  THEN UNCHANGED <<starts, task>>
  ELSE /\ starts' = starts + 1
       /\ task' = [w \in Workers |-> IF w[1] = starts + 1 THEN "get" ELSE task[w]]
StartWorkers ==
  IF Active
  THEN UNCHANGED <<starts, task>>
  ELSE /\ starts' = starts + 1
       /\ task' = [w \in Workers |-> IF w[1] = starts + 1 THEN "get" ELSE task[w]]

Start ==
  /\ ~Active
  /\ StartWorkers
  /\ UNCHANGED <<queue, stops, job, thread, future, discarded, caller, accepted>>

\* stop(): an idle task is cancelled inside queue.get() and ends.  A task that
\* awaits its thread will see the CancelledError where it awaits.
Stop ==
  /\ Active
  /\ stops < MaxStops
  /\ stops' = stops + 1
  /\ task' = [w \in Workers |->
                CASE w \in Current /\ task[w] = "get" -> "ended"
                  [] w \in Current /\ task[w] = "run" -> "cancelled"
                  [] OTHER -> task[w]]
  /\ UNCHANGED <<queue, starts, job, thread, future, discarded, caller, accepted>>

----------------------------------------------------------------------------
\* The caller: submit().

Full == Len(queue) >= Capacity

PutFirst(j) == <<j>> \o queue             \* mutant: last in, first out
Put(j) == Append(queue, j)

\* Up to the await; callers is what the step has made of caller so far.
Enqueue(j, callers) ==
  /\ StartWorkers
  /\ \/ /\ Full
        /\ caller' = [callers EXCEPT ![j] = "QUEUE_FULL"]
        /\ UNCHANGED <<queue, future, accepted>>
     \/ /\ ~Full
        /\ queue' = Put(j)
        /\ future' = [future EXCEPT ![j] = "pending"]
        /\ caller' = [callers EXCEPT ![j] = "waiting"]
        /\ accepted' = Append(accepted, j)
  /\ UNCHANGED <<stops, job, thread, discarded>>

Submit(j) == caller[j] = "idle" /\ Enqueue(j, caller)

\* The deadline passes first: wait_for cancels the future ...
Expire(j) ==
  /\ j \in Timed
  /\ caller[j] = "waiting"
  /\ future[j] = "pending"
  /\ future' = [future EXCEPT ![j] = "cancelled"]
  /\ caller' = [caller EXCEPT ![j] = "expired"]
  /\ UNCHANGED <<queue, starts, stops, task, job, thread, discarded, accepted>>

BusySwallowed(j) ==                       \* mutant: the TimeoutError is swallowed and
  /\ discarded' = [discarded EXCEPT ![j] = TRUE]     \* the future awaited again
  /\ caller' = [caller EXCEPT ![j] = "waiting"]
  /\ UNCHANGED <<queue, starts, stops, task, job, thread, future, accepted>>
Busy(j) ==
  /\ discarded' = [discarded EXCEPT ![j] = TRUE]
  /\ caller' = [caller EXCEPT ![j] = "SERVER_BUSY"]
  /\ UNCHANGED <<queue, starts, stops, task, job, thread, future, accepted>>

\* ... and raises TimeoutError, which submit() turns into SERVER_BUSY.
Discard(j) == caller[j] = "expired" /\ Busy(j)

\* The future is done and the caller runs again.  A TimeoutError of fn itself
\* cannot be told from the deadline.  Where the deadline passed between the
\* result and this step, Python 3.11 returns the result and 3.12 times out.
Resume(j) ==
  /\ caller[j] = "waiting"
  /\ \/ /\ future[j] \in {"returned", "raised", "interrupted"}
        /\ caller' = [caller EXCEPT ![j] = future[j]]
        /\ UNCHANGED <<queue, starts, stops, task, job, thread, future, discarded, accepted>>
     \/ /\ \/ future[j] = "timeout"
           \/ j \in Timed /\ future[j] \in {"returned", "raised", "interrupted"}
        /\ Busy(j)

\* A coroutine that gets a value may call submit() again before its next await,
\* as _predict() of app.py does: no other step comes between.
Resubmit(i, j) ==
  /\ caller[i] = "waiting"
  /\ future[i] = "returned"
  /\ caller[j] = "idle"
  /\ Enqueue(j, [caller EXCEPT ![i] = "returned"])

----------------------------------------------------------------------------
\* The worker tasks: _worker().

LiveUnlessDiscarded(j) == ~discarded[j]   \* mutant: future.cancelled() not asked
Live(j) == ~discarded[j] /\ future[j] # "cancelled"

\* The loop from queue.get() to the next await drops the dead jobs at the head
\* of the queue.  With no live one left the task waits in queue.get() ...
\* (threads is what the step has made of thread so far.)
AwaitJob(w, threads) ==
  /\ \A k \in DOMAIN queue : ~Live(queue[k])
  /\ queue' = << >>
  /\ task' = [task EXCEPT ![w] = "get"]
  /\ job' = [job EXCEPT ![w] = NoJob]
  /\ thread' = threads

\* ... and the first live one, at place k, goes to the thread pool.
HandOver(w, k, threads) ==
  /\ Live(queue[k])
  /\ \A l \in 1 .. k - 1 : ~Live(queue[l])
  /\ queue' = SubSeq(queue, k + 1, Len(queue))
  /\ task' = [task EXCEPT ![w] = "run"]
  /\ job' = [job EXCEPT ![w] = queue[k]]
  /\ thread' = [threads EXCEPT ![queue[k]] = "pooled"]

FetchHeadOnly(w, threads) ==              \* mutant: `return` for `continue`, so
  \/ /\ queue # << >> /\ ~Live(Head(queue))          \* a dead job ends the task
     /\ queue' = Tail(queue)
     /\ task' = [task EXCEPT ![w] = "ended"]
     /\ job' = [job EXCEPT ![w] = NoJob]
     /\ thread' = threads
  \/ queue = << >> /\ AwaitJob(w, threads)
  \/ queue # << >> /\ HandOver(w, 1, threads)
Fetch(w, threads) ==
  AwaitJob(w, threads) \/ \E k \in DOMAIN queue : HandOver(w, k, threads)

\* A worker waiting in queue.get() is woken.
Take(w) ==
  /\ task[w] = "get"
  /\ queue # << >>
  /\ Fetch(w, thread)
  /\ UNCHANGED <<starts, stops, future, discarded, caller, accepted>>

\* set_result / set_exception, unless the future is done already.
ResolveAsValue(j, outcome) ==             \* mutant: an exception is not forwarded
  future' = IF future[j] = "pending" THEN [future EXCEPT ![j] = "returned"] ELSE future
ResolveUnlessCancelled(j, outcome) ==     \* mutant: except Exception, so a CancelledError
  future' = IF future[j] = "pending" /\ outcome # "interrupted"      \* is not forwarded
            THEN [future EXCEPT ![j] = outcome] ELSE future
Resolve(j, outcome) ==
  future' = IF future[j] = "pending" THEN [future EXCEPT ![j] = outcome] ELSE future

\* The thread has ended and the worker runs again.
Finish(w) ==
  /\ task[w] = "run"
  /\ thread[job[w]] \in Outcomes
  /\ Resolve(job[w], thread[job[w]])
  /\ Fetch(w, thread)
  /\ UNCHANGED <<starts, stops, discarded, caller, accepted>>

\* The CancelledError of stop() reaches the await: a job no thread has begun is
\* dropped by the pool, the exception goes to the caller, and the loop goes on.
Interrupt(w) ==
  /\ task[w] = "cancelled"
  /\ Resolve(job[w], "interrupted")
  /\ Fetch(w, IF thread[job[w]] = "pooled"
              THEN [thread EXCEPT ![job[w]] = "dropped"] ELSE thread)
  /\ UNCHANGED <<starts, stops, discarded, caller, accepted>>

----------------------------------------------------------------------------
\* The pool threads: asyncio.to_thread.

ThreadStart(j) ==
  /\ thread[j] = "pooled"
  /\ thread' = [thread EXCEPT ![j] = "running"]
  /\ UNCHANGED <<queue, starts, stops, task, job, future, discarded, caller, accepted>>

ThreadEnd(j, outcome) ==
  /\ thread[j] = "running"
  /\ thread' = [thread EXCEPT ![j] = outcome]
  /\ UNCHANGED <<queue, starts, stops, task, job, future, discarded, caller, accepted>>

----------------------------------------------------------------------------
Answered(j) == caller[j] \in Answers

\* Nothing is left to do: the one state in which the executor may rest.
Quiescent ==
  /\ Active
  /\ \A j \in Jobs : Answered(j) /\ thread[j] \notin {"pooled", "running"}
  /\ \A w \in Workers : task[w] \in {"unborn", "get", "ended"}
  /\ UNCHANGED vars

CallerStep(j) == Submit(j) \/ Expire(j) \/ Discard(j) \/ Resume(j)
WorkerStep(w) == Take(w) \/ Finish(w) \/ Interrupt(w)
ThreadStep(j) == ThreadStart(j) \/ \E outcome \in Outcomes : ThreadEnd(j, outcome)

Next ==
  \/ Start
  \/ Stop
  \/ \E j \in Jobs : CallerStep(j) \/ ThreadStep(j)
  \/ \E i, j \in Jobs : Resubmit(i, j)
  \/ \E w \in Workers : WorkerStep(w)
  \/ Quiescent

\* The event loop runs every callback it has been given, and timers fire.
\* Nothing is assumed of callers (they need not call) or of pool threads.
LoopFairness ==
  /\ \A j \in Jobs : WF_vars(Expire(j)) /\ WF_vars(Discard(j)) /\ WF_vars(Resume(j))
  /\ \A w \in Workers : WF_vars(WorkerStep(w))

\* Every fn that a thread runs comes to an end.
ThreadFairness == \A j \in Jobs : WF_vars(ThreadStep(j))

Spec == Init /\ [][Next]_vars
FairSpec == Spec /\ LoopFairness

----------------------------------------------------------------------------
\* Safety.

Queued(j) == \E k \in DOMAIN queue : queue[k] = j
Held(j) == \E w \in Workers : job[w] = j

\* The queue never outgrows its capacity, and no job is on it twice.
QueueBounded ==
  /\ Len(queue) <= Capacity
  /\ \A k, l \in DOMAIN queue : queue[k] = queue[l] => k = l

\* A caller that waits on an unresolved future waits for something: its job is
\* queued, or exactly one worker task holds it, never both.  Expiry, discarding
\* and cancellation of workers lose no job.
NoLostJob ==
  \A j \in Jobs :
    /\ future[j] = "pending" => (Queued(j) \/ Held(j))
    /\ Queued(j) => ~Held(j) /\ thread[j] = "none"
    /\ \A v, w \in Workers : job[v] = j /\ job[w] = j => v = w

\* What the caller is told is what became of its own job: a value or an error
\* only if its fn ended so, and a CancelledError only after a stop().
AnswerMatchesRun ==
  \A j \in Jobs :
    /\ caller[j] \in {"returned", "raised"} => thread[j] = caller[j]
    /\ caller[j] = "interrupted" => stops > 0
    /\ caller[j] = "QUEUE_FULL" => thread[j] = "none" /\ ~Queued(j)
    /\ caller[j] = "SERVER_BUSY" /\ j \notin Timed => thread[j] = "timeout"

\* First in, first out: no job reaches a thread while one accepted before it is
\* still on the queue.
NoOvertaking ==
  \A a, b \in DOMAIN accepted :
    a < b /\ thread[accepted[b]] # "none" => ~Queued(accepted[a])

\* The jobs a thread runs, or is about to run.
InThreads == {j \in Jobs : thread[j] \in {"pooled", "running"}}

\* Until stop() is called there are never more jobs in threads than workers,
\* although every deadline may have passed: a timed-out job keeps its worker.
Serialised == stops = 0 => Cardinality(InThreads) <= Concurrency

\* Each stop() can add at most Concurrency new workers and leave Concurrency
\* threads behind.
ThreadsBounded == Cardinality(InThreads) <= Concurrency * (2 * stops + 1)

\* A job is handed to the pool only for a caller that still waits.
NoWorkForTheAnswered ==
  [][\A j \in Jobs :
       thread[j] = "none" /\ thread'[j] = "pooled" => caller[j] = "waiting"]_vars

----------------------------------------------------------------------------
\* Liveness.

\* A caller with a deadline is answered even if no thread ever ends and every
\* worker has been stopped.
DeadlineAnswers == \A j \in Timed : (caller[j] = "waiting") ~> Answered(j)

\* If fn calls end and nobody stops the executor, every caller is answered and a
\* full queue has room again, whatever jobs on it have expired.
Drains ==
  ThreadFairness /\ [](stops = 0) =>
    /\ \A j \in Jobs : (caller[j] = "waiting") ~> Answered(j)
    /\ Full ~> ~Full
=============================================================================
