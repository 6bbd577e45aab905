-------------------------- MODULE SharedObjectProofs --------------------------
(***************************************************************************)
(* The two objects that the requests of a server share.                    *)
(*                                                                         *)
(* First the executor (server/queue.py): what holds of BoundedExecutor for *)
(* any number of jobs, any capacity, any concurrency and any number of     *)
(* stops, and that it implements the bounded first-come first-served       *)
(* service.                                                                *)
(*                                                                         *)
(* Then the registry (server/queue.py, AgentRegistry), for any number of   *)
(* calls and aliases: the one lock keeps the promise of the class's        *)
(* docstring, one model copy per alias, through loads that fail and loads  *)
(* that outlive their callers.                                             *)
(***************************************************************************)
EXTENDS ExecutorService, AgentRegistry, TLAPS, FiniteSetTheorems, SequenceTheorems

----------------------------------------------------------------------------
\* The inductive invariant.

\* Worker tasks: who holds a job, and that a job has one holder.
WorkerInv ==
  /\ starts \in {stops, stops + 1}
  /\ \A w \in Workers :
       /\ job[w] # NoJob <=> task[w] \in {"run", "cancelled"}
       /\ task[w] = "unborn" <=> w[1] > starts
       /\ task[w] = "cancelled" => stops > 0
       /\ job[w] # NoJob => thread[job[w]] \notin {"none", "dropped"}
  /\ \A v, w \in Workers : job[v] = job[w] /\ job[v] # NoJob => v = w

\* The queue: bounded, without repetition, of jobs no thread has touched.
QueueInv ==
  /\ Len(queue) <= Capacity
  /\ \A k, l \in 1 .. Len(queue) : queue[k] = queue[l] => k = l
  /\ \A k \in 1 .. Len(queue) :
       /\ thread[queue[k]] = "none"
       /\ future[queue[k]] \in {"pending", "cancelled"}

\* A future and the caller that awaits it.
FutureInv ==
  \A j \in Jobs :
    /\ future[j] \in Outcomes => thread[j] = future[j]
    /\ future[j] = "interrupted" => stops > 0 /\ thread[j] # "none"
    /\ future[j] = "none" <=> caller[j] \in {"idle", "QUEUE_FULL"}
    /\ future[j] = "none" => thread[j] = "none"
    /\ future[j] = "pending" => caller[j] = "waiting"
    /\ future[j] = "cancelled" => caller[j] \in {"expired", "SERVER_BUSY"} /\ j \in Timed
    /\ caller[j] = "expired" => future[j] = "cancelled"
    /\ discarded[j] => caller[j] = "SERVER_BUSY"
    /\ caller[j] \in {"returned", "raised"} => thread[j] = caller[j]
    /\ caller[j] = "interrupted" => stops > 0
    /\ caller[j] = "SERVER_BUSY" /\ j \notin Timed => thread[j] = "timeout"

\* An unresolved future has its job on the queue or with a worker; until a
\* stop, so has every job in the pool.
CustodyInv ==
  \A j \in Jobs :
    /\ future[j] = "pending" => Queued(j) \/ Held(j)
    /\ stops = 0 /\ j \in InThreads => Held(j)

\* The queue is what is left of the accepted jobs.
HistoryInv ==
  /\ Len(queue) <= Len(accepted)
  /\ \A k \in 1 .. Len(queue) : queue[k] = accepted[Len(accepted) - Len(queue) + k]
  /\ \A a, b \in 1 .. Len(accepted) : accepted[a] = accepted[b] => a = b
  /\ \A a \in 1 .. Len(accepted) : future[accepted[a]] # "none"

IInv == TypeOK /\ WorkerInv /\ QueueInv /\ FutureInv /\ CustodyInv /\ HistoryInv

----------------------------------------------------------------------------
\* A call of submit(), by a new caller or by one that has just got its value:
\* callers is caller as the call finds it.
Posts(j, callers) ==
  /\ caller[j] = "idle" /\ callers[j] = "idle"
  /\ callers \in [Jobs -> CallerStates]
  /\ \A i \in Jobs :
       \/ callers[i] = caller[i]
       \/ caller[i] = "waiting" /\ future[i] = "returned" /\ callers[i] = "returned"
  /\ Enqueue(j, callers)

LEMMA PostFacts ==
  ASSUME TypeOK, NEW i \in Jobs, NEW j \in Jobs, Submit(j) \/ Resubmit(i, j)
  PROVE  \E callers : Posts(j, callers)
<1>1. CASE Submit(j)
  <2>1. Posts(j, caller)
    BY <1>1 DEF Submit, Posts, TypeOK
  <2> QED
    BY <2>1
<1>2. CASE Resubmit(i, j)
  <2>1. Posts(j, [caller EXCEPT ![i] = "returned"])
    BY <1>2 DEF Resubmit, Posts, TypeOK, CallerStates, Answers
  <2> QED
    BY <2>1
<1> QED
  BY <1>1, <1>2

----------------------------------------------------------------------------
\* Type correctness.

LEMMA WorkersType == \A w \in Workers : w[1] \in 1 .. Generations /\ w[2] \in 1 .. Concurrency
BY DEF Workers

LEMMA WorkersPair == \A v, w \in Workers : v[1] = w[1] /\ v[2] = w[2] => v = w
BY DEF Workers

LEMMA FetchType ==
  ASSUME TypeOK, NEW w \in Workers, NEW threads \in [Jobs -> ThreadStates], Fetch(w, threads)
  PROVE  /\ queue' \in Seq(Jobs)
         /\ task' \in [Workers -> TaskStates]
         /\ job' \in [Workers -> Jobs \cup {NoJob}]
         /\ thread' \in [Jobs -> ThreadStates]
<1> USE DEF TypeOK, ThreadStates, TaskStates
<1>1. CASE AwaitJob(w, threads)
  BY <1>1, EmptySeq DEF AwaitJob
<1>2. ASSUME NEW k \in DOMAIN queue, HandOver(w, k, threads)
      PROVE  /\ queue' \in Seq(Jobs)
             /\ task' \in [Workers -> TaskStates]
             /\ job' \in [Workers -> Jobs \cup {NoJob}]
             /\ thread' \in [Jobs -> ThreadStates]
  <2>1. k \in 1 .. Len(queue) /\ queue[k] \in Jobs
    BY <1>2, LenProperties, ElementOfSeq
  <2>2. SubSeq(queue, k + 1, Len(queue)) \in Seq(Jobs)
    <3>1. \A i \in k + 1 .. Len(queue) : queue[i] \in Jobs
      BY <2>1, LenProperties, ElementOfSeq
    <3> QED
      BY <2>1, <3>1, LenProperties, SubSeqProperties
  <2> QED
    BY <1>2, <2>1, <2>2 DEF HandOver
<1> QED
  BY <1>1, <1>2 DEF Fetch

LEMMA InitType == Init => TypeOK
BY ExecutorAssumption DEF Init, TypeOK, TaskStates, ThreadStates, FutureStates, CallerStates

LEMMA NextType == TypeOK /\ [Next]_vars => TypeOK'
<1> SUFFICES ASSUME TypeOK, [Next]_vars
             PROVE  TypeOK'
  OBVIOUS
<1> USE ExecutorAssumption DEF TypeOK, FutureStates, CallerStates, Answers, Outcomes
<1>1. CASE Start
  BY <1>1 DEF Start, StartWorkers, Active, TaskStates
<1>2. CASE Stop
  BY <1>2 DEF Stop, Active, TaskStates
<1>3. ASSUME NEW j \in Jobs, NEW callers, Posts(j, callers) PROVE TypeOK'
  <2>1. Append(queue, j) \in Seq(Jobs) /\ Append(accepted, j) \in Seq(Jobs)
    BY AppendProperties
  <2>2. starts' \in 0 .. MaxStops + 1 /\ task' \in [Workers -> TaskStates]
    BY <1>3 DEF Posts, Enqueue, StartWorkers, Active, TaskStates
  <2>3. future' \in [Jobs -> FutureStates] /\ caller' \in [Jobs -> CallerStates]
    <3>1. \E v \in {"QUEUE_FULL", "waiting"} : caller' = [callers EXCEPT ![j] = v]
      BY <1>3 DEF Posts, Enqueue
    <3>2. callers \in [Jobs -> CallerStates] /\ future' \in [Jobs -> FutureStates]
      BY <1>3 DEF Posts, Enqueue
    <3> QED
      BY <3>1, <3>2
  <2> QED
    BY <1>3, <2>1, <2>2, <2>3 DEF Posts, Enqueue, Put
<1>4. ASSUME NEW j \in Jobs, Expire(j) \/ Discard(j) \/ Resume(j) PROVE TypeOK'
  BY <1>4 DEF Expire, Discard, Resume, Busy
<1>5. ASSUME NEW j \in Jobs, ThreadStep(j) PROVE TypeOK'
  BY <1>5 DEF ThreadStep, ThreadStart, ThreadEnd, ThreadStates
<1>6. ASSUME NEW w \in Workers, Take(w) PROVE TypeOK'
  BY <1>6, FetchType DEF Take
<1>7. ASSUME NEW w \in Workers, Finish(w) PROVE TypeOK'
  BY <1>7, FetchType DEF Finish, Resolve
<1>8. ASSUME NEW w \in Workers, Interrupt(w) PROVE TypeOK'
  <2> DEFINE threads == IF thread[job[w]] = "pooled"
                        THEN [thread EXCEPT ![job[w]] = "dropped"] ELSE thread
  <2>1. threads \in [Jobs -> ThreadStates]
    BY DEF ThreadStates
  <2> QED
    BY <1>8, <2>1, FetchType DEF Interrupt, Resolve
<1>9. CASE UNCHANGED vars
  BY <1>9 DEF vars
<1> QED
  BY <1>1, <1>2, <1>3, <1>4, <1>5, <1>6, <1>7, <1>8, <1>9, PostFacts
  DEF Next, CallerStep, WorkerStep, Quiescent

\* Every reachable state of the executor is well typed.
THEOREM TypeCorrect == Spec => []TypeOK
BY InitType, NextType, PTL DEF Spec

----------------------------------------------------------------------------
\* What a worker's turn at the queue does, seen from outside: n jobs leave its
\* head, each of them dead except the last, if that one goes to the worker.

Taken(w, threads, n) ==
  /\ \A v \in Workers \ {w} : task'[v] = task[v] /\ job'[v] = job[v]
  /\ Len(queue') = Len(queue) - n
  /\ \A k \in 1 .. Len(queue') : queue'[k] = queue[n + k]
  /\ \/ /\ job'[w] = NoJob
        /\ task'[w] = "get"
        /\ thread' = threads
        /\ \A k \in 1 .. n : ~Live(queue[k])
     \/ /\ n > 0
        /\ job'[w] = queue[n]
        /\ task'[w] = "run"
        /\ thread' = [threads EXCEPT ![queue[n]] = "pooled"]
        /\ Live(queue[n])
        /\ \A k \in 1 .. n - 1 : ~Live(queue[k])

LEMMA FetchFacts ==
  ASSUME TypeOK, NEW w \in Workers, NEW threads \in [Jobs -> ThreadStates], Fetch(w, threads)
  PROVE  \E n \in 0 .. Len(queue) : Taken(w, threads, n)
<1> USE DEF TypeOK
<1>1. CASE AwaitJob(w, threads)
  <2>1. Len(queue) \in 0 .. Len(queue) /\ Len(queue') = Len(queue) - Len(queue)
    BY <1>1, EmptySeq, LenProperties DEF AwaitJob
  <2>2. \A k \in 1 .. Len(queue) : ~Live(queue[k])
    BY <1>1, LenProperties DEF AwaitJob
  <2>3. \A k \in 1 .. Len(queue') : queue'[k] = queue[Len(queue) + k]
    BY <2>1, LenProperties
  <2>4. job'[w] = NoJob /\ task'[w] = "get" /\ thread' = threads
    BY <1>1 DEF AwaitJob
  <2>5. \A v \in Workers \ {w} : task'[v] = task[v] /\ job'[v] = job[v]
    BY <1>1 DEF AwaitJob
  <2> QED
    BY <2>1, <2>2, <2>3, <2>4, <2>5 DEF Taken
<1>2. ASSUME NEW k \in DOMAIN queue, HandOver(w, k, threads)
      PROVE  k \in 0 .. Len(queue) /\ Taken(w, threads, k)
  <2>1. Len(queue) \in Nat /\ k \in 1 .. Len(queue)
    BY <1>2, LenProperties
  <2>2. \A i \in k + 1 .. Len(queue) : queue[i] \in Jobs
    BY <2>1, ElementOfSeq
  <2>3. queue' = SubSeq(queue, k + 1, Len(queue))
    BY <1>2 DEF HandOver
  <2>4. Len(queue') = Len(queue) - k
    BY <2>1, <2>2, <2>3, SubSeqProperties
  <2>5. \A l \in 1 .. Len(queue) - (k + 1) + 1 : queue'[l] = queue[(k + 1) + l - 1]
    BY <2>1, <2>2, <2>3, SubSeqProperties
  <2>6. \A l \in 1 .. Len(queue') : queue'[l] = queue[k + l]
    <3> TAKE l \in 1 .. Len(queue')
    <3>1. l \in 1 .. Len(queue) - (k + 1) + 1 /\ (k + 1) + l - 1 = k + l
      BY <2>1, <2>4
    <3> QED
      BY <2>5, <3>1
  <2> QED
    BY <1>2, <2>1, <2>4, <2>6 DEF HandOver, Taken
<1> QED
  BY <1>1, <1>2 DEF Fetch

\* A worker's whole turn: the job it held is settled, then it goes to the queue.
Turn(w, threads, n) ==
  /\ Taken(w, threads, n)
  /\ UNCHANGED <<starts, stops, discarded, caller, accepted>>
  /\ \A j \in Jobs : j # job[w] => threads[j] = thread[j] /\ future'[j] = future[j]
  /\ task[w] = "get" => threads = thread /\ future' = future
  /\ \A j \in Jobs : j = job[w] =>
       /\ task[w] = "run" => thread[j] \in Outcomes /\ threads[j] = thread[j]
       /\ task[w] = "cancelled" =>
            threads[j] = IF thread[j] = "pooled" THEN "dropped" ELSE thread[j]
       /\ future[j] # "pending" => future'[j] = future[j]
       /\ future[j] = "pending" =>
            future'[j] = IF task[w] = "run" THEN thread[j] ELSE "interrupted"

LEMMA TurnFacts ==
  ASSUME TypeOK, WorkerInv, NEW w \in Workers, WorkerStep(w)
  PROVE  /\ task[w] \in {"get", "run", "cancelled"}
         /\ \E threads \in [Jobs -> ThreadStates], n \in 0 .. Len(queue) : Turn(w, threads, n)
<1> USE DEF TypeOK, WorkerInv
<1>1. CASE Take(w)
  <2>1. task[w] = "get" /\ job[w] \notin Jobs
    BY <1>1, ExecutorAssumption DEF Take
  <2>2. PICK n \in 0 .. Len(queue) : Taken(w, thread, n)
    BY <1>1, FetchFacts DEF Take
  <2> QED
    BY <1>1, <2>1, <2>2 DEF Take, Turn
<1>2. CASE Finish(w)
  <2>1. job[w] \in Jobs /\ task[w] = "run"
    BY <1>2 DEF Finish
  <2>2. PICK n \in 0 .. Len(queue) : Taken(w, thread, n)
    BY <1>2, FetchFacts DEF Finish
  <2> QED
    BY <1>2, <2>1, <2>2 DEF Finish, Resolve, Turn
<1>3. CASE Interrupt(w)
  <2> DEFINE threads == IF thread[job[w]] = "pooled"
                        THEN [thread EXCEPT ![job[w]] = "dropped"] ELSE thread
  <2>1. job[w] \in Jobs /\ task[w] = "cancelled"
    BY <1>3 DEF Interrupt
  <2>2. threads \in [Jobs -> ThreadStates]
    BY DEF ThreadStates
  <2>3. PICK n \in 0 .. Len(queue) : Taken(w, threads, n)
    BY <1>3, <2>2, FetchFacts DEF Interrupt
  <2>4. Turn(w, threads, n)
    BY <1>3, <2>1, <2>3 DEF Interrupt, Resolve, Turn
  <2> QED
    BY <2>1, <2>2, <2>4
<1> QED
  BY <1>1, <1>2, <1>3 DEF WorkerStep

LEMMA TurnThreads ==
  ASSUME NEW w \in Workers, NEW threads, NEW n, Turn(w, threads, n),
         task[w] \in {"get", "run", "cancelled"}, NEW j \in Jobs
  PROVE  threads[j] = thread[j] \/ (thread[j] = "pooled" /\ threads[j] = "dropped")
<1>1. CASE j # job[w]
  BY <1>1 DEF Turn
<1>2. CASE j = job[w] /\ task[w] = "cancelled"
  BY <1>2 DEF Turn
<1>3. CASE j = job[w] /\ task[w] = "run"
  BY <1>3 DEF Turn
<1>4. CASE j = job[w] /\ task[w] = "get"
  BY <1>4 DEF Turn
<1> QED
  BY <1>1, <1>2, <1>3, <1>4

----------------------------------------------------------------------------
\* The invariant is inductive, one part after the other.

LEMMA InitInv == Init => IInv
<1> SUFFICES ASSUME Init PROVE IInv
  OBVIOUS
<1>1. TypeOK
  BY InitType
<1>2. Len(queue) = 0 /\ Len(accepted) = 0
  BY EmptySeq DEF Init
<1>3. WorkerInv
  BY ExecutorAssumption, WorkersType DEF Init, WorkerInv
<1>4. QueueInv
  BY <1>2, ExecutorAssumption DEF QueueInv
<1>5. FutureInv
  BY DEF Init, FutureInv, Outcomes
<1>6. CustodyInv
  BY DEF Init, CustodyInv, InThreads
<1>7. HistoryInv
  BY <1>2 DEF HistoryInv
<1> QED
  BY <1>1, <1>3, <1>4, <1>5, <1>6, <1>7 DEF IInv

LEMMA StepWorkerInv == IInv /\ [Next]_vars => WorkerInv'
<1> SUFFICES ASSUME IInv, [Next]_vars
             PROVE  WorkerInv'
  OBVIOUS
<1> USE ExecutorAssumption, WorkersType DEF IInv, TypeOK, WorkerInv
<1>1. CASE Start
  BY <1>1 DEF Start, StartWorkers, Active
<1>2. CASE Stop
  BY <1>2 DEF Stop, Active, Current
<1>3. ASSUME NEW j \in Jobs, NEW callers, Posts(j, callers) PROVE WorkerInv'
  BY <1>3 DEF Posts, Enqueue, StartWorkers, Active
<1>4. ASSUME NEW j \in Jobs, Expire(j) \/ Discard(j) \/ Resume(j) PROVE WorkerInv'
  BY <1>4 DEF Expire, Discard, Resume, Busy
<1>5. ASSUME NEW j \in Jobs, ThreadStep(j) PROVE WorkerInv'
  BY <1>5 DEF ThreadStep, ThreadStart, ThreadEnd, Outcomes
<1>6. ASSUME NEW w \in Workers, WorkerStep(w) PROVE WorkerInv'
  <2>1. PICK threads \in [Jobs -> ThreadStates], n \in 0 .. Len(queue) : Turn(w, threads, n)
    BY <1>6, TurnFacts
  <2>2. task[w] \in {"get", "run", "cancelled"}
    BY <1>6, TurnFacts
  <2>3. \A v \in Workers \ {w} :
          /\ task'[v] = task[v] /\ job'[v] = job[v]
          /\ job[v] # NoJob => job[v] # job[w] /\ threads[job[v]] = thread[job[v]]
    BY <2>1 DEF Turn, Taken
  <2>4. starts' = starts /\ stops' = stops
    BY <2>1 DEF Turn
  <2>5. CASE job'[w] = NoJob
    <3>1. task'[w] = "get" /\ thread' = threads
      <4>1. n > 0 => n \in 1 .. Len(queue) /\ queue[n] \in Jobs
        BY LenProperties, ElementOfSeq
      <4> QED
        BY <2>1, <2>5, <4>1 DEF Turn, Taken
    <3>2. \A v \in Workers :
            /\ job'[v] # NoJob <=> task'[v] \in {"run", "cancelled"}
            /\ task'[v] = "unborn" <=> v[1] > starts'
            /\ task'[v] = "cancelled" => stops' > 0
            /\ job'[v] # NoJob => thread'[job'[v]] \notin {"none", "dropped"}
      BY <2>2, <2>3, <2>4, <2>5, <3>1
    <3>3. \A u, v \in Workers : job'[u] = job'[v] /\ job'[u] # NoJob => u = v
      BY <2>3, <2>5
    <3> QED
      BY <2>4, <3>2, <3>3
  <2>6. CASE job'[w] # NoJob
    <3>1. /\ n \in 1 .. Len(queue) /\ job'[w] = queue[n] /\ task'[w] = "run"
          /\ thread' = [threads EXCEPT ![queue[n]] = "pooled"]
      BY <2>1, <2>6 DEF Turn, Taken
    <3>2. queue[n] \in Jobs /\ thread[queue[n]] = "none"
      BY <3>1, ElementOfSeq DEF QueueInv
    <3>3. \A v \in Workers : job[v] # queue[n]
      BY <3>2
    <3>4. ASSUME NEW v \in Workers
          PROVE  /\ job'[v] # NoJob <=> task'[v] \in {"run", "cancelled"}
                 /\ task'[v] = "unborn" <=> v[1] > starts'
                 /\ task'[v] = "cancelled" => stops' > 0
                 /\ job'[v] # NoJob => thread'[job'[v]] \notin {"none", "dropped"}
      <4>1. CASE v = w
        BY <2>2, <2>4, <3>1, <3>2, <4>1
      <4>2. CASE v # w
        BY <2>3, <2>4, <3>1, <3>2, <3>3, <4>2
      <4> QED
        BY <4>1, <4>2
    <3>5. \A u, v \in Workers : job'[u] = job'[v] /\ job'[u] # NoJob => u = v
      BY <2>3, <3>1, <3>3
    <3> QED
      BY <2>4, <3>4, <3>5
  <2> QED
    BY <2>5, <2>6
<1>7. CASE UNCHANGED vars
  BY <1>7 DEF vars
<1> QED
  BY <1>1, <1>2, <1>3, <1>4, <1>5, <1>6, <1>7, PostFacts DEF Next, CallerStep, Quiescent

LEMMA StepQueueInv == IInv /\ [Next]_vars => QueueInv'
<1> SUFFICES ASSUME IInv, [Next]_vars
             PROVE  QueueInv'
  OBVIOUS
<1> USE ExecutorAssumption DEF IInv, TypeOK, QueueInv
<1>1. CASE Start
  BY <1>1 DEF Start
<1>2. CASE Stop
  BY <1>2 DEF Stop
<1>3. ASSUME NEW j \in Jobs, NEW callers, Posts(j, callers) PROVE QueueInv'
  <2>1. CASE Full
    BY <1>3, <2>1 DEF Posts, Enqueue
  <2>2. CASE ~Full
    <3>1. queue' = Append(queue, j) /\ thread' = thread /\ Len(queue) + 1 <= Capacity
      BY <1>3, <2>2, LenProperties DEF Posts, Enqueue, Put, Full
    <3>2. /\ Len(queue) \in Nat /\ Len(queue') = Len(queue) + 1
          /\ \A k \in 1 .. Len(queue) : queue'[k] = queue[k]
          /\ queue'[Len(queue) + 1] = j
      BY <3>1, LenProperties, AppendProperties
    <3>3. future' = [future EXCEPT ![j] = "pending"] /\ thread[j] = "none" /\ future[j] = "none"
      BY <1>3, <2>2 DEF Posts, Enqueue, Full, FutureInv
    <3>4. \A k \in 1 .. Len(queue) : queue[k] \in Jobs /\ queue[k] # j
      BY <3>3, ElementOfSeq
    <3>5. \A k \in 1 .. Len(queue) + 1 : k \in 1 .. Len(queue) \/ k = Len(queue) + 1
      BY <3>2
    <3>6. Len(queue') <= Capacity
      BY <3>1, <3>2
    <3>7. \A k, l \in 1 .. Len(queue') : queue'[k] = queue'[l] => k = l
      <4>1. \A k, l \in 1 .. Len(queue) : queue[k] = queue[l] => k = l
        OBVIOUS
      <4> QED
        BY <3>2, <3>4, <3>5, <4>1
    <3>8. ASSUME NEW k \in 1 .. Len(queue')
          PROVE  thread'[queue'[k]] = "none" /\ future'[queue'[k]] \in {"pending", "cancelled"}
      <4>1. CASE k = Len(queue) + 1
        BY <3>1, <3>2, <3>3, <4>1
      <4>2. CASE k \in 1 .. Len(queue)
        <5>1. thread[queue[k]] = "none" /\ future[queue[k]] \in {"pending", "cancelled"}
          BY <4>2
        <5> QED
          BY <3>1, <3>2, <3>3, <3>4, <4>2, <5>1
      <4> QED
        BY <3>2, <3>5, <4>1, <4>2
    <3> QED
      BY <3>6, <3>7, <3>8
  <2> QED
    BY <2>1, <2>2
<1>4. ASSUME NEW j \in Jobs, Expire(j) \/ Discard(j) \/ Resume(j) PROVE QueueInv'
  <2>1. queue' = queue /\ thread' = thread
    BY <1>4 DEF Expire, Discard, Resume, Busy
  <2>2. \A i \in Jobs : future'[i] = future[i] \/ future'[i] = "cancelled"
    BY <1>4 DEF Expire, Discard, Resume, Busy
  <2> QED
    BY <2>1, <2>2, ElementOfSeq
<1>5. ASSUME NEW j \in Jobs, ThreadStep(j) PROVE QueueInv'
  <2>1. UNCHANGED <<queue, future>>
    BY <1>5 DEF ThreadStep, ThreadStart, ThreadEnd
  <2>2. \A i \in Jobs : thread[i] = "none" => thread'[i] = "none"
    BY <1>5 DEF ThreadStep, ThreadStart, ThreadEnd
  <2> QED
    BY <2>1, <2>2, ElementOfSeq
<1>6. ASSUME NEW w \in Workers, WorkerStep(w) PROVE QueueInv'
  <2>1. PICK threads \in [Jobs -> ThreadStates], n \in 0 .. Len(queue) : Turn(w, threads, n)
    BY <1>6, TurnFacts
  <2>2. task[w] \in {"get", "run", "cancelled"}
    BY <1>6, TurnFacts
  <2>3. Len(queue') = Len(queue) - n /\ \A k \in 1 .. Len(queue') : queue'[k] = queue[n + k]
    BY <2>1 DEF Turn, Taken
  <2>4. Len(queue) \in Nat /\ n \in 0 .. Len(queue)
    BY LenProperties
  <2>5. ASSUME NEW k \in 1 .. Len(queue')
        PROVE  /\ thread'[queue'[k]] = "none"
               /\ future'[queue'[k]] \in {"pending", "cancelled"}
    <3>1. n + k \in 1 .. Len(queue) /\ queue'[k] = queue[n + k]
      BY <2>3, <2>4
    <3>2. queue[n + k] \in Jobs /\ thread[queue[n + k]] = "none"
      BY <3>1, ElementOfSeq
    <3>3. queue[n + k] # job[w]
      BY <3>2, ExecutorAssumption DEF WorkerInv
    <3>4. /\ threads[queue[n + k]] = thread[queue[n + k]]
          /\ future'[queue[n + k]] = future[queue[n + k]]
      BY <2>1, <3>2, <3>3 DEF Turn
    <3>5. n > 0 => queue[n] # queue[n + k]
      BY <2>4, <3>1
    <3>6. thread'[queue[n + k]] = threads[queue[n + k]]
      BY <2>1, <3>2, <3>5 DEF Turn, Taken
    <3> QED
      BY <3>1, <3>2, <3>4, <3>6
  <2>6. \A k, l \in 1 .. Len(queue') : queue'[k] = queue'[l] => k = l
    <3>1. \A k \in 1 .. Len(queue') : n + k \in 1 .. Len(queue)
      BY <2>3, <2>4
    <3>2. TAKE k, l \in 1 .. Len(queue')
    <3>3. HAVE queue'[k] = queue'[l]
    <3>4. n + k \in 1 .. Len(queue) /\ n + l \in 1 .. Len(queue)
      BY <3>1
    <3>5. queue[n + k] = queue[n + l]
      BY <2>3, <3>3
    <3>6. n + k = n + l
      BY <3>4, <3>5
    <3> QED
      BY <3>6, <2>3, <2>4
  <2>7. Len(queue') <= Capacity
    BY <2>3, <2>4
  <2> QED
    BY <2>5, <2>6, <2>7
<1>7. CASE UNCHANGED vars
  BY <1>7 DEF vars
<1> QED
  BY <1>1, <1>2, <1>3, <1>4, <1>5, <1>6, <1>7, PostFacts DEF Next, CallerStep, Quiescent

LEMMA StepFutureInv == IInv /\ [Next]_vars => FutureInv'
<1> SUFFICES ASSUME IInv, [Next]_vars
             PROVE  FutureInv'
  OBVIOUS
<1> USE DEF IInv, TypeOK, FutureInv, Outcomes
<1>1. CASE Start
  BY <1>1 DEF Start
<1>2. CASE Stop
  BY <1>2 DEF Stop
<1>3. ASSUME NEW j \in Jobs, NEW callers, Posts(j, callers) PROVE FutureInv'
  BY <1>3 DEF Posts, Enqueue
<1>4. ASSUME NEW j \in Jobs, Expire(j) \/ Discard(j) \/ Resume(j) PROVE FutureInv'
  BY <1>4 DEF Expire, Discard, Resume, Busy
<1>5. ASSUME NEW j \in Jobs, ThreadStep(j) PROVE FutureInv'
  BY <1>5 DEF ThreadStep, ThreadStart, ThreadEnd
<1>6. ASSUME NEW w \in Workers, WorkerStep(w) PROVE FutureInv'
  <2>1. PICK threads \in [Jobs -> ThreadStates], n \in 0 .. Len(queue) : Turn(w, threads, n)
    BY <1>6, TurnFacts
  <2>2. task[w] \in {"get", "run", "cancelled"}
    BY <1>6, TurnFacts
  <2>3. stops' = stops /\ discarded' = discarded /\ caller' = caller
    BY <2>1 DEF Turn
  <2>4. ASSUME NEW j \in Jobs
        PROVE  \/ thread'[j] = thread[j]
               \/ thread[j] = "none" /\ future[j] = "pending" /\ thread'[j] = "pooled"
               \/ thread[j] = "pooled" /\ thread'[j] = "dropped"
    <3>1. threads[j] = thread[j] \/ (thread[j] = "pooled" /\ threads[j] = "dropped")
      BY <2>1, <2>2, TurnThreads
    <3>2. CASE n > 0 /\ j = queue[n] /\ job'[w] = queue[n]
      <4>1. thread[j] = "none" /\ future[j] = "pending"
        <5>1. n \in 1 .. Len(queue)
          BY <3>2, LenProperties
        <5>2. thread[j] = "none" /\ future[j] \in {"pending", "cancelled"}
          BY <3>2, <5>1 DEF QueueInv
        <5>3. Live(queue[n])
          BY <2>1, <3>2, ExecutorAssumption DEF Turn, Taken
        <5> QED
          BY <3>2, <5>2, <5>3 DEF Live
      <4> QED
        BY <2>1, <3>1, <3>2, <4>1 DEF Turn, Taken
    <3>3. CASE ~(n > 0 /\ j = queue[n] /\ job'[w] = queue[n])
      <4>1. thread'[j] = threads[j]
        BY <2>1, <3>3 DEF Turn, Taken
      <4> QED
        BY <3>1, <4>1
    <3> QED
      BY <3>2, <3>3
  <2>5. ASSUME NEW j \in Jobs
        PROVE  \/ future'[j] = future[j]
               \/ future[j] = "pending" /\ future'[j] \in Outcomes /\ future'[j] = thread[j]
               \/ /\ future[j] = "pending" /\ future'[j] = "interrupted" /\ stops > 0
                  /\ thread[j] # "none"
    BY <2>1, <2>2, ExecutorAssumption DEF Turn, WorkerInv
  <2>6. ASSUME NEW j \in Jobs
        PROVE  future[j] = "none" => thread'[j] = "none"
    BY <2>4
  <2> QED
    BY <2>3, <2>4, <2>5, <2>6
<1>7. CASE UNCHANGED vars
  BY <1>7 DEF vars
<1> QED
  BY <1>1, <1>2, <1>3, <1>4, <1>5, <1>6, <1>7, PostFacts DEF Next, CallerStep, Quiescent

\* A job on the queue stays there through a step unless a worker takes it.
LEMMA StepCustodyInv == IInv /\ [Next]_vars => CustodyInv'
<1> SUFFICES ASSUME IInv, [Next]_vars
             PROVE  CustodyInv'
  OBVIOUS
<1> USE DEF IInv, TypeOK, CustodyInv, Queued, Held, InThreads
<1>1. CASE Start
  BY <1>1 DEF Start
<1>2. CASE Stop
  BY <1>2 DEF Stop
<1>3. ASSUME NEW j \in Jobs, NEW callers, Posts(j, callers) PROVE CustodyInv'
  <2>1. CASE Full
    BY <1>3, <2>1 DEF Posts, Enqueue
  <2>2. CASE ~Full
    <3>1. /\ queue' = Append(queue, j)
          /\ UNCHANGED <<stops, job, thread>>
          /\ future' = [future EXCEPT ![j] = "pending"]
      BY <1>3, <2>2 DEF Posts, Enqueue, Put, Full
    <3>2. /\ \A k \in 1 .. Len(queue) : k \in DOMAIN queue' /\ queue'[k] = queue[k]
          /\ Len(queue) + 1 \in DOMAIN queue' /\ queue'[Len(queue) + 1] = j
      BY <3>1, LenProperties, AppendProperties
    <3>3. DOMAIN queue = 1 .. Len(queue)
      BY LenProperties
    <3>4. \A i \in Jobs : Queued(i) => Queued(i)'
      BY <3>2, <3>3
    <3>5. Queued(j)'
      BY <3>2
    <3> QED
      BY <3>1, <3>4, <3>5
  <2> QED
    BY <2>1, <2>2
<1>4. ASSUME NEW j \in Jobs, Expire(j) \/ Discard(j) \/ Resume(j) PROVE CustodyInv'
  BY <1>4 DEF Expire, Discard, Resume, Busy
<1>5. ASSUME NEW j \in Jobs, ThreadStep(j) PROVE CustodyInv'
  BY <1>5 DEF ThreadStep, ThreadStart, ThreadEnd, Outcomes
<1>6. ASSUME NEW w \in Workers, WorkerStep(w) PROVE CustodyInv'
  <2>1. PICK threads \in [Jobs -> ThreadStates], n \in 0 .. Len(queue) : Turn(w, threads, n)
    BY <1>6, TurnFacts
  <2>2. task[w] \in {"get", "run", "cancelled"}
    BY <1>6, TurnFacts
  <2>3. stops' = stops /\ \A v \in Workers \ {w} : job'[v] = job[v]
    BY <2>1 DEF Turn, Taken
  <2>4. /\ DOMAIN queue = 1 .. Len(queue) /\ Len(queue) \in Nat
        /\ Len(queue') = Len(queue) - n
        /\ \A k \in 1 .. Len(queue') : queue'[k] = queue[n + k]
    BY <2>1, LenProperties DEF Turn, Taken
  <2>5. DOMAIN queue' = 1 .. Len(queue')
    BY NextType, LenProperties
  <2>6. ASSUME NEW j \in Jobs, j = job[w]
        PROVE  future'[j] # "pending" /\ (stops = 0 => thread[j] \in Outcomes)
    <3>1. task[w] \in {"run", "cancelled"}
      BY <2>6, ExecutorAssumption DEF WorkerInv
    <3>2. task[w] = "cancelled" => stops > 0
      BY DEF WorkerInv
    <3>3. task[w] = "run" => thread[j] \in Outcomes
      BY <2>1, <2>6 DEF Turn
    <3>4. future'[j] = future[j] \/ future'[j] = thread[j] \/ future'[j] = "interrupted"
      BY <2>1, <2>6 DEF Turn
    <3>5. future[j] # "pending" => future'[j] = future[j]
      BY <2>1, <2>6 DEF Turn
    <3>6. future[j] = "pending" /\ task[w] = "run" => future'[j] = thread[j]
      BY <2>1, <2>6 DEF Turn
    <3>7. future[j] = "pending" /\ task[w] = "cancelled" => future'[j] = "interrupted"
      BY <2>1, <2>6 DEF Turn
    <3> QED
      BY <3>1, <3>2, <3>3, <3>5, <3>6, <3>7 DEF Outcomes
  <2>7. ASSUME NEW j \in Jobs, j # job[w]
        PROVE  /\ future'[j] = future[j]
               /\ thread'[j] = thread[j] \/ (job'[w] = j /\ thread'[j] = "pooled")
    <3>1. future'[j] = future[j] /\ threads[j] = thread[j]
      BY <2>1, <2>7 DEF Turn
    <3>2. thread'[j] = threads[j] \/ (job'[w] = j /\ thread'[j] = "pooled")
      BY <2>1 DEF Turn, Taken
    <3> QED
      BY <3>1, <3>2
  <2>8. ASSUME NEW j \in Jobs, j # job[w], Held(j)
        PROVE  Held(j)'
    BY <2>3, <2>8
  <2>9. ASSUME NEW j \in Jobs, Queued(j), future[j] = "pending", ~Held(j)'
        PROVE  Queued(j)'
    <3>1. PICK k \in 1 .. Len(queue) : queue[k] = j
      BY <2>4, <2>9
    <3>2. caller[j] = "waiting" /\ Live(j)
      BY <2>9 DEF FutureInv, Live
    <3>3. k > n
      BY <2>1, <2>9, <3>1, <3>2 DEF Turn, Taken
    <3>4. k - n \in 1 .. Len(queue') /\ n + (k - n) = k
      BY <2>4, <3>1, <3>3
    <3>5. queue'[k - n] = j
      BY <2>4, <3>1, <3>4
    <3> QED
      BY <2>5, <3>4, <3>5
  <2>10. ASSUME NEW j \in Jobs, future'[j] = "pending"
         PROVE  Queued(j)' \/ Held(j)'
    <3>1. j # job[w] /\ future[j] = "pending"
      BY <2>6, <2>7, <2>10
    <3> QED
      BY <2>8, <2>9, <3>1
  <2>11. ASSUME NEW j \in Jobs, stops' = 0, thread'[j] \in {"pooled", "running"}
         PROVE  Held(j)'
    <3>1. CASE job'[w] = j
      BY <3>1
    <3>2. CASE job'[w] # j
      <4>1. thread'[j] = threads[j]
        BY <2>1, <3>2 DEF Turn, Taken
      <4>2. threads[j] = thread[j]
        BY <2>1, <2>2, <2>11, <4>1, TurnThreads
      <4>3. j # job[w]
        BY <2>3, <2>6, <2>11, <4>1, <4>2 DEF Outcomes
      <4> QED
        BY <2>3, <2>8, <2>11, <4>1, <4>2, <4>3
    <3> QED
      BY <3>1, <3>2
  <2> QED
    BY <2>10, <2>11
<1>7. CASE UNCHANGED vars
  BY <1>7 DEF vars
<1> QED
  BY <1>1, <1>2, <1>3, <1>4, <1>5, <1>6, <1>7, PostFacts DEF Next, CallerStep, Quiescent

LEMMA StepHistoryInv == IInv /\ [Next]_vars => HistoryInv'
<1> SUFFICES ASSUME IInv, [Next]_vars
             PROVE  HistoryInv'
  OBVIOUS
<1> USE DEF IInv, TypeOK, HistoryInv
<1>1. CASE Start
  BY <1>1 DEF Start
<1>2. CASE Stop
  BY <1>2 DEF Stop
<1>3. ASSUME NEW j \in Jobs, NEW callers, Posts(j, callers) PROVE HistoryInv'
  <2>1. CASE Full
    <3>1. UNCHANGED <<queue, accepted, future>>
      BY <1>3, <2>1 DEF Posts, Enqueue
    <3> QED
      BY <3>1
  <2>2. CASE ~Full
    <3>1. /\ queue' = Append(queue, j) /\ accepted' = Append(accepted, j)
          /\ future' = [future EXCEPT ![j] = "pending"] /\ future[j] = "none"
      BY <1>3, <2>2 DEF Posts, Enqueue, Put, Full, FutureInv
    <3>2. /\ Len(queue) \in Nat /\ Len(queue') = Len(queue) + 1
          /\ \A k \in 1 .. Len(queue) : queue'[k] = queue[k]
          /\ queue'[Len(queue) + 1] = j
      BY <3>1, LenProperties, AppendProperties
    <3>3. /\ Len(accepted) \in Nat /\ Len(accepted') = Len(accepted) + 1
          /\ \A k \in 1 .. Len(accepted) : accepted'[k] = accepted[k]
          /\ accepted'[Len(accepted) + 1] = j
      BY <3>1, LenProperties, AppendProperties
    <3>4. \A a \in 1 .. Len(accepted) : accepted[a] \in Jobs /\ accepted[a] # j
      BY <3>1, ElementOfSeq
    <3>5. \A k \in 1 .. Len(queue') : queue'[k] = accepted'[Len(accepted') - Len(queue') + k]
      <4> TAKE k \in 1 .. Len(queue')
      <4>1. CASE k = Len(queue) + 1
        BY <3>2, <3>3, <4>1
      <4>2. CASE k \in 1 .. Len(queue)
        <5>1. Len(accepted) - Len(queue) + k \in 1 .. Len(accepted)
          BY <3>2, <3>3, <4>2
        <5>2. Len(accepted') - Len(queue') + k = Len(accepted) - Len(queue) + k
          BY <3>2, <3>3, <4>2
        <5> QED
          BY <3>2, <3>3, <4>2, <5>1, <5>2
      <4> QED
        BY <3>2, <4>1, <4>2
    <3>6. \A a, b \in 1 .. Len(accepted') : accepted'[a] = accepted'[b] => a = b
      BY <3>3, <3>4
    <3>7. \A a \in 1 .. Len(accepted') : future'[accepted'[a]] # "none"
      BY <3>1, <3>3, <3>4
    <3> QED
      BY <3>2, <3>3, <3>5, <3>6, <3>7
  <2> QED
    BY <2>1, <2>2
<1>4. ASSUME NEW j \in Jobs, Expire(j) \/ Discard(j) \/ Resume(j) PROVE HistoryInv'
  <2>1. UNCHANGED <<queue, accepted>>
    BY <1>4 DEF Expire, Discard, Resume, Busy
  <2>2. \A i \in Jobs : future[i] # "none" => future'[i] # "none"
    BY <1>4 DEF Expire, Discard, Resume, Busy
  <2> QED
    BY <2>1, <2>2, ElementOfSeq
<1>5. ASSUME NEW j \in Jobs, ThreadStep(j) PROVE HistoryInv'
  BY <1>5 DEF ThreadStep, ThreadStart, ThreadEnd
<1>6. ASSUME NEW w \in Workers, WorkerStep(w) PROVE HistoryInv'
  <2>1. PICK threads \in [Jobs -> ThreadStates], n \in 0 .. Len(queue) : Turn(w, threads, n)
    BY <1>6, TurnFacts
  <2>2. accepted' = accepted
    BY <2>1 DEF Turn
  <2>3. /\ Len(queue) \in Nat /\ Len(accepted) \in Nat
        /\ Len(queue') = Len(queue) - n
        /\ \A k \in 1 .. Len(queue') : queue'[k] = queue[n + k]
    BY <2>1, LenProperties DEF Turn, Taken
  <2>4. \A k \in 1 .. Len(queue') : queue'[k] = accepted'[Len(accepted') - Len(queue') + k]
    <3> TAKE k \in 1 .. Len(queue')
    <3>1. n + k \in 1 .. Len(queue) /\ queue'[k] = queue[n + k]
      BY <2>3
    <3>2. queue[n + k] = accepted[Len(accepted) - Len(queue) + (n + k)]
      BY <3>1
    <3>3. Len(accepted') - Len(queue') + k = Len(accepted) - Len(queue) + (n + k)
      BY <2>2, <2>3
    <3> QED
      BY <2>2, <3>1, <3>2, <3>3
  <2>5. \A i \in Jobs : future[i] # "none" => future'[i] # "none"
    <3> TAKE i \in Jobs
    <3>1. future'[i] = future[i] \/ future'[i] = thread[i] \/ future'[i] = "interrupted"
      BY <2>1 DEF Turn
    <3>2. CASE future[i] = "pending" /\ i = job[w] /\ task[w] = "run"
      BY <2>1, <3>2 DEF Turn, Outcomes
    <3>3. CASE ~(future[i] = "pending" /\ i = job[w] /\ task[w] = "run")
      BY <2>1, <3>3 DEF Turn
    <3> QED
      BY <3>2, <3>3
  <2>6. Len(queue') <= Len(accepted')
    BY <2>2, <2>3
  <2> QED
    BY <2>2, <2>4, <2>5, <2>6, ElementOfSeq
<1>7. CASE UNCHANGED vars
  BY <1>7 DEF vars
<1> QED
  BY <1>1, <1>2, <1>3, <1>4, <1>5, <1>6, <1>7, PostFacts DEF Next, CallerStep, Quiescent

\* The strengthened invariant holds of every reachable state.
THEOREM Inductive == Spec => []IInv
<1>1. IInv /\ [Next]_vars => IInv'
  BY NextType, StepWorkerInv, StepQueueInv, StepFutureInv, StepCustodyInv, StepHistoryInv DEF IInv
<1> QED
  BY InitInv, <1>1, PTL DEF Spec

----------------------------------------------------------------------------
\* What follows from it.

\* No caller is forgotten: an unresolved future has its job on the queue or in
\* the hands of exactly one worker, through every expiry, discard and stop.
THEOREM NoLostJobs == Spec => []NoLostJob
<1>1. IInv => NoLostJob
  <2> SUFFICES ASSUME IInv PROVE NoLostJob
    OBVIOUS
  <2> USE DEF IInv, TypeOK
  <2>1. ASSUME NEW j \in Jobs, Queued(j)
        PROVE  thread[j] = "none" /\ ~Held(j)
    <3>1. PICK k \in 1 .. Len(queue) : queue[k] = j
      BY <2>1, LenProperties DEF Queued
    <3>2. thread[j] = "none"
      BY <3>1 DEF QueueInv
    <3> QED
      BY <3>2, ExecutorAssumption DEF WorkerInv, Held
  <2>2. ASSUME NEW j \in Jobs, NEW v \in Workers, NEW w \in Workers, job[v] = j, job[w] = j
        PROVE  v = w
    BY <2>2, ExecutorAssumption DEF WorkerInv
  <2> QED
    BY <2>1, <2>2 DEF NoLostJob, CustodyInv
<1> QED
  BY <1>1, Inductive, PTL

\* The queue keeps to its capacity and holds no job twice.
THEOREM BoundedQueue == Spec => []QueueBounded
<1>1. IInv => QueueBounded
  BY LenProperties DEF IInv, TypeOK, QueueInv, QueueBounded
<1> QED
  BY <1>1, Inductive, PTL

\* What a caller is told is what became of its own job.
THEOREM HonestAnswers == Spec => []AnswerMatchesRun
<1>1. IInv => AnswerMatchesRun
  <2> SUFFICES ASSUME IInv, NEW j \in Jobs
               PROVE  /\ caller[j] \in {"returned", "raised"} => thread[j] = caller[j]
                      /\ caller[j] = "interrupted" => stops > 0
                      /\ caller[j] = "QUEUE_FULL" => thread[j] = "none" /\ ~Queued(j)
                      /\ caller[j] = "SERVER_BUSY" /\ j \notin Timed => thread[j] = "timeout"
    BY DEF AnswerMatchesRun
  <2>1. future[j] = "none" => ~Queued(j)
    BY LenProperties DEF IInv, TypeOK, QueueInv, Queued
  <2> QED
    BY <2>1 DEF IInv, FutureInv
<1> QED
  BY <1>1, Inductive, PTL

\* Jobs reach the threads in the order in which they were accepted.
THEOREM FirstInFirstOut == Spec => []NoOvertaking
<1>1. IInv => NoOvertaking
  <2> SUFFICES ASSUME IInv,
                      NEW a \in DOMAIN accepted, NEW b \in DOMAIN accepted,
                      a < b, thread[accepted[b]] # "none",
                      NEW k \in DOMAIN queue, queue[k] = accepted[a]
               PROVE  FALSE
    BY DEF NoOvertaking, Queued
  <2> USE DEF IInv, TypeOK
  <2>1. /\ DOMAIN queue = 1 .. Len(queue) /\ Len(queue) \in Nat
        /\ DOMAIN accepted = 1 .. Len(accepted) /\ Len(accepted) \in Nat
        /\ Len(queue) <= Len(accepted)
    BY LenProperties DEF HistoryInv
  <2> DEFINE place == Len(accepted) - Len(queue) + k
  <2>2. place \in 1 .. Len(accepted) /\ queue[k] = accepted[place]
    BY <2>1 DEF HistoryInv
  <2>3. a = place
    BY <2>1, <2>2 DEF HistoryInv
  <2> DEFINE l == b - (Len(accepted) - Len(queue))
  <2>4. l \in 1 .. Len(queue) /\ Len(accepted) - Len(queue) + l = b
    BY <2>1, <2>3
  <2>5. queue[l] = accepted[b]
    BY <2>4 DEF HistoryInv
  <2> QED
    BY <2>4, <2>5 DEF QueueInv
<1> QED
  BY <1>1, Inductive, PTL

LEMMA HeldThreads ==
  ASSUME IInv, stops = 0
  PROVE  IsFiniteSet(InThreads) /\ Cardinality(InThreads) <= Concurrency
<1> USE DEF IInv, TypeOK
<1> DEFINE holder == [j \in InThreads |-> CHOOSE w \in Workers : job[w] = j]
           index == [j \in InThreads |-> holder[j][2]]
<1>1. ASSUME NEW j \in InThreads
      PROVE  /\ holder[j] \in Workers /\ job[holder[j]] = j
             /\ holder[j][1] = 1 /\ holder[j][2] \in 1 .. Concurrency
  <2>1. \E w \in Workers : job[w] = j
    BY DEF CustodyInv, Held, InThreads
  <2>2. holder[j] \in Workers /\ job[holder[j]] = j
    BY <2>1
  <2>3. task[holder[j]] # "unborn" /\ starts <= 1
    BY <2>2, ExecutorAssumption DEF WorkerInv, InThreads
  <2>4. ~(holder[j][1] > starts)
    BY <2>2, <2>3 DEF WorkerInv
  <2> QED
    BY <2>2, <2>3, <2>4, WorkersType, ExecutorAssumption
<1>2. index \in Injection(InThreads, 1 .. Concurrency)
  <2>1. index \in [InThreads -> 1 .. Concurrency]
    BY <1>1
  <2>2. ASSUME NEW i \in InThreads, NEW j \in InThreads, index[i] = index[j]
        PROVE  i = j
    <3>1. holder[i][1] = holder[j][1] /\ holder[i][2] = holder[j][2]
      BY <1>1, <2>2
    <3>2. holder[i] = holder[j]
      BY <1>1, <3>1, WorkersPair
    <3> QED
      BY <1>1, <3>2
  <2> QED
    BY <2>1, <2>2 DEF Injection, IsInjective
<1>3. IsFiniteSet(1 .. Concurrency) /\ Cardinality(1 .. Concurrency) = Concurrency
  BY ExecutorAssumption, FS_Interval
<1> QED
  BY <1>2, <1>3, FS_Injection

\* Before any stop, the jobs in threads are at most as many as the workers of
\* one start: each job there is held by a worker of its own.
THEOREM AtMostConcurrency == Spec => []Serialised
<1>1. IInv => Serialised
  BY HeldThreads DEF Serialised
<1> QED
  BY <1>1, Inductive, PTL

----------------------------------------------------------------------------
\* How many threads a stop can leave behind.

\* Jobs in threads that no worker waits for any more, and the tasks that will leave one
\* behind when the CancelledError reaches them.
Orphaned == {j \in InThreads : ~Held(j)}
CancelledTasks == {w \in Workers : task[w] = "cancelled"}

OrphanInv ==
  /\ IsFiniteSet(Orphaned)
  /\ Cardinality(Orphaned) + Cardinality(CancelledTasks) <= Concurrency * stops

LEMMA FiniteWorkers ==
  ASSUME IInv, NEW n \in 0 .. MaxStops + 1
  PROVE  /\ IsFiniteSet(Workers)
         /\ IsFiniteSet((1 .. n) \X (1 .. Concurrency))
         /\ Cardinality((1 .. n) \X (1 .. Concurrency)) = n * Concurrency
<1>1. /\ IsFiniteSet(1 .. n) /\ Cardinality(1 .. n) = n
      /\ IsFiniteSet(1 .. Concurrency) /\ Cardinality(1 .. Concurrency) = Concurrency
      /\ IsFiniteSet(1 .. Generations)
  BY ExecutorAssumption, FS_Interval
<1> QED
  BY <1>1, FS_Product DEF Workers

LEMMA FewerOrphans ==
  ASSUME OrphanInv, IInv, Orphaned' \subseteq Orphaned, CancelledTasks' \subseteq CancelledTasks,
         stops' = stops
  PROVE  OrphanInv'
<1>1. IsFiniteSet(CancelledTasks) /\ stops \in Nat /\ Concurrency \in Nat
  <2>1. 0 \in 0 .. MaxStops + 1 /\ stops \in Nat /\ Concurrency \in Nat
    BY ExecutorAssumption DEF IInv, TypeOK
  <2>2. IsFiniteSet(Workers)
    BY <2>1, FiniteWorkers
  <2> QED
    BY <2>1, <2>2, FS_Subset DEF CancelledTasks
<1>2. /\ IsFiniteSet(Orphaned') /\ Cardinality(Orphaned') <= Cardinality(Orphaned)
      /\ Cardinality(CancelledTasks') <= Cardinality(CancelledTasks)
      /\ IsFiniteSet(CancelledTasks')
  BY <1>1, FS_Subset DEF OrphanInv
<1>3. /\ Cardinality(Orphaned) \in Nat /\ Cardinality(Orphaned') \in Nat
      /\ Cardinality(CancelledTasks) \in Nat /\ Cardinality(CancelledTasks') \in Nat
  BY <1>1, <1>2, FS_CardinalityType DEF OrphanInv
<1> DEFINE bound == Concurrency * stops
<1>4. bound \in Nat /\ bound' = bound /\ Cardinality(Orphaned) + Cardinality(CancelledTasks) <= bound
  BY <1>1 DEF OrphanInv
<1> HIDE DEF bound
<1>5. Cardinality(Orphaned') + Cardinality(CancelledTasks') <= bound
  BY <1>2, <1>3, <1>4
<1> QED
  BY <1>2, <1>4, <1>5 DEF OrphanInv, bound

\* A stop cancels the workers of one start at most.
LEMMA StopOrphans ==
  ASSUME OrphanInv, IInv, Stop
  PROVE  OrphanInv'
<1> USE DEF IInv, TypeOK
<1> DEFINE tier == {w \in Workers : w[1] = starts}
<1>1. Orphaned' = Orphaned
  BY DEF Stop, Orphaned, InThreads, Held
<1>2. CancelledTasks' \subseteq CancelledTasks \cup tier
  BY DEF Stop, CancelledTasks, Current
<1>3. IsFiniteSet(tier) /\ Cardinality(tier) <= Concurrency
  <2> DEFINE index == [w \in tier |-> w[2]]
  <2>1. index \in Injection(tier, 1 .. Concurrency)
    <3>1. index \in [tier -> 1 .. Concurrency]
      BY WorkersType
    <3>2. ASSUME NEW v \in tier, NEW w \in tier, index[v] = index[w] PROVE v = w
      BY <3>2, WorkersPair
    <3> QED
      BY <3>1, <3>2 DEF Injection, IsInjective
  <2>2. IsFiniteSet(1 .. Concurrency) /\ Cardinality(1 .. Concurrency) = Concurrency
    BY ExecutorAssumption, FS_Interval
  <2> QED
    BY <2>1, <2>2, FS_Injection
<1> HIDE DEF tier
<1>4. IsFiniteSet(CancelledTasks) /\ IsFiniteSet(Orphaned)
  BY FiniteWorkers, FS_Subset, ExecutorAssumption DEF CancelledTasks, OrphanInv
<1>5. /\ IsFiniteSet(CancelledTasks \cup tier)
      /\ Cardinality(CancelledTasks \cup tier)
           = Cardinality(CancelledTasks) + Cardinality(tier) - Cardinality(CancelledTasks \cap tier)
      /\ IsFiniteSet(CancelledTasks \cap tier)
  BY <1>3, <1>4, FS_Union, FS_Intersection
<1>6. IsFiniteSet(CancelledTasks') /\ Cardinality(CancelledTasks') <= Cardinality(CancelledTasks \cup tier)
  BY <1>2, <1>5, FS_Subset
<1>7. /\ Cardinality(CancelledTasks) \in Nat /\ Cardinality(CancelledTasks') \in Nat
      /\ Cardinality(tier) \in Nat /\ Cardinality(CancelledTasks \cap tier) \in Nat
      /\ Cardinality(CancelledTasks \cup tier) \in Nat /\ Cardinality(Orphaned) \in Nat
  BY <1>3, <1>4, <1>5, <1>6, FS_CardinalityType
<1>8. Cardinality(CancelledTasks') <= Cardinality(CancelledTasks) + Concurrency
  BY <1>3, <1>5, <1>6, <1>7, ExecutorAssumption
<1> DEFINE bound == Concurrency * stops
<1>9. bound \in Nat /\ bound' = bound + Concurrency /\ Cardinality(Orphaned) + Cardinality(CancelledTasks) <= bound
  <2>1. stops' = stops + 1 /\ stops \in Nat /\ Concurrency \in Nat
    BY ExecutorAssumption DEF Stop
  <2>2. Concurrency * (stops + 1) = Concurrency * stops + Concurrency
    BY <2>1
  <2> QED
    BY <2>1, <2>2 DEF OrphanInv
<1> HIDE DEF bound
<1>10. Cardinality(Orphaned) + Cardinality(CancelledTasks') <= bound'
  BY <1>7, <1>8, <1>9, ExecutorAssumption
<1> QED
  BY <1>1, <1>4, <1>10 DEF OrphanInv, bound

\* A worker leaves its job in a thread only where a CancelledError has reached it.
LEMMA WorkerOrphans ==
  ASSUME OrphanInv, IInv, NEW w \in Workers, WorkerStep(w)
  PROVE  OrphanInv'
<1> USE DEF IInv, TypeOK
<1>1. PICK threads \in [Jobs -> ThreadStates], n \in 0 .. Len(queue) : Turn(w, threads, n)
  BY TurnFacts
<1>2. task[w] \in {"get", "run", "cancelled"}
  BY TurnFacts
<1>3. stops' = stops /\ \A v \in Workers \ {w} : job'[v] = job[v] /\ task'[v] = task[v]
  BY <1>1 DEF Turn, Taken
<1>4. task'[w] \in {"get", "run"}
  BY <1>1 DEF Turn, Taken
<1>5. ASSUME NEW j \in Orphaned'
      PROVE  j \in Orphaned \/ (task[w] = "cancelled" /\ j = job[w])
  <2>1. j \in Jobs /\ thread'[j] \in {"pooled", "running"} /\ \A v \in Workers : job'[v] # j
    BY <1>5 DEF Orphaned, InThreads, Held
  <2>2. thread'[j] = threads[j]
    BY <1>1, <2>1 DEF Turn, Taken
  <2>3. thread[j] \in {"pooled", "running"}
    BY <1>1, <1>2, <2>1, <2>2, TurnThreads
  <2>4. CASE \A v \in Workers : job[v] # j
    BY <2>1, <2>3, <2>4 DEF Orphaned, InThreads, Held
  <2>5. CASE \E v \in Workers : job[v] = j
    <3>1. job[w] = j
      BY <1>3, <2>1, <2>5
    <3>2. task[w] # "get"
      BY <2>1, <3>1, ExecutorAssumption DEF WorkerInv
    <3>3. task[w] # "run"
      BY <1>1, <2>1, <2>3, <3>1 DEF Turn, Outcomes
    <3> QED
      BY <1>2, <3>1, <3>2, <3>3
  <2> QED
    BY <2>4, <2>5
<1>6. CASE task[w] # "cancelled"
  <2>1. Orphaned' \subseteq Orphaned /\ CancelledTasks' \subseteq CancelledTasks
    BY <1>3, <1>4, <1>5, <1>6 DEF CancelledTasks
  <2> QED
    BY <1>3, <2>1, FewerOrphans
<1>7. CASE task[w] = "cancelled"
  <2>1. Orphaned' \subseteq Orphaned \cup {job[w]} /\ CancelledTasks' = CancelledTasks \ {w}
        /\ w \in CancelledTasks
    BY <1>3, <1>4, <1>5, <1>7 DEF CancelledTasks
  <2>2. IsFiniteSet(CancelledTasks) /\ IsFiniteSet(Orphaned) /\ stops \in Nat /\ Concurrency \in Nat
    <3>1. 0 \in 0 .. MaxStops + 1
      BY ExecutorAssumption
    <3>2. IsFiniteSet(Workers)
      BY <3>1, FiniteWorkers
    <3> QED
      BY <3>2, FS_Subset, ExecutorAssumption DEF CancelledTasks, OrphanInv
  <2>3. /\ IsFiniteSet(Orphaned \cup {job[w]})
        /\ Cardinality(Orphaned \cup {job[w]}) <= Cardinality(Orphaned) + 1
        /\ IsFiniteSet(CancelledTasks')
        /\ Cardinality(CancelledTasks') = Cardinality(CancelledTasks) - 1
    <3>1. Cardinality(Orphaned) \in Nat
      BY <2>2, FS_CardinalityType
    <3>2. /\ IsFiniteSet(Orphaned \cup {job[w]})
          /\ Cardinality(Orphaned \cup {job[w]})
               = IF job[w] \in Orphaned THEN Cardinality(Orphaned) ELSE Cardinality(Orphaned) + 1
      BY <2>2, FS_AddElement, Zenon
    <3>3. /\ IsFiniteSet(CancelledTasks \ {w})
          /\ Cardinality(CancelledTasks \ {w}) = Cardinality(CancelledTasks) - 1
      BY <2>1, <2>2, FS_RemoveElement
    <3>4. Cardinality(Orphaned \cup {job[w]}) <= Cardinality(Orphaned) + 1
      BY <3>1, <3>2
    <3> QED
      BY <2>1, <3>2, <3>3, <3>4
  <2>4. IsFiniteSet(Orphaned') /\ Cardinality(Orphaned') <= Cardinality(Orphaned \cup {job[w]})
    BY <2>1, <2>3, FS_Subset
  <2>5. /\ Cardinality(Orphaned) \in Nat /\ Cardinality(Orphaned') \in Nat
        /\ Cardinality(CancelledTasks) \in Nat /\ Cardinality(Orphaned \cup {job[w]}) \in Nat
    BY <2>2, <2>3, <2>4, FS_CardinalityType
  <2> DEFINE bound == Concurrency * stops
  <2>6. bound \in Nat /\ bound' = bound /\ Cardinality(Orphaned) + Cardinality(CancelledTasks) <= bound
    BY <1>3, <2>2 DEF OrphanInv
  <2> HIDE DEF bound
  <2>7. Cardinality(Orphaned') + Cardinality(CancelledTasks') <= bound'
    BY <2>3, <2>4, <2>5, <2>6
  <2> QED
    BY <2>4, <2>7 DEF OrphanInv, bound
<1> QED
  BY <1>6, <1>7

LEMMA StepOrphanInv == IInv /\ OrphanInv /\ [Next]_vars => OrphanInv'
<1> SUFFICES ASSUME IInv, OrphanInv, [Next]_vars
             PROVE  OrphanInv'
  OBVIOUS
<1>1. CASE Stop
  BY <1>1, StopOrphans
<1>2. ASSUME NEW w \in Workers, WorkerStep(w) PROVE OrphanInv'
  BY <1>2, WorkerOrphans
<1>3. ASSUME NEW j \in Jobs, ThreadStep(j) PROVE OrphanInv'
  <2>1. UNCHANGED <<task, job, stops>> /\ InThreads' \subseteq InThreads
    BY <1>3 DEF ThreadStep, ThreadStart, ThreadEnd, InThreads, IInv, TypeOK, Outcomes
  <2>2. Orphaned' \subseteq Orphaned /\ CancelledTasks' \subseteq CancelledTasks
    BY <2>1 DEF Orphaned, CancelledTasks, Held
  <2> QED
    BY <2>1, <2>2, FewerOrphans
<1>4. ASSUME \/ Start \/ UNCHANGED vars
             \/ \E j \in Jobs : CallerStep(j)
             \/ \E i, j \in Jobs : Resubmit(i, j)
      PROVE  OrphanInv'
  <2>1. UNCHANGED <<thread, job, stops>>
    BY <1>4 DEF Start, CallerStep, Submit, Resubmit, Enqueue, Expire, Discard, Resume, Busy, vars
  <2>2. task' = task \/ \A w \in Workers : task'[w] \in {task[w], "get"}
    BY <1>4 DEF Start, StartWorkers, CallerStep, Submit, Resubmit, Enqueue, Expire, Discard, Resume, Busy,
             vars
  <2>3. Orphaned' \subseteq Orphaned /\ CancelledTasks' \subseteq CancelledTasks
    BY <2>1, <2>2 DEF Orphaned, InThreads, CancelledTasks, Held
  <2> QED
    BY <2>1, <2>3, FewerOrphans
<1> QED
  BY <1>1, <1>2, <1>3, <1>4 DEF Next, Quiescent

\* The other jobs in threads are held, each by a worker task of its own.
LEMMA HeldInThreads ==
  ASSUME IInv
  PROVE  /\ IsFiniteSet(InThreads \ Orphaned)
         /\ Cardinality(InThreads \ Orphaned) <= starts * Concurrency
<1> USE DEF IInv, TypeOK
<1> DEFINE S == InThreads \ Orphaned
           holder == [j \in S |-> CHOOSE w \in Workers : job[w] = j]
           T == (1 .. starts) \X (1 .. Concurrency)
<1>1. ASSUME NEW j \in S
      PROVE  job[holder[j]] = j /\ holder[j] \in T
  <2>1. j \in Jobs /\ \E w \in Workers : job[w] = j
    BY DEF Orphaned, Held, InThreads
  <2>2. holder[j] \in Workers /\ job[holder[j]] = j
    BY <2>1
  <2>3. task[holder[j]] # "unborn"
    BY <2>1, <2>2, ExecutorAssumption DEF WorkerInv
  <2>4. ~(holder[j][1] > starts)
    BY <2>2, <2>3 DEF WorkerInv
  <2> HIDE DEF holder
  <2> QED
    BY <2>2, <2>4, ExecutorAssumption DEF Workers
<1>2. holder \in Injection(S, T)
  <2>1. holder \in [S -> T]
    BY <1>1
  <2>2. ASSUME NEW i \in S, NEW j \in S, holder[i] = holder[j] PROVE i = j
    BY <1>1, <2>2
  <2> QED
    BY <2>1, <2>2 DEF Injection, IsInjective
<1>3. IsFiniteSet(T) /\ Cardinality(T) = starts * Concurrency
  BY FiniteWorkers
<1> HIDE DEF S, T, holder
<1>4. IsFiniteSet(S) /\ Cardinality(S) <= Cardinality(T)
  BY <1>2, <1>3, FS_Injection
<1> QED
  BY <1>3, <1>4 DEF S

\* With them the threads are few: a worker task holds one job at most.
LEMMA FewThreads ==
  ASSUME IInv, OrphanInv
  PROVE  ThreadsBounded
<1> DEFINE S == InThreads \ Orphaned
<1>1. IsFiniteSet(S) /\ Cardinality(S) <= starts * Concurrency
  BY HeldInThreads
<1>2. IsFiniteSet(Orphaned) /\ Cardinality(Orphaned) + Cardinality(CancelledTasks) <= Concurrency * stops
  BY DEF OrphanInv
<1>3. InThreads = S \cup Orphaned /\ S \cap Orphaned = {}
  BY DEF Orphaned
<1> HIDE DEF S
<1>4. IsFiniteSet(InThreads) /\ Cardinality(InThreads) = Cardinality(S) + Cardinality(Orphaned) - 0
  BY <1>1, <1>2, <1>3, FS_Union, FS_EmptySet
<1>5. IsFiniteSet(CancelledTasks) /\ stops \in Nat /\ starts \in Nat /\ starts <= stops + 1
      /\ Concurrency \in Nat
  <2>1. 0 \in 0 .. MaxStops + 1 /\ stops \in Nat /\ starts \in Nat /\ Concurrency \in Nat
        /\ starts <= stops + 1
    BY ExecutorAssumption DEF IInv, TypeOK, WorkerInv
  <2>2. IsFiniteSet(Workers)
    BY <2>1, FiniteWorkers
  <2> QED
    BY <2>1, <2>2, FS_Subset DEF CancelledTasks
<1>6. Cardinality(CancelledTasks) \in Nat /\ Cardinality(S) \in Nat /\ Cardinality(Orphaned) \in Nat
  BY <1>1, <1>2, <1>5, FS_CardinalityType
<1>7. \A c, s, t \in Nat : t <= s + 1 => t * c + c * s <= c * (2 * s + 1)
  <2>1. \A c, s, t \in Nat : t <= s + 1 => t * c <= (s + 1) * c
    OBVIOUS
  <2>2. \A c, s \in Nat : (s + 1) * c + c * s = c * (2 * s + 1)
    OBVIOUS
  <2> TAKE c, s, t \in Nat
  <2> HAVE t <= s + 1
  <2>3. t * c <= (s + 1) * c /\ (s + 1) * c + c * s = c * (2 * s + 1)
    BY <2>1, <2>2
  <2>4. t * c \in Nat /\ (s + 1) * c \in Nat /\ c * s \in Nat
    OBVIOUS
  <2> QED
    BY <2>3, <2>4
<1>8. starts * Concurrency + Concurrency * stops <= Concurrency * (2 * stops + 1)
  BY <1>5, <1>7
<1> DEFINE a == starts * Concurrency
           b == Concurrency * stops
           bound == Concurrency * (2 * stops + 1)
<1>9. a \in Nat /\ b \in Nat /\ bound \in Nat /\ a + b <= bound
      /\ Cardinality(S) <= a /\ Cardinality(Orphaned) + Cardinality(CancelledTasks) <= b
  BY <1>1, <1>2, <1>5, <1>8
<1> HIDE DEF a, b, bound
<1>10. Cardinality(InThreads) <= bound
  BY <1>4, <1>6, <1>9
<1> QED
  BY <1>10 DEF ThreadsBounded, bound

LEMMA InitOrphanInv ==
  ASSUME Init
  PROVE  OrphanInv
<1>1. Orphaned = {} /\ CancelledTasks = {}
  BY DEF Init, Orphaned, InThreads, CancelledTasks
<1>2. stops = 0 /\ Concurrency * 0 = 0
  BY ExecutorAssumption DEF Init
<1> QED
  BY <1>1, <1>2, FS_EmptySet DEF OrphanInv

LEMMA OrphansInductive == Spec => []OrphanInv
BY InitOrphanInv, StepOrphanInv, Inductive, PTL DEF Spec

\* Each stop() can add at most Concurrency new workers and leave Concurrency threads
\* behind, whatever fails to end and however often the executor is used again.
THEOREM StopsLeaveFew == Spec => []ThreadsBounded
<1>1. IInv /\ OrphanInv => ThreadsBounded
  BY FewThreads
<1> QED
  BY <1>1, OrphansInductive, Inductive, PTL

----------------------------------------------------------------------------
\* A job is handed to the thread pool only while its caller waits for it.
THEOREM NoLateWork == Spec => NoWorkForTheAnswered
<1>1. ASSUME IInv, [Next]_vars, NEW j \in Jobs, thread[j] = "none", thread'[j] = "pooled"
      PROVE  caller[j] = "waiting"
  <2> USE DEF IInv, TypeOK
  <2>1. ASSUME NEW w \in Workers, WorkerStep(w)
        PROVE  caller[j] = "waiting"
    <3>1. PICK threads \in [Jobs -> ThreadStates], n \in 0 .. Len(queue) : Turn(w, threads, n)
      BY <1>1, <2>1, TurnFacts
    <3>2. threads[j] = "none"
      BY <1>1, <2>1, <3>1, TurnFacts, TurnThreads
    <3>3. n > 0 /\ j = queue[n] /\ Live(queue[n])
      BY <1>1, <3>1, <3>2 DEF Turn, Taken
    <3>4. n \in 1 .. Len(queue) /\ j \in Jobs
      BY <1>1, <3>3, LenProperties
    <3> QED
      BY <1>1, <3>3, <3>4 DEF QueueInv, FutureInv, Live
  <2>2. ASSUME NEW i \in Jobs, NEW k \in Jobs, CallerStep(i) \/ Resubmit(i, k)
        PROVE  thread' = thread
    BY <2>2 DEF CallerStep, Submit, Resubmit, Enqueue, Expire, Discard, Resume, Busy
  <2>3. ASSUME NEW i \in Jobs, ThreadStep(i)
        PROVE  thread'[j] # "pooled"
    BY <1>1, <2>3 DEF ThreadStep, ThreadStart, ThreadEnd, Outcomes
  <2>4. Start \/ Stop \/ UNCHANGED vars => thread' = thread
    BY DEF Start, Stop, vars
  <2> QED
    BY <1>1, <2>1, <2>2, <2>3, <2>4 DEF Next, Quiescent
<1>2. IInv /\ [Next]_vars =>
        [\A j \in Jobs : thread[j] = "none" /\ thread'[j] = "pooled" => caller[j] = "waiting"]_vars
  BY <1>1
<1> QED
  BY <1>2, Inductive, PTL DEF Spec, NoWorkForTheAnswered

----------------------------------------------------------------------------
\* The executor implements the abstract service.

\* What the service makes of the threads.
runsOf(threads) ==
  [j \in Jobs |-> IF threads[j] \in {"pooled", "running"} THEN "begun" ELSE threads[j]]

LEMMA ServeStep ==
  ASSUME IInv, IInv', ThreadsBounded', NEW w \in Workers,
         NEW threads \in [Jobs -> ThreadStates], NEW n \in 0 .. Len(queue),
         task[w] \in {"get", "run", "cancelled"}, Turn(w, threads, n)
  PROVE  Service!Serve(runsOf(threads))
<1> USE DEF IInv, TypeOK
<1>3. /\ Len(queue) \in Nat /\ Len(queue') \in Nat
      /\ Len(queue') = Len(queue) - n
      /\ \A k \in 1 .. Len(queue') : queue'[k] = queue[n + k]
  BY LenProperties DEF Turn, Taken
<1>4. queue' = SubSeq(queue, n + 1, Len(queue))
  <2> DEFINE rest == SubSeq(queue, n + 1, Len(queue))
  <2>1. \A i \in n + 1 .. Len(queue) : queue[i] \in Jobs
    BY <1>3, ElementOfSeq
  <2>2. rest \in Seq(Jobs) /\ Len(rest) = Len(queue')
    BY <1>3, <2>1, SubSeqProperties
  <2>3. \A i \in 1 .. Len(queue) - (n + 1) + 1 : rest[i] = queue[(n + 1) + i - 1]
    BY <1>3, <2>1, SubSeqProperties
  <2>4. \A i \in 1 .. Len(queue') : queue'[i] = rest[i]
    <3> TAKE i \in 1 .. Len(queue')
    <3>1. i \in 1 .. Len(queue) - (n + 1) + 1 /\ (n + 1) + i - 1 = n + i
      BY <1>3
    <3> QED
      BY <1>3, <2>3, <3>1
  <2> QED
    BY <2>2, <2>4, SeqEqual
<1>5. \A k \in 1 .. Len(queue) : ~Live(queue[k]) => answerOf[queue[k]] # "waiting"
  BY ElementOfSeq DEF Live, FutureInv, answerOf
<1>6. answerOf' = answerOf /\ stops' = stops
  BY DEF Turn, answerOf
<1>7. CASE job'[w] = NoJob
  <2>1. thread' = threads /\ \A k \in 1 .. n : ~Live(queue[k])
    <3>1. n > 0 => n \in 1 .. Len(queue) /\ queue[n] \in Jobs
      BY <1>3, ElementOfSeq
    <3> QED
      BY <1>7, <3>1, ExecutorAssumption DEF Turn, Taken
  <2>2. runOf' = runsOf(threads)
    BY <2>1 DEF runOf, runsOf
  <2>3. \A k \in 1 .. n : answerOf[queue[k]] # "waiting"
    BY <1>3, <1>5, <2>1
  <2> QED
    BY <1>4, <1>6, <2>2, <2>3 DEF Service!Serve
<1>8. CASE job'[w] # NoJob
  <2>1. /\ n > 0 /\ thread' = [threads EXCEPT ![queue[n]] = "pooled"]
        /\ Live(queue[n]) /\ \A k \in 1 .. n - 1 : ~Live(queue[k])
    BY <1>8 DEF Turn, Taken
  <2>2. n \in 1 .. Len(queue) /\ queue[n] \in Jobs
    BY <1>3, <2>1, ElementOfSeq
  <2>3. answerOf[queue[n]] = "waiting"
    BY <2>1, <2>2 DEF QueueInv, FutureInv, Live, answerOf
  <2>4. runOf' = [runsOf(threads) EXCEPT ![queue[n]] = "begun"]
    BY <2>1, <2>2 DEF runOf, runsOf
  <2>5. Service!Running' = InThreads'
    BY DEF Service!Running, runOf, InThreads, ThreadStates, Outcomes
  <2>6. Cardinality(InThreads') <= Concurrency * (2 * stops + 1)
    BY <1>6 DEF ThreadsBounded
  <2>7. Service!Cardinality(InThreads') = Cardinality(InThreads')
    BY Zenon DEF Service!Cardinality, Cardinality
  <2> DEFINE m == n - 1
  <2>8. m \in 0 .. Len(queue) /\ m + 1 = n /\ m + 2 = n + 1 /\ m < Len(queue)
    BY <1>3, <2>2
  <2>9. \A k \in 1 .. m : answerOf[queue[k]] # "waiting"
    BY <1>3, <1>5, <2>1, <2>2
  <2>10. queue' = SubSeq(queue, m + 2, Len(queue))
    BY <1>4, <2>8
  <2> HIDE DEF m
  <2> QED
    BY <1>6, <2>3, <2>4, <2>5, <2>6, <2>7, <2>8, <2>9, <2>10 DEF Service!Serve
<1> QED
  BY <1>7, <1>8

\* A worker's turn lets jobs leave the line; the one that a CancelledError has reached
\* may also drop the job it held.
LEMMA WorkerServes ==
  ASSUME IInv, IInv', ThreadsBounded', NEW w \in Workers, WorkerStep(w)
  PROVE  Service!Serve(runOf) \/ \E j \in Jobs : Service!Drop(j)
<1> USE DEF IInv, TypeOK
<1>1. PICK threads \in [Jobs -> ThreadStates], n \in 0 .. Len(queue) : Turn(w, threads, n)
  BY TurnFacts
<1>2. task[w] \in {"get", "run", "cancelled"}
  BY TurnFacts
<1>3. Service!Serve(runsOf(threads))
  BY <1>1, <1>2, ServeStep
<1>4. CASE \A j \in Jobs : threads[j] = thread[j]
  <2>1. runsOf(threads) = runOf
    BY <1>4 DEF runsOf, runOf
  <2> QED
    BY <1>3, <2>1
<1>5. ASSUME NEW j \in Jobs, threads[j] # thread[j]
      PROVE  Service!Drop(j)
  <2>1. thread[j] = "pooled" /\ threads[j] = "dropped"
    BY <1>1, <1>2, <1>5, TurnThreads
  <2>2. j = job[w] /\ task[w] = "cancelled"
    BY <1>1, <1>2, <1>5 DEF Turn
  <2>3. stops > 0
    BY <2>2 DEF WorkerInv
  <2>4. \A i \in Jobs : i # j => threads[i] = thread[i]
    BY <1>1, <2>2 DEF Turn
  <2>5. runsOf(threads) = [runOf EXCEPT ![j] = "dropped"] /\ runOf[j] = "begun"
    BY <2>1, <2>4 DEF runsOf, runOf
  <2> QED
    BY <1>3, <2>3, <2>5 DEF Service!Drop
<1> QED
  BY <1>4, <1>5

\* What the service has answered, where the executor has answered callers.
answersOf(callers) == [j \in Jobs |-> CASE callers[j] = "idle" -> "none"
                                        [] callers[j] = "expired" -> "SERVER_BUSY"
                                        [] OTHER -> callers[j]]

LEMMA AskStep ==
  ASSUME TypeOK, NEW j \in Jobs, NEW callers, Posts(j, callers)
  PROVE  Service!Accept(j, answersOf(callers)) \/ Service!Refuse(j, answersOf(callers))
<1> USE DEF TypeOK
<1>1. Len(queue) \in Nat
  BY LenProperties
<1>2. runOf' = runOf /\ stops' = stops
  BY DEF Posts, Enqueue, runOf
<1>3. CASE Full
  <2>1. answerOf' = [answersOf(callers) EXCEPT ![j] = "QUEUE_FULL"] /\ queue' = queue
    BY <1>3 DEF Posts, Enqueue, answerOf, answersOf
  <2> QED
    BY <1>1, <1>2, <1>3, <2>1 DEF Full, Service!Refuse
<1>4. CASE ~Full
  <2>1. answerOf' = [answersOf(callers) EXCEPT ![j] = "waiting"] /\ queue' = Append(queue, j)
    BY <1>4 DEF Posts, Enqueue, Put, answerOf, answersOf
  <2> QED
    BY <1>1, <1>2, <1>4, <2>1, ExecutorAssumption DEF Full, Service!Accept
<1> QED
  BY <1>3, <1>4

LEMMA ServiceStep ==
  ASSUME IInv, IInv', ThreadsBounded', [Next]_vars
  PROVE  [Service!ServiceNext]_(Service!serviceVars)
<1> USE DEF IInv, TypeOK, Service!serviceVars
<1>1. CASE Start
  BY <1>1 DEF Start, runOf, answerOf
<1>2. CASE Stop
  <2>1. Service!Stopped
    BY <1>2 DEF Stop, runOf, answerOf, Service!Stopped
  <2> QED
    BY <2>1 DEF Service!ServiceNext
<1>3. ASSUME NEW j \in Jobs, Submit(j)
      PROVE  Service!Ask(j)
  <2>1. Posts(j, caller) /\ answersOf(caller) = answerOf /\ answerOf[j] = "none"
    BY <1>3 DEF Submit, Posts, answersOf, answerOf
  <2> QED
    BY <2>1, AskStep DEF Service!Ask
<1>11. ASSUME NEW i \in Jobs, NEW j \in Jobs, Resubmit(i, j)
       PROVE  Service!AskAgain(i, j)
  <2> DEFINE callers == [caller EXCEPT ![i] = "returned"]
  <2>1. Posts(j, callers)
    BY <1>11 DEF Resubmit, Posts, CallerStates, Answers
  <2>2. answersOf(callers) = [answerOf EXCEPT ![i] = "returned"]
    BY DEF answersOf, answerOf
  <2>3. answerOf[i] = "waiting" /\ answerOf[j] = "none"
    BY <1>11 DEF Resubmit, answerOf
  <2>4. runOf[i] = "returned"
    BY <1>11 DEF Resubmit, FutureInv, Outcomes, runOf
  <2> HIDE DEF callers
  <2>5. Service!Accept(j, answersOf(callers)) \/ Service!Refuse(j, answersOf(callers))
    BY <2>1, AskStep
  <2> DEFINE answers == [answerOf EXCEPT ![i] = "returned"]
  <2>6. Service!Accept(j, answers) \/ Service!Refuse(j, answers)
    BY <2>2, <2>5
  <2> QED
    BY <2>3, <2>4, <2>6 DEF Service!AskAgain
<1>4. ASSUME NEW j \in Jobs, Expire(j)
      PROVE  Service!GiveUp(j)
  <2>1. answerOf' = [answerOf EXCEPT ![j] = "SERVER_BUSY"] /\ answerOf[j] = "waiting"
    BY <1>4 DEF Expire, answerOf
  <2> QED
    BY <1>4, <2>1 DEF Expire, runOf, Service!GiveUp
<1>5. ASSUME NEW j \in Jobs, Discard(j)
      PROVE  UNCHANGED <<queue, runOf, answerOf, stops>>
  <2>1. answerOf' = answerOf
    BY <1>5 DEF Discard, Busy, answerOf
  <2> QED
    BY <1>5, <2>1 DEF Discard, Busy, runOf
<1>6. ASSUME NEW j \in Jobs, Resume(j)
      PROVE  Service!Reply(j) \/ Service!Interrupt(j) \/ Service!GiveUp(j)
  <2>1. /\ queue' = queue /\ thread' = thread /\ answerOf[j] = "waiting"
        /\ stops' = stops /\ future[j] \in Outcomes \cup {"interrupted"}
        /\ \/ caller' = [caller EXCEPT ![j] = future[j]] /\ future[j] # "timeout"
           \/ /\ caller' = [caller EXCEPT ![j] = "SERVER_BUSY"]
              /\ future[j] = "timeout" \/ j \in Timed
    BY <1>6 DEF Resume, Busy, Outcomes, answerOf
  <2>2. runOf' = runOf
    BY <2>1 DEF runOf
  <2>3. CASE caller' = [caller EXCEPT ![j] = future[j]] /\ future[j] \in {"returned", "raised"}
    <3>1. runOf[j] = future[j]
      BY <2>3 DEF FutureInv, Outcomes, runOf
    <3>2. answerOf' = [answerOf EXCEPT ![j] = runOf[j]]
      BY <2>3, <3>1 DEF answerOf
    <3> QED
      BY <2>1, <2>2, <2>3, <3>1, <3>2 DEF Service!Reply
  <2>4. CASE caller' = [caller EXCEPT ![j] = future[j]] /\ future[j] = "interrupted"
    <3>1. stops > 0 /\ thread[j] # "none"
      BY <2>4 DEF FutureInv
    <3>2. runOf[j] # "none"
      BY <3>1 DEF runOf
    <3>3. answerOf' = [answerOf EXCEPT ![j] = "interrupted"]
      BY <2>4 DEF answerOf
    <3> QED
      BY <2>1, <2>2, <3>1, <3>2, <3>3 DEF Service!Interrupt
  <2>5. CASE caller' = [caller EXCEPT ![j] = "SERVER_BUSY"]
             /\ (future[j] = "timeout" \/ j \in Timed)
    <3>1. answerOf' = [answerOf EXCEPT ![j] = "SERVER_BUSY"]
      BY <2>5 DEF answerOf
    <3>2. future[j] = "timeout" => runOf[j] = "timeout"
      BY DEF FutureInv, Outcomes, runOf
    <3> QED
      BY <2>1, <2>2, <2>5, <3>1, <3>2 DEF Service!GiveUp
  <2> QED
    BY <2>1, <2>3, <2>4, <2>5 DEF Outcomes
<1>7. ASSUME NEW j \in Jobs, ThreadStart(j)
      PROVE  UNCHANGED <<queue, runOf, answerOf, stops>>
  <2>1. runOf' = runOf
    BY <1>7 DEF ThreadStart, runOf
  <2> QED
    BY <1>7, <2>1 DEF ThreadStart, answerOf
<1>8. ASSUME NEW j \in Jobs, NEW e \in Outcomes, ThreadEnd(j, e)
      PROVE  Service!End(j)
  <2>2. runOf' = [runOf EXCEPT ![j] = e] /\ runOf[j] = "begun"
    BY <1>8 DEF ThreadEnd, runOf, Outcomes
  <2>3. queue' = queue /\ answerOf' = answerOf /\ stops' = stops
    BY <1>8 DEF ThreadEnd, answerOf
  <2> QED
    BY <2>2, <2>3 DEF Service!End, Service!Ends, Outcomes
<1>9. ASSUME NEW w \in Workers, WorkerStep(w)
      PROVE  Service!Serve(runOf) \/ \E j \in Jobs : Service!Drop(j)
  BY <1>9, WorkerServes
<1>10. CASE UNCHANGED vars
  BY <1>10 DEF vars, runOf, answerOf
<1> QED
  BY <1>1, <1>2, <1>3, <1>4, <1>5, <1>6, <1>7, <1>8, <1>9, <1>10, <1>11
  DEF Next, CallerStep, ThreadStep, Quiescent, Service!ServiceNext

LEMMA ServiceStart == Init => Service!ServiceInit
BY DEF Init, Service!ServiceInit, runOf, answerOf

\* The executor behaves as the bounded first-come first-served service, through any
\* number of stops: tasks, futures, cancellation and threads add nothing a caller sees.
THEOREM ExecutorImplementsService == Spec => ImplementsService
<1>1. IInv /\ IInv' /\ OrphanInv' /\ [Next]_vars =>
        [Service!ServiceNext]_(Service!serviceVars)
  <2>1. (IInv /\ OrphanInv => ThreadsBounded)'
    BY FewThreads, PTL
  <2> QED
    BY <2>1, ServiceStep
<1> QED
  BY <1>1, ServiceStart, Inductive, OrphansInductive, PTL
  DEF Spec, ImplementsService, Service!ServiceSpec

----------------------------------------------------------------------------
\* The registry: its inductive invariant.

\* The lock is held exactly by a call under way in the constructor.
LockInv == \A c \in Calls : get[c] = "loading" <=> lock = c

\* What a call loads or was handed, and what is resident.
CopyInv ==
  \A c \in Calls :
    /\ get[c] = "loading" => agents[AliasOf[c]] = 0 /\ got[c] # 0
    /\ get[c] = "returned" => got[c] # 0 /\ got[c] = agents[AliasOf[c]]

RegistryInv == RegistryTypeOK /\ LockInv /\ CopyInv

LEMMA RegistryStart == RegistryInit => RegistryInv
  BY RegistryAssumption
  DEF RegistryInit, RegistryInv, RegistryTypeOK, LockInv, CopyInv, CallStates

LEMMA RegistryStep == RegistryInv /\ [RegistryNext]_registryVars => RegistryInv'
<1> SUFFICES ASSUME RegistryInv, [RegistryNext]_registryVars PROVE RegistryInv'
  OBVIOUS
<1> USE RegistryAssumption DEF RegistryInv, RegistryTypeOK, LockInv, CopyInv, CallStates
<1>1. ASSUME NEW c \in Calls, Enter(c) PROVE RegistryInv'
  BY <1>1 DEF Enter
<1>2. ASSUME NEW c \in Calls, Hit(c) PROVE RegistryInv'
  BY <1>2 DEF Hit, LockFree
<1>3. ASSUME NEW c \in Calls, BeginLoad(c) PROVE RegistryInv'
  <2>1. AliasOf[c] \in Aliases
    OBVIOUS
  <2>2. got'[c] = loads[AliasOf[c]] + 1 /\ got'[c] \in Nat \ {0}
    BY <1>3, <2>1 DEF BeginLoad
  <2>3. RegistryTypeOK'
    BY <1>3, <2>1, <2>2 DEF BeginLoad
  <2>4. LockInv'
    BY <1>3 DEF BeginLoad, LockFree
  <2>5. CopyInv'
    BY <1>3, <2>2 DEF BeginLoad, LockFree
  <2> QED
    BY <2>3, <2>4, <2>5
<1>4. ASSUME NEW c \in Calls, FinishLoad(c) PROVE RegistryInv'
  <2>1. \A d \in Calls : get[d] = "loading" => d = c
    BY <1>4 DEF FinishLoad
  <2>2. RegistryTypeOK' /\ LockInv'
    BY <1>4, <2>1 DEF FinishLoad, Store
  <2>3. CopyInv'
    BY <1>4, <2>1 DEF FinishLoad, Store
  <2> QED
    BY <2>2, <2>3
<1>5. ASSUME NEW c \in Calls, FailLoad(c) PROVE RegistryInv'
  BY <1>5 DEF FailLoad
<1>6. CASE RegistryRest
  BY <1>6 DEF RegistryRest, registryVars
<1>7. CASE UNCHANGED registryVars
  BY <1>7 DEF registryVars
<1> QED
  BY <1>1, <1>2, <1>3, <1>4, <1>5, <1>6, <1>7 DEF RegistryNext

LEMMA RegistryInductive == RegistrySpec => []RegistryInv
  BY RegistryStart, RegistryStep, PTL DEF RegistrySpec

\* get() never has two copies of one alias's model in the process, one resident
\* or both under construction (queue.py:90-97), whatever fails.
THEOREM OneModelCopy == RegistrySpec => []OneCopyPerAlias
<1>1. RegistryInv => OneCopyPerAlias
  BY DEF RegistryInv, LockInv, CopyInv, OneCopyPerAlias, Loading
<1> QED
  BY <1>1, RegistryInductive, PTL

\* Every call of get() for an alias is handed the one Agent that is resident.
THEOREM AgentIsShared == RegistrySpec => []SharedAgent
<1>1. RegistryInv => SharedAgent
  BY DEF RegistryInv, CopyInv, SharedAgent
<1> QED
  BY <1>1, RegistryInductive, PTL

----------------------------------------------------------------------------
\* The loads of an alias that did not fail: the one that is resident or under way.
Kept(a) == IF agents[a] # 0 \/ Loading(a) # {} THEN 1 ELSE 0

LoadsInv == \A a \in Aliases : loads[a] <= Cardinality(Failed(a)) + Kept(a)

LEMMA FailedFinite ==
  \A a \in Aliases : IsFiniteSet(Failed(a)) /\ Cardinality(Failed(a)) \in Nat
<1> SUFFICES ASSUME NEW a \in Aliases PROVE IsFiniteSet(Failed(a))
  BY FS_CardinalityType
<1> QED
  BY RegistryAssumption, FS_Subset DEF Failed

LEMMA LoadsStep ==
  RegistryInv /\ LoadsInv /\ [RegistryNext]_registryVars => LoadsInv'
<1> SUFFICES ASSUME RegistryInv, LoadsInv, [RegistryNext]_registryVars,
                    NEW a \in Aliases
             PROVE (loads[a] <= Cardinality(Failed(a)) + Kept(a))'
  BY DEF LoadsInv
<1> USE RegistryAssumption DEF RegistryInv, RegistryTypeOK, LockInv, CopyInv, CallStates
<1>0. /\ IsFiniteSet(Failed(a)) /\ Cardinality(Failed(a)) \in Nat
      /\ loads[a] \in Nat /\ loads[a] <= Cardinality(Failed(a)) + Kept(a)
      /\ Kept(a) \in 0 .. 1
  BY FailedFinite DEF LoadsInv, Kept
<1>1. ASSUME NEW c \in Calls, Enter(c) \/ Hit(c)
      PROVE (loads[a] <= Cardinality(Failed(a)) + Kept(a))'
  <2>1. Failed(a)' = Failed(a) /\ Loading(a)' = Loading(a) /\ UNCHANGED <<loads, agents>>
    BY <1>1 DEF Enter, Hit, Failed, Loading
  <2> QED
    BY <1>0, <2>1 DEF Kept
<1>2. ASSUME NEW c \in Calls, BeginLoad(c)
      PROVE (loads[a] <= Cardinality(Failed(a)) + Kept(a))'
  <2>1. Failed(a)' = Failed(a) /\ UNCHANGED agents
    BY <1>2 DEF BeginLoad, Failed
  <2>2. CASE a = AliasOf[c]
    <3>1. agents[a] = 0 /\ Loading(a) = {} /\ loads'[a] = loads[a] + 1
      BY <1>2, <2>2 DEF BeginLoad, LockFree, Loading
    <3>2. c \in Loading(a)'
      BY <1>2, <2>2 DEF BeginLoad, Loading
    <3> QED
      BY <1>0, <2>1, <3>1, <3>2 DEF Kept
  <2>3. CASE a # AliasOf[c]
    <3>1. Loading(a)' = Loading(a) /\ loads'[a] = loads[a]
      BY <1>2, <2>3 DEF BeginLoad, Loading
    <3> QED
      BY <1>0, <2>1, <3>1 DEF Kept
  <2> QED
    BY <2>2, <2>3
<1>3. ASSUME NEW c \in Calls, FinishLoad(c)
      PROVE (loads[a] <= Cardinality(Failed(a)) + Kept(a))'
  <2>1. Failed(a)' = Failed(a) /\ UNCHANGED loads
    BY <1>3 DEF FinishLoad, Failed
  <2>2. CASE a = AliasOf[c]
    <3>1. agents'[a] # 0
      BY <1>3, <2>2 DEF FinishLoad, Store
    <3> QED
      BY <1>0, <2>1, <3>1 DEF Kept
  <2>3. CASE a # AliasOf[c]
    <3>1. Loading(a)' = Loading(a) /\ agents'[a] = agents[a]
      BY <1>3, <2>3 DEF FinishLoad, Store, Loading
    <3> QED
      BY <1>0, <2>1, <3>1 DEF Kept
  <2> QED
    BY <2>2, <2>3
<1>4. ASSUME NEW c \in Calls, FailLoad(c)
      PROVE (loads[a] <= Cardinality(Failed(a)) + Kept(a))'
  <2>1. UNCHANGED <<loads, agents>>
    BY <1>4 DEF FailLoad
  <2>2. CASE a = AliasOf[c]
    <3>1. Failed(a)' = Failed(a) \cup {c} /\ c \notin Failed(a)
      BY <1>4, <2>2 DEF FailLoad, Failed
    <3>2. Cardinality(Failed(a)') = Cardinality(Failed(a)) + 1
      BY <1>0, <3>1, FS_AddElement
    <3>3. Kept(a)' \in 0 .. 1
      BY DEF Kept
    <3>4. Cardinality(Failed(a))' = Cardinality(Failed(a)')
      OBVIOUS
    <3> QED
      BY <1>0, <2>1, <3>2, <3>3, <3>4
  <2>3. CASE a # AliasOf[c]
    <3>1. Failed(a)' = Failed(a) /\ Loading(a)' = Loading(a)
      BY <1>4, <2>3 DEF FailLoad, Failed, Loading
    <3> QED
      BY <1>0, <2>1, <3>1 DEF Kept
  <2> QED
    BY <2>2, <2>3
<1>5. ASSUME RegistryRest \/ UNCHANGED registryVars
      PROVE (loads[a] <= Cardinality(Failed(a)) + Kept(a))'
  <2>1. Failed(a)' = Failed(a) /\ Loading(a)' = Loading(a) /\ UNCHANGED <<loads, agents>>
    BY <1>5 DEF RegistryRest, registryVars, Failed, Loading
  <2> QED
    BY <1>0, <2>1 DEF Kept
<1> QED
  BY <1>1, <1>2, <1>3, <1>4, <1>5 DEF RegistryNext

\* A model is loaded again only after a load of it has failed (queue.py:93-97):
\* a caller that gave up during the load does not make the next one repeat it.
THEOREM LoadsAreKept == RegistrySpec => []NoNeedlessLoad
<1>1. RegistryInit => LoadsInv
  <2> SUFFICES ASSUME RegistryInit, NEW a \in Aliases
               PROVE loads[a] <= Cardinality(Failed(a)) + Kept(a)
    BY DEF LoadsInv
  <2> QED
    BY FailedFinite DEF RegistryInit, Kept
<1>2. LoadsInv /\ RegistryInv => NoNeedlessLoad
  <2> SUFFICES ASSUME LoadsInv, RegistryInv, NEW a \in Aliases
               PROVE loads[a] <= 1 + Cardinality(Failed(a))
    BY DEF NoNeedlessLoad
  <2> QED
    BY FailedFinite DEF LoadsInv, Kept, RegistryInv, RegistryTypeOK
<1> QED
  BY <1>1, <1>2, LoadsStep, RegistryInductive, PTL DEF RegistrySpec

===============================================================================
