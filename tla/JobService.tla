----------------------------- MODULE JobService -----------------------------
(***************************************************************************)
(* What the bounded executor promises to those who call it, without its    *)
(* tasks, futures and threads: a line of bounded length, served first      *)
(* come first served by at most Concurrency servers, in which a caller may *)
(* give up at its deadline and is then not served any more.  Each stop may *)
(* interrupt callers whose jobs have begun, leave that many jobs running   *)
(* unheard, and let that many more begin.                                  *)
(***************************************************************************)
EXTENDS Integers, Sequences, FiniteSets

CONSTANTS Jobs, Timed, Capacity, Concurrency

VARIABLES
  line,    \* the accepted jobs that have not begun
  run,     \* none, begun, how the job ended, or dropped
  answer,  \* none, waiting, or what the caller was told
  stops    \* how often the service was stopped

serviceVars == <<line, run, answer, stops>>

Ends == {"returned", "raised", "timeout"}
Running == {j \in Jobs : run[j] = "begun"}

ServiceInit ==
  /\ line = << >>
  /\ run = [j \in Jobs |-> "none"]
  /\ answer = [j \in Jobs |-> "none"]
  /\ stops = 0

\* answers is what the step has made of answer so far.
Accept(j, answers) ==
  /\ Len(line) < Capacity
  /\ line' = Append(line, j)
  /\ answer' = [answers EXCEPT ![j] = "waiting"]
  /\ UNCHANGED <<run, stops>>

\* A caller is refused only when the line is full.
Refuse(j, answers) ==
  /\ Len(line) >= Capacity
  /\ answer' = [answers EXCEPT ![j] = "QUEUE_FULL"]
  /\ UNCHANGED <<line, run, stops>>

Ask(j) == answer[j] = "none" /\ (Accept(j, answer) \/ Refuse(j, answer))

\* A caller takes the result of job i and asks for job j at once.
AskAgain(i, j) ==
  /\ answer[i] = "waiting"
  /\ run[i] = "returned"
  /\ answer[j] = "none"
  /\ LET answers == [answer EXCEPT ![i] = "returned"]
     IN  Accept(j, answers) \/ Refuse(j, answers)

\* Those who have given up leave the head of the line; then the first who still
\* waits may begin, if a server is free.  runs is what the step has made of run so far.
Serve(runs) ==
  \E n \in 0 .. Len(line) :
    /\ \A k \in 1 .. n : answer[line[k]] # "waiting"
    /\ \/ /\ line' = SubSeq(line, n + 1, Len(line))
          /\ run' = runs
       \/ /\ n < Len(line)
          /\ answer[line[n + 1]] = "waiting"
          /\ line' = SubSeq(line, n + 2, Len(line))
          /\ run' = [runs EXCEPT ![line[n + 1]] = "begun"]
          /\ Cardinality(Running') <= Concurrency * (2 * stops + 1)
    /\ UNCHANGED <<answer, stops>>

\* A stop; what it interrupts learns of it later.
Stopped ==
  /\ stops' = stops + 1
  /\ UNCHANGED <<line, run, answer>>

\* An interrupted job that no thread had picked up is never run.
Drop(j) ==
  /\ stops > 0
  /\ run[j] = "begun"
  /\ Serve([run EXCEPT ![j] = "dropped"])

\* A job that has begun is never begun again.
End(j) ==
  /\ run[j] = "begun"
  /\ \E e \in Ends : run' = [run EXCEPT ![j] = e]
  /\ UNCHANGED <<line, answer, stops>>

\* The caller is told how its own job ended ...
Reply(j) ==
  /\ answer[j] = "waiting"
  /\ run[j] \in {"returned", "raised"}
  /\ answer' = [answer EXCEPT ![j] = run[j]]
  /\ UNCHANGED <<line, run, stops>>

\* ... that a stop interrupted it after it had begun ...
Interrupt(j) ==
  /\ answer[j] = "waiting"
  /\ stops > 0 /\ run[j] # "none"
  /\ answer' = [answer EXCEPT ![j] = "interrupted"]
  /\ UNCHANGED <<line, run, stops>>

\* ... or SERVER_BUSY, at a deadline or because its job raised TimeoutError.
GiveUp(j) ==
  /\ answer[j] = "waiting"
  /\ j \in Timed \/ run[j] = "timeout"
  /\ answer' = [answer EXCEPT ![j] = "SERVER_BUSY"]
  /\ UNCHANGED <<line, run, stops>>

ServiceNext ==
  \/ Serve(run)
  \/ Stopped
  \/ \E j \in Jobs : Ask(j) \/ Drop(j) \/ End(j) \/ Reply(j) \/ Interrupt(j) \/ GiveUp(j)
  \/ \E i, j \in Jobs : AskAgain(i, j)

ServiceSpec == ServiceInit /\ [][ServiceNext]_serviceVars
=============================================================================
