# Verification of laya-linux

TLA+ models of laya-linux (the repository in `src/`), the TLC runs that check
them on small instances and the theorems that TLAPS proves about them for every
value of their constants.

All paths below are relative to `src/src/laya_linux/` unless they start with
`src/`.

## 1. Inventory

laya-linux answers *typed questions* (choice, score, noul) about a state with a
local transformer model. It can be embedded (`agent.py`), or run as a server
(`server/`) that a standard-library client (`client/http.py`) talks to.

| Part | Source | State it keeps | Operations | Hard behaviour | What makes it correct |
|---|---|---|---|---|---|
| Bounded executor | `server/queue.py` 21-87 | FIFO of jobs, worker tasks, one future per job | `start`, `stop`, `submit`, `_worker` | deadline against result, dead jobs on the queue, cancellation of busy workers, threads that never end | no job lost, duplicated or overtaken; honest answers; bounded queue and threads; every deadline answers |
| Agent registry | `server/queue.py` 90-133 | one dictionary of Agents, one lock | `get` | concurrent first loads, loads that raise, loads that outlive their caller | one copy per alias, shared by all |
| Predict handler | `server/app.py` 87-162 | none of its own | two `submit` calls per request | state used across two awaits, two deadlines | every request answered in bounded time, on the resident Agent |
| HTTP connection | `server/app.py` 184-290 | byte buffer, parse state | `data_received`, `_parse_head`, `_abort`, `_respond` | bytes in any split, extra bytes, a client that stops or leaves | one complete request, one answer |
| Request limits | `server/schemas.py`, `server/config.py`, `server/auth.py` | configuration | `validate_predict_payload`, `check` | order of rejections, limits at their boundary | nothing invalid or unauthenticated reaches the queue |
| Remote client | `client/http.py` | none between calls | `_request`, `predict` | failure at each step of the exchange | never retried, every failure typed |
| Router | `router.py` | dictionary of Agents, eviction order, residency limit | `load`, `attach`, `preload`, `unload`, `route` | partial failure, two views of one cache | the views agree, least recently used leaves first |
| Prefix cache | `prepared.py` | ordered dictionary | `prepare` | threads without a lock | a prefix is the one of its key; bounded |
| Agent runtime | `agent.py`, `prompts.py`, `tokenizer.py` | the loaded model, its device plan | constructor, `prepare`, `system_one` | token budget and batch boundaries, checkpoints that do not fit | each answer belongs to its question and its prompt |
| Neural model | `model.py` | none between calls | `build_decision_model`, `verify_weights`, `forward` | masks, windows and padding | every answer depends on all of its row and nothing else |
| Device selection | `devices.py` | none | `select_device` | fallbacks | the plan is what is used |
| Language detection | `lang.py` | none | `analyse` | ties and thresholds | no text goes to a checkpoint that cannot read it |
| Packaging | `packaging.py`, `manifest.py`, `checkpoints.py` | files of a package | `package_model`, `verify_model`, `load_checkpoint` | failure or crash at each file operation | a package that verifies is complete |
| Others | `email.py`, `presets.py`, `cli.py`, `src/plugins`, `src/scripts` | none or files | | | |

How they interact: a connection hands a complete request to
`LayaServerApp.handle`; a valid predict request awaits `submit(registry.get)` and
then `submit(agent.predict)` on the one executor; worker tasks run these in pool
threads, where `get` takes the registry's lock and `predict` uses the shared
Agent. The event loop is single-threaded, so tasks interleave only at their
awaits; pool threads interleave with everything.

## 2. Modules

| Module | Models | Kind |
|---|---|---|
| `BoundedExecutor` | `BoundedExecutor` of `server/queue.py` | detailed specification |
| `JobService` | what `submit()` promises: a bounded FIFO whose callers may give up | abstract specification |
| `ExecutorService`, `MCExecutorService` | the refinement mapping from the first to the second | refinement, TLC instance |
| `AgentRegistry`, `MCAgentRegistry` | `AgentRegistry.get` under threads | specification, TLC instance |
| `SharedObjectProofs` | `BoundedExecutor`, `ExecutorService` and `AgentRegistry` | proofs |
| `PredictServer`, `MCPredictServer` | `_predict` over executor and registry, with a clock | composition, TLC instance |
| `HttpConnection` | `_OneRequestProtocol` of `server/app.py` | specification |
| `ServerProofs` | `HttpConnection` and `PredictServer` | proofs |
| `ModelRouter` | residency and eviction of `router.py` | specification |
| `RequestPipeline` | the checks of `_route`, `_predict`, `auth.py`, `schemas.py`, `Agent._to_internal` | operators |
| `RemoteCall`, `MCRemoteCall` | `_request` of `client/http.py` against a server that decides by `RequestPipeline` | composition, TLC instance |
| `RemoteCallProofs` | `RequestPipeline` and `RemoteCall` | proofs |
| `ModelPackage`, `MCModelPackage` | `packaging.py`, `manifest.py`, `checkpoints.py` on one directory | specification, TLC instance |
| `ModelPackageProofs` | `ModelPackage` | proofs |
| `Prompts` | token sequences and padded batches of `prompts.py` | operators |
| `AgentRuntime`, `MCAgentRuntime` | `predict` of `agent.py` over the prefix cache of `prepared.py`, by several threads | specification, TLC instance |
| `AgentRuntimeProofs` | `Prompts` and `AgentRuntime` | proofs |
| `LanguageRoute` | `lang.py` and `route()` of `router.py` | operators |
| `RoutedPredict`, `MCRoutedPredict` | `Router.predict()` over `ModelRouter` and `LanguageRoute` | composition, TLC instance |
| `ModelRouterProofs` | `ModelRouter`, `LanguageRoute` and `RoutedPredict` | proofs |
| `EncoderFlow` | `forward()` of `model.py`, as what depends on what | specification |
| `DevicePlan` | `select_device()` of `devices.py` | operators |
| `LoadedModel`, `MCLoadedModel` | the constructor of Agent with `model.py`, `tokenizer.py`, `DevicePlan`, then batches through `EncoderFlow` | composition, TLC instance |
| `LoadedModelProofs` | `EncoderFlow` and `LoadedModel` | proofs |
| `FoldLemmas` | maxima, sums, sequences of sequences and induction, for the other proofs | proofs |

`ExecutorService` composes `BoundedExecutor` with `JobService`; `PredictServer` composes
`BoundedExecutor` with `AgentRegistry`; `RemoteCall` rests on `RequestPipeline`,
`AgentRuntime` on `Prompts`; `RoutedPredict` composes `ModelRouter` with `LanguageRoute`, and
`LoadedModel` composes `EncoderFlow` with `DevicePlan`. Each
module's mutated definitions (marked `mutant`) are the faults with which the
properties have been shown to fail; nothing else uses them.

### BoundedExecutor

An action is one uninterrupted step of the event loop, or one step of a pool
thread. The correspondence:

| Code | Model |
|---|---|
| `self._queue` | `queue` |
| `self._workers` | `Current`: the tasks of the last `start()`, empty after `stop()`; `starts` and `stops` count them |
| a worker task at `await self._queue.get()` / at `await asyncio.to_thread` | `task[w] = "get"` / `"run"`; `"cancelled"` once `stop()` has cancelled it there |
| `job.future`, `job.discarded` | `future[j]`, `discarded[j]` |
| the coroutine in `submit()` | `caller[j]`; `Submit` up to the await, `Expire` (timer fires, `wait_for` cancels the future), `Discard` (the coroutine runs again), `Resume` (the future was done), `Resubmit` (it was, with a value, and the coroutine calls `submit()` again before its next await) |
| one turn of `_worker`'s loop, from `get()` to the next await | `Take`, `Finish`, `Interrupt`, each ending in `Fetch`, which drops dead jobs and hands the first live one to the pool |
| `asyncio.to_thread` | `thread[j]`: pooled, running, its outcome, or dropped when cancelled before a thread picked it up |

`accepted` is a history variable that only properties read. A worker task is named by the set it
was created in and its index there; `Generations` bounds the sets that can be told apart, and
`Generations > MaxStops` leaves room for all that the code creates.

`JobService` knows neither tasks nor threads: jobs that have begun, a bounded line before them,
callers who wait. A stop lets it interrupt callers whose jobs have begun, and raises the number
of jobs that may run at once, as the code does.

Abstractions: any idle worker may take a job (the wake-up order of
`asyncio.Queue` getters is left open); the pool has a thread for every worker; an
idle worker that is cancelled ends at once. Where the deadline passes between
the result and the caller's next step, Python 3.11 returns the result and 3.12
raises `TimeoutError`: `Resume` allows both. `task_done()` is left out, since
nothing joins the queue.

### AgentRegistry

`lock` is the holder of `self._lock`, `agents[a]` which load of the alias is
resident (0: none), `get[c]` where a call is. The constructor of Agent takes
two steps, begin and end, with the lock held, and may raise.

### PredictServer

Two jobs per request, `<<r, "load">>` and `<<r, "predict">>`, on an instance of
`BoundedExecutor` with `MaxStops = 0`, and one registry call per request, made by
the thread of the first job. `Serve` is `app.start()`, before which no connection is
accepted. `Continue` is the step in which the coroutine gets
the Agent and calls `submit()` again without an await in between: a `Resubmit` of the
executor, and an `AskAgain` of the abstract service. `waited[r]` is
the time since the `submit()` awaited, `age[r]` since the call of `handle()`;
`Tick` passes time only when no callback of a request is due, that is: the event
loop's own steps take no time, threads any.

### HttpConnection

`stream` is what the client sends, byte by byte numbered; `self._buffer` is the range
`start + 1 .. received`. One action `DataReceived(n)` is one call of `data_received()`,
whole: the head ends in it or not (`AwaitHead`, `HeadEnds`, with `_parse_head`, and
`MoreBody`), the request is complete or not (`Dispatch`). `Reply` is the end of a
`_respond` task, with `_write_response`. The transport is asyncio's: it reads until it
is closed, goes on flushing what was written before, accepts writes while it flushes
and drops them once it is gone.

### ModelRouter

`agents` is the dictionary of Agents, `order` the eviction order, `maxLoaded` the
limit, which `attach()` and `preload()` raise. `preload()` is a loop of steps, one
per name, any of which may raise; `todo` are the names to do, `passed` those that the last
`preload()` has loaded or found, also after it has failed. `recent` is a history of
uses that only properties read. The router is used by one thread. `route()` is `LanguageRoute`'s.

### RequestPipeline and RemoteCall

A chain of checks is the sequence of what each would raise; the first that raises
is the answer (`FirstError`), so the order of the code's checks is kept. A text is
`fit` or `long`, a body one of three kinds, a token right, wrong or missing.

`RemoteCall` follows one call: `Connect`, `GetHead`, `Read`, `Lost` and `Timeout` are
the client's, in the order of `_request`; `Admit`, `Start`, `LoadEnds`, `PredictEnds` and
`Busy` are what `handle` and the executor do, abstracted from `BoundedExecutor` to the
one job awaited, which may meet a full queue, run out of time while queued (never run)
or running (runs on), or fail. `Die` may come at any time and loses what the client
has not received. `http.client` ends `read(n)` without an error when a body is cut
short, so what tells a whole response is only that it parses. The head of a response
comes in one piece; redirects and responses without Content-Length are left out, since
this server sends neither. Where a connection cannot be made or breaks while sending,
the server dispatches nothing.

### ModelPackage

Several `package_model()` calls with one destination. A step is one file operation:
mkdir, the start and end of a copy, the hashing, the rename of the manifest, the
removal of an entry. A digest is the content itself (SHA-256 is taken to be
collision-free). Any step of the `try` may raise (`Raise`), any process may be killed
(`Killed`), `rmtree(ignore_errors=True)` may leave something behind (`IgnoreErrors`), and
files may be damaged on disk (`Damage`). A load tests existence, checks digests if
there is a manifest, then reads, file by file. The source of the package is taken
to be complete and not to change; `write_manifest`'s temporary file, which no load
looks at, is left out.

### Prompts and AgentRuntime

A text is the sequence of its tokens, of which only the mask token matters by name; the
code's limits (512, 192, 48, 16, 8, 4) are constants, so that small ones meet. `AgentRuntime`
is several threads that each make one `predict()` call of one Agent. `prepare()` is split
at every operation on the cache's dictionary, each of which the interpreter makes atomic:
test (`Build` or `Hit`), `Insert`, `Measure`, `Pop`, `Touch`, `Read`; a key that is gone by
then raises, as `OrderedDict` does. Tokenizing and serializing the state, which touch nothing
shared, belong to the steps around them. `RunBatch` is a whole batch: `collate_items`, padding,
the forward pass and the answers. The model's numbers are abstracted to what a row lets it
see (`RowSeen`): the tokens that are attended to, and the markers that are not padding. That
this is right is what `LoadedModelProofs` proves of `EncoderFlow`. `NonFinite` may end any
batch. `alone` is a history variable: whether no other call has been under way.

### LanguageRoute and RoutedPredict

Detection counts letters, words and accents, so a text is the sequence of its words, each
with its script, its number of letters and accents, and the function-word lists that have it.
Which lists may share a word is read off the tables of `_STOP`. `lang` is given as its part
before the hyphen. `Predict` is `Router.predict()` whole: route, load with eviction,
answer; `Manage` is everything else that touches the cache of Agents, but for `preload()`.

### EncoderFlow, DevicePlan and LoadedModel

Of a hidden vector `EncoderFlow` keeps the set of positions it depends on. A layer of the
encoder or of the head lets a position take in the positions its mask allows, nothing else
in a layer mixes positions, and the logits are read at the markers. The features of the act
head, which come from the same hidden vectors, are left out. `DevicePlan` is the
decision of `select_device()`, over what PyTorch says of the machine. `LoadedModel` is the
constructor, check by check in its order, and then `forward()`. Names and shapes of the
parameters are abstracted to the number of tensors and one size per part. `local_attention`,
which the code does not check, is any integer (`window`): with a negative one a valid query of a
sliding layer has no key, and since the mask is finite its softmax spreads over all
positions (`Attended`). `HeadError` is an assertion of PyTorch's own, in the layers of the head:
their heads, one per 64 dimensions, must divide these. An index of a GPU that is not there
makes `model.to()` raise. What raises in `forward()` only, such as an odd head dimension in
`apply_rope`, is left out.

## 3. Runs

| Run | Instance | Shows |
|---|---|---|
| `bounded_executor` | 3 jobs, 2 with a deadline, capacity 2, 1 worker, 1 stop, 2 sets of workers | no job lost, answers honest and in time, a queue that drains |
| `executor_service` | 4 jobs, 1 with a deadline, capacity 2, 1 worker, 1 stop, 3 sets of workers | the executor implements `JobService`; threads stay bounded after a stop |
| `agent_registry` | 5 calls, 2 aliases | one shared copy per alias, no call stranded |
| `predict_server` | 2 requests for one alias, capacity 1, 2 workers, timeout 1 | answers within two deadlines, loads never repeated needlessly |
| `http_connection` | heads, bodies and streams of a few bytes, limits below them, chunks of any cut | whole bodies, bounded buffers, one answer for one request and one more at most per byte behind it, aborts first |
| `model_router` | 3 models, initial limit 1, any calls | the two views agree, a preload keeps what it has passed, least recently used leaves first |
| `remote_call` | about 1350 requests, one call each | what the client is told is what was decided and done; nothing inadmissible runs |
| `model_package` | 2 packagers, 1 load, 3 files in 2 items | published packages stay, damage is found, failures do not block |
| `agent_runtime` | 2 threads, lists of up to 3 questions, with and without a cache of one place, batches of 1 and 2, padding to 5 and 8 | every answer is its own question's; markers, limits and the cache are sound; a call alone is safe |
| `routed_predict` | 287 requests, 4 kinds of Router, 3 checkpoints | routes fit the text or the caller's wish, and the routed checkpoint answers |
| `loaded_model` | networks of up to 3 layers and 2 head layers, windows of any sign, broken checkpoints, 25 device wishes, 5 machines, 2 batches | outputs depend on the whole of their row and, but for negative windows, on nothing else; the plan is real |
| `thread_safe` | as `agent_runtime` | violation: two threads on one Agent with a cache can end in a KeyError |

Bounds. Three jobs are the fewest with one running, one dead at the head of the
queue and one behind it; with capacity 2 the queue fills, with one stop two
generations of workers coexist. One worker makes head-of-line blocking happen. The second run
has four jobs, one more than `ThreadsBounded` allows in threads after a stop of one
worker: one that the stop left behind, one in the hands of the worker that survived it, one
in those of a new worker, and one that must wait. Here, too, two workers can overtake one
another. A third set of workers, which the code does not create, is there for a start that would
(`StartWorkersOnFlag`). The three jobs without a deadline are symmetric. In `predict_server` two
requests and two workers contend for the lock, and with capacity 1 the second
`submit()` of a request meets a full queue. A timeout of one unit is enough:
`Tick` interleaves with every other step, so a unit stands for any delay.
In `http_connection` the limits on buffered bytes are smaller than what a client may
send, so both are met, and the stream is long enough for a second request behind the
first. In `remote_call` the body of a result may be longer than the client's limit,
and longer than the server's, so that both limits act; the requests are a good one
varied in the fields of one group of checks at a time: all those that `_route` and
`_predict` read, all those of the payload, and every question that a limit of two
options tells apart. In `model_package` two packagers are the fewest that race for a
destination; one item is a file and one a directory with a file that loading does not
require, so the order of items, the free order in a directory and the manifest's wider
coverage all matter.

In `agent_runtime` the limits are 12 tokens, 8 of them for the head: questions with four,
five and six options then meet the share of an option, the loss of a marker and the loss of
the state's last token, and two keys are enough to fight for one place. In
`routed_predict` the texts are every one of up to two words of the eleven kinds, and those of
four and five words around the margin, the accents and the cut at 22 letters; the real
limit of 4000 differs in nothing but size. In `loaded_model` three layers are the fewest in which
a window's reach grows twice before a full layer ends it, and every sequence of kinds occurs.

Deadlock checking is on in every run but `model_package`, where every call comes to
an end and nothing is left to do. Elsewhere states in which everything is answered are
explicit stuttering actions (`Quiescent`, `RegistryRest`, `Rest`, `Quiet`), so TLC reports any
other state without a successor.

Fairness. The event loop runs every callback it is given and timers fire: weak
fairness of `Expire`, `Discard`, `Resume` and the workers' steps. Nothing is assumed
of clients, and nothing of pool threads, except where a property says so itself:
`Drains` and `EveryCallEnds` have the premise that calls end, since no queue drains
behind a call that never returns. In `RemoteCall` only the client's own steps are
fair, its timeout among them (the constructor refuses a client without one): the
server may stop anywhere. In `PredictServer` time goes on (weak fairness
of `Tick`), and requests are still answered when every thread hangs.

## 4. Proofs

TLAPS checks every obligation. Every safety invariant and every action property that a
run checks is stated by a theorem, and so are the refinements: of `JobService` by the
executor, of the executor and the registry by the server, and of the cache of Agents by
`RoutedPredict`. Assumptions are the named ASSUMEs of the modules: positive capacity,
concurrency and timeout (the code refuses others: `server/queue.py` 33-34,
`server/config.py` 79-82; concurrency by the former only), positive limits, that requests,
questions and texts have the fields the code gives them, that the "nobody" values are
not jobs or calls, and that `Generations` exceeds `MaxStops`. The sets are arbitrary; only the calls of the registry, the requests of
the server and the threads of `AgentRuntime` are assumed finite.

`SharedObjectProofs`, the executor. The properties are not inductive: `NoLostJob` speaks of
futures, queue and workers, and a step of a worker preserves it only if the job it
holds is the one whose thread has ended and whose future is pending or cancelled.
The inductive invariant `IInv` is the conjunction of `TypeOK` and of what each actor
relies on: `WorkerInv` (a worker holds a job exactly while it awaits a thread, and
none other holds it), `QueueInv` (no duplicates, queued jobs have no thread),
`FutureInv` (futures, callers and threads agree), `CustodyInv` (a pending future has
its job queued or held) and `HistoryInv` (the accepted jobs still queued are the last ones
accepted, in order). Every safety property follows from it. A call of `submit()` by a new
caller and one by a caller that has just been answered are one case of the proof (`Posts`).
`ThreadsBounded` needs one more invariant, `OrphanInv`: the jobs in
threads that no worker holds and the tasks whose CancelledError is still to come are together
at most `Concurrency` for each stop; the other jobs in threads are held, each by a task of its
own. The refinement theorem `ExecutorImplementsService` maps each action to an action of
`JobService` or a stutter, for any number of stops: `IInv` gives the order of the line and
the honesty of the answers, `OrphanInv` the number of jobs that may run.

`SharedObjectProofs`, the registry. `RegistryInv`: the lock is held exactly by the call inside
the constructor, whose alias has no Agent yet, and what returned calls hold is what
is resident. `LoadsInv` counts: loads of an alias are those that failed plus at most
one that is resident or under way.

`ServerProofs`, a connection. `Inv` says where the buffer begins before and after the end of the
head, that the requests handled lie one after the other and all before it, that nothing has
been written while the connection reads. For `OneForOne` it counts: every request handled after the
first used a byte behind it (`SurplusInv`), and what has been written are answers to these, each
once, and at most one abort, which has a byte of its own (`WroteInv`). Any sizes, limits and chunks.

`ServerProofs`, the server. `ClockInv`: before its second `submit()` a request is as old as
the time it has waited, after it at most one timeout older; `Tick` passes only while
something of the deadline is left. `ServerUsesExecutor` and `ServerUsesRegistry` show that the
server takes only steps of the executor and of the registry, so that the theorems about
these hold inside the server, whose jobs meet their assumptions (`ServerMeetsExecutor`).
`LinkInv` follows the return of `registry.get()` through the outcome of its thread and the
future to the coroutine that queues the prediction; with `ResidentInv`, the registry's
invariant inside the server, it gives `PredictsOnResident` (proved, so no run checks it).

`RemoteCallProofs`, the checks. A chain of checks that answers "ok" has passed every one of
them, in whatever order they are made (`ChainAnswers`, and `PartsPassed` for chains made of
chains), so what gets through is read off the checks, from `_validate_question()` up to
`Verdict` (`VerdictFacts`); a chain none of whose checks fails answers "ok". Together:
`ValidationIsExact`, a request to predict gets through if and only if it is `Admissible`, for
any limits and any number of questions.

`RemoteCallProofs`, the call. What the client is told of the prediction is not inductive; it
needs to know where the server stands. `ServerInv` ties the server's place to what has been
written, delivered and run: before the prediction starts, nothing has. `DecidedInv` says what
the reply commits to: a reply "ok" to a prediction was preceded by one run, one of the codes
after which a caller may ask again (`Refusals`) by none, and only a request that passed every
check has a job. With `AnswerIsTheServers`, which carries the reply to the client, they make
`CallInv`, and the properties follow from it. A server that dies and a client that stops
waiting change neither reply nor runs, which is why the invariant survives them.

`ModelRouterProofs`, the cache. Most of it is about the operators on the eviction order: what
removing, touching and cutting off a sequence without repetitions keeps of its
elements, its length and its order. With these lemmas three invariants are inductive:
`CacheInv` (the order holds each resident model once and is no longer than the limit),
`PreloadInv` (what a `preload()` that began among its own models has passed is still there, and
while it goes on all resident models are of its list, which the limit can hold)
and `OrderInv` (`order` and `recent` agree on who was used last).

`ModelRouterProofs`, `predict()`. `PredictRefinesTheCache`: whatever `predict()` routes to, it does
to the cache what `load()` does, so the theorems above hold under it, too; `RoutedInv`
adds to `CacheInv` that the checkpoint which has answered is the newest, which an eviction
keeps (`EvictKeepsLast`). `UnreadableAvoided`, `MarginDecides` and `TypedOnlyWhenAsked` hold of
the decision alone: the counts of `lang.py` are sums over the words of a text of any length
that the cut-off leaves, and the proofs compare these sums, script by script
(`OtherScriptDetected`) and language by language (`BestFacts`, `LatinGuess`).

`ModelPackageProofs`. `OwnerInv`: a packager is between mkdir and the end exactly if it made
the directory, so only one is, and without an owner the directory is empty. That is
what keeps a failing packager from the package of another. `ProgressInv` carries what
was hashed through the rename to the return. `HuntInv` is the argument about damage: a
load that began after it still has the damaged file to check, with the package's own
manifest, until it refuses; it needs `StepKeepsPublished`, that nobody replaces the manifest
meanwhile.

`AgentRuntimeProofs`, the cache. `CacheInv` says that what is cached are entries of questions that
are asked, each with its own prefix, that no key is there twice, that a call stays within its
questions, and that what it holds before it inserts or completes is the prefix of its
question. Each operation on the dictionary (insert, drop the oldest, move to the end) has a
lemma about the sequence it makes. `Bounded` moves with the insertions under way: a thread
that has inserted may put the cache one over, and stops counting only when it has popped or
seen that there is room. `AloneInv` is why only overlapping calls can fail: the newest entry
of a call that is alone is its own, so a pop of the oldest, with more than one there, is never
a pop of it.

`AgentRuntimeProofs`, prompts and answers. `MasksOfOptions` and its like compute, by induction on
the options, where the mask tokens of a prompt are: only at its markers, since texts lose
theirs in the clean-up, and the cuts at each limit keep them in their places
(`PrefixOfQuestion`, `PromptOfPrefix`). A row of a padded batch shows of its prompt everything
and of its neighbours nothing (`RowIsPrompt`). `AnswerInv` then carries each item from its
question through the cache into its batch, and each answer back to its place, in any number of
batches: `AnswersAreDirect`, `MarkersAreMasks` and `CutOnlyWhenFull` follow for any limits,
lengths and numbers of threads.

`LoadedModelProofs`. `FlowInv` states `ReachIsExact`, of which one layer follows from the
one before: two positions that are at most `n + 1` windows apart have one within a window
of the first and `n` windows of the second (`Between`). After a full layer nothing changes any
more. `WhoIsBlind` finds the queries without a key, for a window of any sign: the valid
ones of the sliding layers of a negative window and no other (`OnlyNegativeWindowsBlind`); what
these then see is the whole width, so their rows leak once such a layer has run. `LoadedInv`
carries from the constructor that a loaded model has a head layer, which is why `WholeRowSeen`
holds for every list of layer kinds and every window.

`FoldLemmas`. The folds of the community modules (`Max`, `Min`, `FlattenSeq`, `SumFunction`) are
recursive functions, given by CHOOSE. The lemmas show that these exist and are unique, then
what they satisfy from one element to the next. Induction is stated on sets (`Least`,
`Induct`: a set of naturals with 0 and closed under successor is all of them), since a
property cannot be handed to a theorem as an operator here.

Only model-checked: liveness (`DeadlineAnswers`, `Drains`, `EveryCallEnds`,
`EveryRequestAnswered`, `CompleteIsAnswered`, `CallEnds`), since proofs about ENABLED and
fairness are out of the prover's reach, and the violation of `thread_safe`, which is a single
behaviour. What a server inherits from executor and registry follows from the two refinement
theorems together with the theorems about these; the last inference, from a module to an
instance of it, is the reader's.

## 5. Findings

Where the code and what the repository says of it disagree. `thread_safe` shows number
11. Numbers 2, 4, 5 and 7 are stated as `WholeRequestDeadline`, `OneRequest`,
`PreloadedResident` and `UnavailableMeansUnreached` in the modules of `predict_server`,
`http_connection`, `model_router` and `remote_call`: added to the INVARIANTS of that
run's configuration, TLC refutes each within seconds.

1. `stop()` does not end a busy worker; the next `start()` runs a second set beside
   it (`server/queue.py` 44 against its line 3). `ThreadsBounded` bounds what remains.
2. The execution timeout is applied twice per request (`server/app.py` 157-160
   against `src/docs/server.md` 112).
3. `--preload` has no effect (`server/config.py` 46 against `src/docs/server.md` 119).
   No model needed: the option is stored and never read.
4. A connection can start more than one request (`server/app.py` 222 against its
   line 10). `OneForOne` bounds how many.
5. `preload()` can evict one of the models it was asked for (`router.py` 203 against
   its line 199), though none that it has passed if only those it was asked for were
   resident (`PreloadFromOwn`).
6. `Router(preload=True)` raises for the default names that are not configured
   (`router.py` 200 against its line 128).
7. A client's timeout, which says nothing of the prediction, is reported as an
   unreachable server (`client/http.py` 202 against `errors.py` 92).
8. A response cut inside a character raises an untyped UnicodeDecodeError
   (`client/http.py` 200 against `src/docs/harness-integration.md` 165).
9. The server lets a choice with an empty list of labels through, which the model
   refuses (`server/schemas.py` 87 against its line 5); `QuestionsAgree` shows that it
   is the only such question, and that what runs is well-formed.
10. A failed packaging may leave its destination behind, silently (`packaging.py` 69
    against its line 37).
11. Threads that share one Agent with `cache_prompts=True` can raise a KeyError
    (`prepared.py` 56-62 against `src/docs/harness-integration.md` 161): `thread_safe`. The
    answers are right where they come (`AnswersAreDirect`, `CacheSound`), a call that is alone
    never fails (`AloneIsSafe`), and the default, no cache, is not affected.
12. Without a GPU, `device="auto"` ignores the dtype (`devices.py` 68 against
    `src/docs/cpu-setup.md` 30).
13. An explicit `cuda:n` is not checked for `n` (`devices.py` 92 against its line 47).
14. `dtype="auto"` depends on the checkpoint, too, and on device 0 only (`devices.py` 112 and
    121 against `src/docs/cuda-setup.md` 26).
15. `head_layers = 0` is accepted by the configuration (`model.py` 288) and refused by the
    weights (`model.py` 303).
16. Letters of a script that no range lists count as no letters (`lang.py` 270 against its
    line 259).
17. With accents, a language that ties with English wins (`lang.py` 322 against its line 303).
18. A zero number of heads, or a zero distance of full layers, raises ZeroDivisionError
    (`model.py` 59 and 63 against its line 30).
19. A negative `local_attention` is accepted and makes padding a key in sliding layers
    (`model.py` 130 against its line 116); `EmptyOnlyIfNegative` and `ReachIsExact` say exactly
    when, and `SeesWholeRow` that no token of the row is lost by it.

The hazards, each at its line and with the properties that cover it, are listed in
`PROJECT.json`; those without a property say why.

## 6. Not modelled

`email.py` and `presets.py` (text cleaning and constant tables), `cli.py` (argument parsing
around the parts above), the Hermes plugin (a stateless adapter around a copy of the client)
and the scripts (deployment, a batch client, validation on a GPU). Of the modelled
parts: floating-point arithmetic, calibration and rounding of `agent.py`; the end of the
event loop at shutdown (`asyncio.run` cancelling what is left); TLS; the address
guardrail of the client's constructor; `ServerConfig`'s own validation;
`AgentRegistry.preload`, which has no caller. The characters of a nested state
(`server/schemas.py` 135) are abstracted to whether their count is over the limit.

## 7. Plan

1. Theorems: that the job of `RemoteCall` moves as `JobService` lets one job move, which would
   tie the third place where a `submit()` is modelled to the other two; and that the pipeline
   stages of `AgentRuntime` and `LoadedModel` agree on what a row shows.
2. The ready report of `src/scripts/setup_and_serve.sh` and the retries of
   `src/scripts/build_routing_eval.py`.
3. `email.py`: quoted text and signatures, line by line, against a reference.
