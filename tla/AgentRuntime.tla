---------------------------- MODULE AgentRuntime ----------------------------
(***************************************************************************)
(* predict() calls on one Agent from several threads (agent.py), which     *)
(* share its cache of tokenized prefixes (prepared.py) without a lock.     *)
(*                                                                         *)
(* An action is what a thread does up to its next operation on the cache,  *)
(* each of which the interpreter makes atomic, or one batch.               *)
(***************************************************************************)
EXTENDS Prompts, FiniteSets

CONSTANTS
  Threads,     \* the threads, each with one call
  Requests,    \* a call: the state, and the questions in the order of their ids
  Runtimes,    \* how Agents are made: cache_prompts, batch_size, pad_to_multiple
  Capacity     \* PrefixCache.capacity

\* A question as _to_internal() leaves it, if it is valid.
QuestionForm ==
  [type : Tokens \ {Mask}, ins : Seq(Tokens), options : Seq(Seq(Tokens)), valid : BOOLEAN]

ASSUME RuntimeAssumption ==
  /\ Capacity \in Nat \ {0}
  /\ IsFiniteSet(Threads)
  /\ \A r \in Requests : r.state \in Seq(Tokens) /\ r.questions \in Seq(QuestionForm)
  /\ \A r \in Runtimes : r.batch \in Nat \ {0} /\ r.multiple \in Nat   \* 0: no padding

VARIABLES
  agent,       \* how this Agent was made
  entries,     \* PrefixCache.entries, in their order: key and prefix
  request,     \* what each call asks
  at,          \* where each call is
  items,       \* the prompts it has prepared
  prefix,      \* the prefix it has built or read for the question at hand
  answers,     \* the answers it has, by question
  alone        \* history: whether no other call was under way during this one

vars == <<agent, entries, request, at, items, prefix, answers, alone>>

Cached == {"test", "insert", "measure", "pop", "touch", "read"}
Failures == {"ValueError", "KeyError", "TokenBudgetExceeded", "NonFiniteOutput"}
Ends == Failures \cup {"returned"}
Steps == {"idle", "question", "direct", "sequence", "batch"} \cup Cached \cup Ends

TypeOK ==
  /\ agent \in Runtimes
  /\ request \in [Threads -> Requests]
  /\ at \in [Threads -> Steps]
  /\ alone \in [Threads -> BOOLEAN]

Init ==
  /\ agent \in Runtimes
  /\ entries = << >>
  /\ request \in [Threads -> Requests]
  /\ at = [t \in Threads |-> "idle"]
  /\ items = [t \in Threads |-> << >>]
  /\ prefix = [t \in Threads |-> << >>]
  /\ answers = [t \in Threads |-> << >>]
  /\ alone = [t \in Threads |-> TRUE]

----------------------------------------------------------------------------
Questions(t) == request[t].questions
Question(t) == Questions(t)[Len(items[t]) + 1]
Under(t) == at[t] \notin {"idle"} \cup Ends

\* All that a prefix depends on; the tokenizer and the limits are the Agent's own.
KeyOfInstructions(q) == <<q.type, q.ins, << >> >>       \* mutant: options are left out
Key(q) == <<q.type, q.ins, q.options>>
Keys == {entries[i].key : i \in DOMAIN entries}
Position(k) == CHOOSE i \in DOMAIN entries : entries[i].key = k

Goto(t, step) == at' = [at EXCEPT ![t] = step]
Own == <<agent, request, alone>>

\* predict() is called.
Call(t) ==
  /\ at[t] = "idle"
  /\ Goto(t, "question")
  /\ alone' = [u \in Threads |->
                 alone[u] /\ IF u = t THEN \A v \in Threads : ~Under(v) ELSE ~Under(u)]
  /\ UNCHANGED <<agent, entries, request, items, prefix, answers>>

\* prepare(): the next question is validated; with none left the batches start.
TakeQuestion(t) ==
  /\ at[t] = "question"
  /\ IF Len(items[t]) = Len(Questions(t)) THEN Goto(t, "batch")
     ELSE IF ~Question(t).valid THEN Goto(t, "ValueError")
     ELSE Goto(t, IF agent.cached THEN "test" ELSE "direct")
  /\ UNCHANGED <<Own, entries, items, prefix, answers>>

\* Without a cache, or after a miss, the prefix is built.
Build(t) ==
  /\ at[t] = "direct" \/ (at[t] = "test" /\ Key(Question(t)) \notin Keys)
  /\ prefix' = [prefix EXCEPT ![t] = BuildPrefix(Question(t))]
  /\ Goto(t, IF at[t] = "direct" THEN "sequence" ELSE "insert")
  /\ UNCHANGED <<Own, entries, items, answers>>

Hit(t) ==
  /\ at[t] = "test"
  /\ Key(Question(t)) \in Keys
  /\ Goto(t, "touch")
  /\ UNCHANGED <<Own, entries, items, prefix, answers>>

\* entries[key] = ...: a key that another thread has inserted meanwhile stays in
\* its place.
Insert(t) ==
  LET key == Key(Question(t))
      entry == [key |-> key, prefix |-> prefix[t]]
  IN  /\ at[t] = "insert"
      /\ entries' = IF key \in Keys THEN [entries EXCEPT ![Position(key)] = entry]
                    ELSE Append(entries, entry)
      /\ Goto(t, "measure")
      /\ UNCHANGED <<Own, items, prefix, answers>>

Measure(t) ==
  /\ at[t] = "measure"
  /\ Goto(t, IF Len(entries) > Capacity THEN "pop" ELSE "touch")
  /\ UNCHANGED <<Own, entries, items, prefix, answers>>

PopNewest(t) == entries' = Front(entries)        \* mutant: popitem() without last=False
DropFirst(t) == entries' = Tail(entries)
Pop(t) ==
  /\ at[t] = "pop"
  /\ IF entries = << >> THEN Goto(t, "KeyError") /\ UNCHANGED entries
     ELSE Goto(t, "touch") /\ DropFirst(t)
  /\ UNCHANGED <<Own, items, prefix, answers>>

\* move_to_end(key) and entries[key].
MoveToEnd(k) == entries' = Append(RemoveAt(entries, Position(k)), entries[Position(k)])
Touch(t) ==
  LET key == Key(Question(t))
  IN  /\ at[t] = "touch"
      /\ IF key \in Keys THEN MoveToEnd(key) /\ Goto(t, "read")
         ELSE UNCHANGED entries /\ Goto(t, "KeyError")
      /\ UNCHANGED <<Own, items, prefix, answers>>

Read(t) ==
  LET key == Key(Question(t))
  IN  /\ at[t] = "read"
      /\ IF key \in Keys
         THEN prefix' = [prefix EXCEPT ![t] = entries[Position(key)].prefix] /\ Goto(t, "sequence")
         ELSE UNCHANGED prefix /\ Goto(t, "KeyError")
      /\ UNCHANGED <<Own, entries, items, answers>>

\* The state follows the prefix, and the prompt must have kept all markers.
Complete(t) ==
  LET q == Question(t)
      prompt == Sequence(prefix[t], request[t].state)
  IN  /\ at[t] = "sequence"
      /\ IF ~Fits(prompt, q)
         THEN Goto(t, "TokenBudgetExceeded") /\ UNCHANGED items
         ELSE /\ items' = [items EXCEPT ![t] = Append(@, [ids |-> prompt.ids,
                                                          markers |-> prompt.markers,
                                                          type |-> q.type])]
              /\ Goto(t, "question")
      /\ UNCHANGED <<Own, entries, prefix, answers>>

----------------------------------------------------------------------------
\* system_one(): one batch after the other.  The answer of a row is told from what
\* the model saw there, under the definition and the id of its question.
Chunk(t) ==
  LET start == Len(answers[t])
  IN  SubSeq(items[t], start + 1, Min({start + agent.batch, Len(items[t])}))
AskedFromTheStart(t, row) == Questions(t)[row]   \* mutant: the batch's start is forgotten
Asked(t, row) == Questions(t)[Len(answers[t]) + row]
Answer(t, batch, row) ==
  [type |-> Asked(t, row).type, labels |-> Asked(t, row).options, read |-> RowSeen(batch[row])]

Finish(t) ==
  /\ at[t] = "batch"
  /\ Len(answers[t]) = Len(items[t])
  /\ Goto(t, "returned")
  /\ UNCHANGED <<Own, entries, items, prefix, answers>>

RunBatch(t) ==
  /\ at[t] = "batch"
  /\ Len(answers[t]) < Len(items[t])
  /\ LET batch == Collate(Chunk(t), PaddedLength(Chunk(t), agent.multiple))
     IN  answers' = [answers EXCEPT ![t] = @ \o [row \in DOMAIN batch |-> Answer(t, batch, row)]]
  /\ UNCHANGED <<Own, entries, at, items, prefix>>

\* The model's output is not finite, which ends the call without any answer.
NonFinite(t) ==
  /\ at[t] = "batch"
  /\ Len(answers[t]) < Len(items[t])
  /\ Goto(t, "NonFiniteOutput")
  /\ UNCHANGED <<Own, entries, items, prefix, answers>>

Prepare(t) ==
  \/ TakeQuestion(t) \/ Build(t) \/ Hit(t) \/ Insert(t) \/ Measure(t)
  \/ Pop(t) \/ Touch(t) \/ Read(t) \/ Complete(t)
Step(t) == Call(t) \/ Prepare(t) \/ RunBatch(t) \/ NonFinite(t) \/ Finish(t)

Rest == (\A t \in Threads : at[t] \in Ends) /\ UNCHANGED vars

Next == (\E t \in Threads : Step(t)) \/ Rest

Spec == Init /\ [][Next]_vars

----------------------------------------------------------------------------
\* The prompt that a question and a state make by themselves.
Direct(t, i) == BuildSequence(Questions(t)[i], request[t].state)

\* A call that returns has one answer for each question, under its own definition,
\* read from the prompt of that question and the call's state: whatever the batch
\* size, the padding, the other questions, the cache and the other threads.
AnswersAreDirect ==
  \A t \in Threads : at[t] = "returned" =>
    /\ Len(answers[t]) = Len(Questions(t))
    /\ \A i \in DOMAIN answers[t] :
         LET q == Questions(t)[i]
         IN  answers[t][i] = [type |-> q.type, labels |-> q.options, read |-> Direct(t, i)]

\* The mask tokens of an accepted prompt are exactly the markers of its options, in
\* their order, whatever the texts contain.
MarkersAreMasks ==
  \A t \in Threads : \A i \in DOMAIN items[t] :
    LET item == items[t][i]
    IN  /\ Len(item.markers) = Len(Questions(t)[i].options)
        /\ ToSet(item.markers) = {p \in DOMAIN item.ids : item.ids[p] = Mask}
        /\ \A m \in 2 .. Len(item.markers) : item.markers[m - 1] < item.markers[m]

\* A prompt keeps to max_len, and leaves out some of the state only when it is full.
CutOnlyWhenFull ==
  \A t \in Threads : \A i \in DOMAIN items[t] :
    LET ids == items[t][i].ids
        ending == Clean(request[t].state) \o << Sep >>
    IN  Len(ids) <= MaxLen /\ (Len(ids) = MaxLen \/ IsSuffix(ending, ids))

\* The cache exceeds its capacity by the insertions under way only, no key is in it twice,
\* and what is cached for a key is its own prefix.
Inserting == {t \in Threads : at[t] \in {"measure", "pop"}}
CacheSound ==
  /\ Len(entries) <= Capacity + Cardinality(Inserting)
  /\ \A i, j \in DOMAIN entries : entries[i].key = entries[j].key => i = j
  /\ \A i \in DOMAIN entries :
       entries[i].prefix =
         BuildPrefix([type |-> entries[i].key[1], ins |-> entries[i].key[2],
                      options |-> entries[i].key[3]])

\* A call that no other call overlaps never loses the entry it works with.
AloneIsSafe == \A t \in Threads : at[t] = "KeyError" => ~alone[t]

\* What docs/harness-integration.md:161 says: one Agent may be called from several
\* threads.
ThreadSafe == \A t \in Threads : at[t] # "KeyError"
=============================================================================
