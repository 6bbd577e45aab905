--------------------------- MODULE MCAgentRuntime ---------------------------
(* Questions at the edges of the budget, Agents with and without cache.     *)
EXTENDS AgentRuntime

Plain == [type |-> "choice", ins |-> << "which" >>, options |-> << << "a" >>, << "b" >> >>, valid |-> TRUE]
OtherOptions == [Plain EXCEPT !.options = << << "a" >>, << "c" >> >>]
OneOption == [Plain EXCEPT !.options = << << "a" >> >>]
Bad == [Plain EXCEPT !.valid = FALSE]

\* Texts with mask tokens, longer than the caps.
Wordy ==
  [type |-> "noul", ins |-> << "is", Mask, "it", "so", "or" >>,
   options |-> << << "f", Mask, "x", "y" >>, << "t" >> >>, valid |-> TRUE]

\* n short options.
Crowded(n) == [Plain EXCEPT !.type = "score", !.options = [i \in 1 .. n |-> << "a" >>]]

Pool == {Plain, OtherOptions, Wordy, Crowded(5)}
Lists ==
  {<< >>, << Bad >>, << Plain, Bad >>, << OneOption >>, << Crowded(4) >>, << Crowded(6) >>,
   << Plain, OtherOptions, Wordy >>} \cup {<< p, q >> : p, q \in Pool}

Short == << "s" >>
Long == << "s", Mask, "s", "s", "s", "s", "s" >>
AllRequests == {[state |-> Short, questions |-> l] : l \in Lists}
               \cup {[state |-> Long, questions |-> l] : l \in {<< Plain >>, << Wordy >>, << Plain, Wordy >>}}

AllRuntimes ==
  {[cached |-> TRUE, batch |-> 2, multiple |-> 0], [cached |-> TRUE, batch |-> 1, multiple |-> 0],
   [cached |-> FALSE, batch |-> 2, multiple |-> 5], [cached |-> FALSE, batch |-> 1, multiple |-> 8]}

TwoThreads == 1 .. 2
=============================================================================
