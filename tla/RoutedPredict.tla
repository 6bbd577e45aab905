---------------------------- MODULE RoutedPredict ----------------------------
(***************************************************************************)
(* Router.predict() (router.py): a request is routed, the checkpoint that  *)
(* it is for is loaded, and its Agent answers.  Before, between and after  *)
(* its predictions the Router's other calls load, attach and unload        *)
(* checkpoints; what other requests do to it is load().  preload(), which  *)
(* is loads under a raised limit, is left to ModelRouter's own run.        *)
(***************************************************************************)
EXTENDS ModelRouter, LanguageRoute

CONSTANTS
  Requests,    \* what predict() is called with
  Routers      \* how Routers are made: default and auto_task_detection

ASSUME RoutedAssumption ==
  /\ Names = ModelNames
  /\ \A r \in Requests : r.state \in State

VARIABLES
  router,      \* how this Router was made
  asked,       \* the request that predict() is called with
  text,        \* state_text() of its state
  decision,    \* what predict() has routed it to, if that is the call that has just ended
  outcome      \* how that call has just ended, else None: the name of the checkpoint
               \* that answered, "ValueError" or "load failed"

routedVars == <<vars, router, asked, text, decision, outcome>>

Unrouted == [model |-> None, by |-> None]

RoutedInit ==
  /\ Init
  /\ router \in Routers
  /\ asked \in Requests
  /\ text = StateText(asked.state)
  /\ decision = Unrouted
  /\ outcome = None

\* predict().
Predict ==
  LET name == decision'.model
  IN  /\ decision' = Route(router, asked, text)
      /\ UNCHANGED <<router, asked, text>>
      /\ \/ name = "ValueError" /\ outcome' = "ValueError" /\ UNCHANGED vars
         \/ (Hit(name) \/ Build(name)) /\ Forget /\ outcome' = name
         \/ Refuse(name) /\ name \in Names /\ Forget /\ outcome' = "load failed"

\* The other calls; attach() is how a limit above one comes about.
Manage ==
  /\ \/ \E name \in Names : Load(name) \/ Attach(name) \/ Unload(name)
     \/ UnloadAll
  /\ decision' = Unrouted
  /\ outcome' = None
  /\ UNCHANGED <<router, asked, text>>

RoutedNext == Predict \/ Manage

RoutedSpec == RoutedInit /\ [][RoutedNext]_routedVars

----------------------------------------------------------------------------
Looked == decision.by = "detection"
Others == {text[i].script : i \in DOMAIN text} \cap OtherScripts

\* A text in which another script has as many letters as Latin is never left to the
\* English checkpoint by detection, which exists to keep it from what it cannot read
\* (lang.py:4).
UnreadableAvoided ==
  Looked /\ (\E s \in Others : Letters(text, s) > 0 /\ Letters(text, s) >= Letters(text, "latin")) =>
    decision.model = "multilingual"

\* Latin text with few accents, in which no other language lists two words more than
\* English does, is never taken from the English checkpoint (lang.py, docstring of
\* guess_latin_language), and with four words a clear lead of another language takes it.
MarginDecides ==
  LET ClearLead == \E i \in DOMAIN OtherLanguages :
                     Score(text, OtherLanguages[i]) >= Score(text, "en") + 2
      lettered == {i \in DOMAIN text : text[i].script # NoLetters}
  IN  Looked /\ Analyse(text).script = "latin" =>
        /\ ~ClearLead /\ ~AccentsReach(text, 4) => decision.model = "english"
        /\ ClearLead /\ Cardinality(lettered) >= 4 => decision.model = "multilingual"

\* Nothing but a caller who names it, or a Router told to look for its workflows and a
\* request whose questions are one of them, brings in the typed-decisions checkpoint
\* (router.py:12), unless it is the default and there is nothing to detect.
TypedOnlyWhenAsked ==
  decision.model = "typed-decisions" =>
    \/ \E given \in {asked.model, asked.task} : NormaliseName(given) = "typed-decisions"
    \/ router.auto /\ \E wf \in DOMAIN Workflows : Workflows[wf] = asked.ids
    \/ router.default = "typed-decisions" /\ Analyse(text).script = "unknown"

\* The checkpoint that answered is the one the request was routed to, and it is then the
\* last that the Router would evict.
RoutedIsResident ==
  outcome \in Names =>
    /\ outcome = decision.model
    /\ outcome \in agents
    /\ order[Len(order)] = outcome
=============================================================================
