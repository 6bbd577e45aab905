---------------------------- MODULE LanguageRoute ----------------------------
(***************************************************************************)
(* Which checkpoint a request is for: Router.route() (router.py) and the   *)
(* detection of script and language that it falls back on (lang.py).       *)
(*                                                                         *)
(* A state is the sequence of its texts, each with how deep it is nested,  *)
(* and a text the sequence of its words, one blank apart.  A word is what  *)
(* detection tells apart: its script, how many letters it has, how many of *)
(* them are accented, and the languages that list it as a function word.   *)
(***************************************************************************)
EXTENDS Integers, Sequences, SequencesExt, FiniteSetsExt

CONSTANTS
  MaxDepth,     \* 6: texts that are nested deeper are not looked at
  MaxChars,     \* 4000: the characters that detection reads
  OtherScripts  \* scripts of _SCRIPT_RANGES

\* The script of letters in no block that _SCRIPT_RANGES lists, and of what has no letters.
Unlisted == "unlisted"
NoLetters == "none"

ASSUME LanguageAssumption ==
  /\ {MaxDepth, MaxChars} \subseteq Nat
  /\ OtherScripts \cap {"latin", "unknown", Unlisted, NoLetters} = {}

\* _STOP: the languages in the order of the table, and which languages may list a word.
OtherLanguages == << "fr", "de", "es", "pt", "it", "nl" >>
FunctionWords ==
  {{}, {"en"}, {"en", "pt"}, {"en", "nl"}, {"es", "fr", "pt"}, {"de", "pt"}, {"es", "pt"},
   {"es", "it"}} \cup {{l} : l \in ToSet(OtherLanguages)}

Word ==
  [script : OtherScripts \cup {"latin", Unlisted, NoLetters},
   letters : Nat, accents : Nat, lists : FunctionWords]
State == Seq([depth : Nat, words : Seq(Word)])

----------------------------------------------------------------------------
\* state_text(): the texts in their order, cut at MaxChars, within a word or not.
Width(words) == SumFunction([i \in DOMAIN words |-> words[i].letters]) + Max({0, Len(words) - 1})

Collected(state) ==
  FlattenSeq([i \in DOMAIN state |-> IF state[i].depth <= MaxDepth THEN state[i].words ELSE << >>])

CutWord(w, n) == [w EXCEPT !.letters = n, !.accents = Min({@, n}), !.lists = {}]
StateText(state) ==
  LET words == Collected(state)
      whole == Max({n \in 0 .. Len(words) : Width(SubSeq(words, 1, n)) <= MaxChars})
      left == MaxChars - Width(SubSeq(words, 1, whole)) - (IF whole = 0 THEN 0 ELSE 1)
  IN  SubSeq(words, 1, whole)
      \o (IF whole < Len(words) /\ left > 0 THEN << CutWord(words[whole + 1], left) >> ELSE << >>)

----------------------------------------------------------------------------
\* How many letters of a text are of a script.
Letters(words, script) ==
  SumFunction([i \in DOMAIN words |-> IF words[i].script = script THEN words[i].letters ELSE 0])

\* The keys of `counts` in detect_script(): the other scripts as they turn up, then Latin.
OthersInOrder(words) ==
  FlattenSeq([i \in DOMAIN words |->
                IF words[i].script \in OtherScripts THEN << words[i].script >> ELSE << >>])
LatinFirst(words) == << "latin" >> \o OthersInOrder(words)      \* mutant: `counts` starts with Latin
CountsInOrder(words) == OthersInOrder(words) \o << "latin" >>

\* detect_script(): max() takes the first of the largest.
DetectScript(words) ==
  LET keys == CountsInOrder(words)
      largest == Max({Letters(words, s) : s \in ToSet(keys)})
  IN  IF largest = 0 THEN "unknown"
      ELSE keys[SelectInSeq(keys, LAMBDA s : Letters(words, s) = largest)]

\* script_profile(), as letters of each script instead of shares.
ScriptProfile(words) ==
  [s \in {s \in OtherScripts \cup {"latin"} : Letters(words, s) > 0} |-> Letters(words, s)]

\* guess_latin_language(), as a language or "undecided".
Score(words, language) ==
  SumFunction([i \in DOMAIN words |-> IF language \in words[i].lists THEN 1 ELSE 0])
Best(words) ==
  LET most == Max({Score(words, l) : l \in ToSet(OtherLanguages)})
  IN  OtherLanguages[SelectInSeq(OtherLanguages, LAMBDA l : Score(words, l) = most)]
AccentsReach(words, percent) ==
  100 * SumFunction([i \in DOMAIN words |-> words[i].accents]) >= percent * Max({1, Width(words)})

TieLeads(best, en) == best >= Max({2, en})           \* mutant: no margin over English
Leads(best, en) == best >= Max({2, en + 2})

GuessLatinLanguage(words) ==
  LET best == Score(words, Best(words))
      en == Score(words, "en")
      otherwise == IF en > 0 THEN "en" ELSE "undecided"
  IN  CASE Cardinality({i \in DOMAIN words : words[i].script # NoLetters}) < 4 -> "undecided"
        [] OTHER -> IF best = 0 /\ ~AccentsReach(words, 2) THEN otherwise
                    ELSE IF Leads(best, en) \/ (AccentsReach(words, 4) /\ best >= en) THEN Best(words)
                    ELSE otherwise

\* analyse(), of the words that state_text() makes of a state.
Analyse(words) ==
  LET script == DetectScript(words)
      language == IF script = "latin" THEN GuessLatinLanguage(words) ELSE "undecided"
  IN  [script |-> script,
       profile |-> ScriptProfile(words),
       language |-> language,
       isEnglish |-> script \in {"latin", "unknown"} /\ language \in {"undecided", "en"}]

----------------------------------------------------------------------------
\* normalise_name(): a model's name or one of the aliases, else ValueError.
ModelNames == {"english", "multilingual", "typed-decisions"}
Aliases ==
  [m \in ModelNames |->
     CASE m = "english" -> {"en", "laya", "default"}
       [] m = "multilingual" -> {"multi", "ml", "laya-multilingual"}
       [] m = "typed-decisions" ->
            {"typed", "typed_decisions", "laya-typed-decisions", "decisions"}]
Called(name) == {m \in ModelNames : name = m \/ name \in Aliases[m]}
NormaliseName(name) ==
  IF Called(name) = {} THEN "ValueError" ELSE CHOOSE m \in Called(name) : TRUE

\* match_typed_decisions_workflow(): the ids of the questions are exactly a workflow's.
Workflows ==
  [agent_trace_observability |-> {"action", "needs_review", "outcome", "risk", "urgency"},
   customer_service |-> {"action", "category", "churn_risk", "needs_human", "urgency"},
   invoice_processing |->
     {"discrepancy_severity", "disposition", "duplicate", "matches_order", "urgency"},
   security_incidents |->
     {"credential_compromise", "disposition", "severity", "true_positive", "urgency"}]
ContainsWorkflow(ids) == \E wf \in DOMAIN Workflows : Workflows[wf] \subseteq ids   \* mutant
MatchWorkflow(ids) == \E wf \in DOMAIN Workflows : ids = Workflows[wf]

\* route(): the first of model, task, workflow and lang that is given decides, else
\* what the words of the state look like.  lang is its part before the first hyphen.
None == "None"
TaskName(task) == IF task = "typed-decisions" THEN "typed-decisions" ELSE NormaliseName(task)
Detected(default, words) ==
  LET found == Analyse(words)
  IN  IF found.script = "unknown" THEN default
      ELSE IF found.script # "latin" \/ ~found.isEnglish THEN "multilingual" ELSE "english"

Route(router, r, words) ==
  IF r.model # None THEN [model |-> NormaliseName(r.model), by |-> "model"]
  ELSE IF r.task # None THEN [model |-> TaskName(r.task), by |-> "task"]
  ELSE IF MatchWorkflow(r.ids) /\ router.auto THEN [model |-> "typed-decisions", by |-> "workflow"]
  ELSE IF r.lang # None
  THEN [model |-> IF r.lang \in {"en", "eng", "english"} THEN "english" ELSE "multilingual", by |-> "lang"]
  ELSE [model |-> Detected(router.default, words), by |-> "detection"]
=============================================================================
