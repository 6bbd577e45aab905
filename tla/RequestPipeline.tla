--------------------------- MODULE RequestPipeline ---------------------------
(***************************************************************************)
(* How the server decides on a complete request before it reaches the      *)
(* queue (server/app.py, _route and _predict; server/schemas.py), and      *)
(* which questions the model itself takes (agent.py, _to_internal).        *)
(*                                                                         *)
(* Each check raises at once, so what a client is told depends on their    *)
(* order: a chain of checks is the sequence of what each would raise, and  *)
(* its first error is the answer.  Texts and counts of characters are kept *)
(* as what the checks tell apart: fits or long.                            *)
(***************************************************************************)
EXTENDS Integers, Sequences

CONSTANTS
  MaxQuestions,    \* config.max_questions
  MaxOptions,      \* config.max_options
  TokenRequired    \* whether config.token_file is set

ASSUME PipelineAssumption ==
  /\ MaxQuestions \in Nat \ {0}
  /\ MaxOptions \in Nat \ {0}
  /\ TokenRequired \in BOOLEAN

Question ==
  [id : {"named", "empty"},
   type : {"choice", "score", "noul", "other"},
   instructions : {"text", "long", "missing"},
   criteria : {"list", "object", "null", "other"},
   options : 0 .. MaxOptions + 1,                   \* entries of the list or object
   labels : {"distinct", "repeated", "not strings"},  \* of a list
   texts : {"fit", "long"}]                         \* of the criteria

Request ==
  [endpoint : {"predict", "health", "models", "system", "other"},
   method : {"GET", "POST"},
   token : {"right", "wrong", "none"},
   size : {"empty", "fits", "over"},                \* of the body, against max_request_bytes
   media : {"json", "other"},
   body : {"not JSON", "not an object", "object"},
   version : {"same", "other"},
   keyed : BOOLEAN,                                 \* questions is an object
   questions : Seq(Question),
   state : {"fits", "long", "other"},
   model : {"default", "known", "unknown", "other"}]

Check(fails, code) == IF fails THEN code ELSE "ok"

FirstError(codes) ==
  IF \A i \in DOMAIN codes : codes[i] = "ok"
  THEN "ok"
  ELSE codes[CHOOSE i \in DOMAIN codes :
               codes[i] # "ok" /\ \A j \in 1 .. i - 1 : codes[j] = "ok"]

----------------------------------------------------------------------------
\* _validate_question().  A list of labels may be empty; an object may not.
TextsOnly(q) == << Check(q.texts = "long", "REQUEST_TOO_LARGE") >>   \* mutant: any number of options
Sizes(q) == << Check(q.options > MaxOptions, "REQUEST_TOO_LARGE"),
               Check(q.texts = "long", "REQUEST_TOO_LARGE") >>

ChoiceErrors(q) ==
  << Check(q.criteria \notin {"list", "object"}, "MALFORMED_REQUEST"),
     Check(q.criteria = "list" /\ q.labels # "distinct", "MALFORMED_REQUEST"),
     Check(q.criteria = "object" /\ q.options = 0, "MALFORMED_REQUEST") >> \o Sizes(q)

ScoreErrors(q) ==
  << Check(q.criteria # "list" \/ q.options = 0, "MALFORMED_REQUEST") >> \o Sizes(q)

NoulErrors(q) ==
  << Check(q.criteria \notin {"null", "object"}, "MALFORMED_REQUEST"),
     Check(q.texts = "long", "REQUEST_TOO_LARGE") >>

QuestionError(q) ==
  FirstError(
    << Check(q.id = "empty" \/ q.type = "other", "MALFORMED_REQUEST"),
       Check(q.instructions = "missing", "MALFORMED_REQUEST"),
       Check(q.instructions = "long", "REQUEST_TOO_LARGE") >>
    \o CASE q.type = "choice" -> ChoiceErrors(q)
         [] q.type = "score" -> ScoreErrors(q)
         [] OTHER -> NoulErrors(q))

\* validate_predict_payload().
PayloadError(r) ==
  FirstError(
    << Check(r.version = "other", "PROTOCOL_UNSUPPORTED"),
       Check(~r.keyed, "MALFORMED_REQUEST"),
       Check(Len(r.questions) > MaxQuestions, "REQUEST_TOO_LARGE") >>
    \o [i \in DOMAIN r.questions |-> QuestionError(r.questions[i])]
    \o << Check(r.state = "long", "REQUEST_TOO_LARGE"),
          Check(r.state = "other" \/ r.model = "other", "MALFORMED_REQUEST") >>)

\* auth.check().
TokenError(r) == Check(TokenRequired /\ r.token # "right", "UNAUTHORIZED")

\* _route() up to the endpoints.
RouteError(r) ==
  FirstError(
    << Check(r.endpoint = "other", "MALFORMED_REQUEST"),
       Check(r.method # (IF r.endpoint = "predict" THEN "POST" ELSE "GET"), "METHOD_NOT_ALLOWED"),
       TokenError(r),
       Check(r.size = "over", "REQUEST_TOO_LARGE") >>)

\* _predict() up to the first submit().
PredictError(r) ==
  FirstError(
    << Check(r.size = "empty", "MALFORMED_REQUEST"),
       Check(r.media # "json", "UNSUPPORTED_MEDIA_TYPE"),
       Check(r.body # "object", "MALFORMED_REQUEST"),
       PayloadError(r),
       Check(r.model = "unknown", "MALFORMED_REQUEST") >>)

Verdict(r) ==
  FirstError(<< RouteError(r), IF r.endpoint = "predict" THEN PredictError(r) ELSE "ok" >>)

----------------------------------------------------------------------------
\* Agent._to_internal(): the questions for which the model raises ValueError.
Unanswerable(q) ==
  \/ q.type = "other"
  \/ q.instructions = "missing"
  \/ /\ q.type = "choice"
     /\ \/ q.criteria \notin {"list", "object"}
        \/ q.criteria = "list" /\ q.labels # "distinct"
        \/ q.options = 0
  \/ q.type = "score" /\ (q.criteria # "list" \/ q.options = 0)
  \/ q.type = "noul" /\ q.criteria \notin {"null", "object"}
=============================================================================
