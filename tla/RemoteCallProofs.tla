--------------------------- MODULE RemoteCallProofs ---------------------------
(***************************************************************************)
(* One call between a client and a server that may die, proved for any     *)
(* requests and limits: what the client is told is what the server has     *)
(* decided, what it is told of the prediction is true, and what reaches    *)
(* the model has passed every check.                                       *)
(*                                                                         *)
(* First the chains of checks: a chain whose first error is "ok" has no    *)
(* error at all, so the order of the checks does not matter to what gets   *)
(* through.  Then the steps of the call.                                   *)
(***************************************************************************)
EXTENDS RemoteCall, FoldLemmas

----------------------------------------------------------------------------
\* Chains of checks.

\* What a check of a request may raise.
Raised == RequestErrors \cup {"ok"}

\* The first error of a chain is one of its elements, and if it is none there is none.
LEMMA ChainFacts ==
  \A codes \in Seq(Raised) :
    /\ FirstError(codes) \in Raised
    /\ FirstError(codes) = "ok" => \A i \in 1 .. Len(codes) : codes[i] = "ok"
<1> SUFFICES ASSUME NEW codes \in Seq(Raised)
             PROVE  /\ FirstError(codes) \in Raised
                    /\ FirstError(codes) = "ok" => \A i \in 1 .. Len(codes) : codes[i] = "ok"
  OBVIOUS
<1> DEFINE n == Len(codes)
           First(k) == codes[k] # "ok" /\ \A j \in 1 .. k - 1 : codes[j] = "ok"
           c == CHOOSE k \in DOMAIN codes : First(k)
<1>1. n \in Nat /\ DOMAIN codes = 1 .. n /\ \A i \in 1 .. n : codes[i] \in Raised
  OBVIOUS
<1>2. FirstError(codes) = IF \A i \in DOMAIN codes : codes[i] = "ok" THEN "ok" ELSE codes[c]
  BY Zenon DEF FirstError
<1>3. ASSUME NEW i \in 1 .. n, codes[i] # "ok" PROVE \E k \in DOMAIN codes : First(k)
  <2> DEFINE Bad == {k \in 1 .. n : codes[k] # "ok"}
  <2>1. Bad \in SUBSET Nat /\ Bad # {}
    BY <1>3
  <2> HIDE DEF Bad
  <2>2. PICK k \in Bad : \A m \in Bad : k <= m
    BY <2>1, Least
  <2> USE DEF Bad
  <2>3. k \in 1 .. n /\ codes[k] # "ok"
    BY <2>2
  <2>4. ASSUME NEW j \in 1 .. k - 1 PROVE codes[j] = "ok"
    <3>1. j \in 1 .. n /\ ~(k <= j)
      BY <1>1, <2>3
    <3> QED
      BY <2>2, <3>1
  <2> HIDE DEF n
  <2> QED
    BY <1>1, <2>3, <2>4
<1>4. ASSUME NEW i \in 1 .. n, codes[i] # "ok" PROVE c \in DOMAIN codes /\ First(c)
  BY <1>3, <1>4, Zenon
<1> HIDE DEF c, n
<1>5. CASE \A i \in DOMAIN codes : codes[i] = "ok"
  BY <1>1, <1>2, <1>5 DEF Raised, n
<1>6. CASE ~\A i \in DOMAIN codes : codes[i] = "ok"
  <2>1. c \in 1 .. n /\ codes[c] # "ok"
    BY <1>1, <1>4, <1>6
  <2> QED
    BY <1>1, <1>2, <1>6, <2>1
<1> QED
  BY <1>5, <1>6

\* No check of the chain fails.
Passed(codes) == \A i \in 1 .. Len(codes) : codes[i] = "ok"

\* A chain that answers "ok" has passed every check, whatever their order.
LEMMA ChainAnswers ==
  \A codes \in Seq(Raised) :
    FirstError(codes) \in Raised /\ (FirstError(codes) = "ok" => Passed(codes))
BY ChainFacts, Zenon DEF Passed

\* A chain of two parts has passed if both parts have.
LEMMA PartsPassed ==
  \A s, t \in Seq(Raised) :
    s \o t \in Seq(Raised) /\ (Passed(s \o t) => Passed(s) /\ Passed(t))
<1> SUFFICES ASSUME NEW s \in Seq(Raised), NEW t \in Seq(Raised)
             PROVE  s \o t \in Seq(Raised) /\ (Passed(s \o t) => Passed(s) /\ Passed(t))
  OBVIOUS
<1> DEFINE both == s \o t
<1>1. /\ both \in Seq(Raised) /\ Len(both) = Len(s) + Len(t)
      /\ \A p \in 1 .. Len(s) : both[p] = s[p]
      /\ \A p \in 1 .. Len(t) : both[Len(s) + p] = t[p]
  BY Joins
<1>2. Len(s) \in Nat /\ Len(t) \in Nat
  OBVIOUS
<1> HIDE DEF both
<1>3. (\A p \in 1 .. Len(s) : p \in 1 .. Len(both)) /\ (\A p \in 1 .. Len(t) : Len(s) + p \in 1 .. Len(both))
  BY <1>1, <1>2
<1>4. ASSUME Passed(both) PROVE Passed(s) /\ Passed(t)
  BY <1>1, <1>3, <1>4, Zenon DEF Passed
<1> QED
  BY <1>1, <1>4 DEF both

\* The chains that are written out: one check, two, three, four and five.
LEMMA WrittenOut ==
  \A a, b, c, d, e \in Raised :
    /\ << a >> \in Seq(Raised) /\ (Passed(<< a >>) => a = "ok")
    /\ << a, b >> \in Seq(Raised) /\ (Passed(<< a, b >>) => a = "ok" /\ b = "ok")
    /\ << a, b, c >> \in Seq(Raised)
    /\ Passed(<< a, b, c >>) => a = "ok" /\ b = "ok" /\ c = "ok"
    /\ << a, b, c, d >> \in Seq(Raised)
    /\ Passed(<< a, b, c, d >>) => a = "ok" /\ b = "ok" /\ c = "ok" /\ d = "ok"
    /\ << a, b, c, d, e >> \in Seq(Raised)
    /\ Passed(<< a, b, c, d, e >>) => a = "ok" /\ b = "ok" /\ c = "ok" /\ d = "ok" /\ e = "ok"
BY DEF Passed

\* A check raises what it says it raises, or nothing.
LEMMA CheckFacts ==
  \A code \in RequestErrors : \A fails \in BOOLEAN :
    Check(fails, code) \in Raised /\ (Check(fails, code) = "ok" => ~fails)
  BY DEF Check, Raised, RequestErrors

----------------------------------------------------------------------------
\* What each chain looks for, for any request and any limits.

\* The two codes that the checks of a payload raise.
LEMMA PayloadCodes ==
  \A fails \in BOOLEAN :
    /\ Check(fails, "MALFORMED_REQUEST") \in Raised
    /\ Check(fails, "MALFORMED_REQUEST") = "ok" => ~fails
    /\ Check(fails, "REQUEST_TOO_LARGE") \in Raised
    /\ Check(fails, "REQUEST_TOO_LARGE") = "ok" => ~fails
BY CheckFacts DEF RequestErrors

\* Entries are counted, and so is their limit.
LEMMA OptionsAreCounted == \A q \in Question : q.options \in Nat /\ MaxOptions \in Nat
<1> SUFFICES ASSUME NEW q \in Question PROVE q.options \in Nat /\ MaxOptions \in Nat
  OBVIOUS
<1>1. q.options \in 0 .. MaxOptions + 1
  BY DEF Question
<1> QED
  BY <1>1, PipelineAssumption

\* The limits on the entries of the criteria.
LEMMA SizesPassed ==
  \A q \in Question :
    Sizes(q) \in Seq(Raised) /\ (Passed(Sizes(q)) => q.options <= MaxOptions /\ q.texts = "fit")
<1> SUFFICES ASSUME NEW q \in Question
             PROVE  /\ Sizes(q) \in Seq(Raised)
                    /\ Passed(Sizes(q)) => q.options <= MaxOptions /\ q.texts = "fit"
  OBVIOUS
<1> DEFINE over == q.options > MaxOptions
           a == Check(over, "REQUEST_TOO_LARGE")
           b == Check(q.texts = "long", "REQUEST_TOO_LARGE")
<1>1. q.texts \in {"fit", "long"}
  BY DEF Question
<1>2. over \in BOOLEAN /\ (~over => q.options <= MaxOptions)
  <2>1. q.options \in Nat /\ MaxOptions \in Nat
    BY OptionsAreCounted
  <2> QED
    BY <2>1
<1>3. Sizes(q) = << a, b >>
  BY Zenon DEF Sizes
<1> HIDE DEF over
<1>4. a \in Raised /\ b \in Raised /\ (a = "ok" => ~over) /\ (b = "ok" => q.texts # "long")
  BY <1>2, PayloadCodes
<1> HIDE DEF a, b
<1>5. Sizes(q) \in Seq(Raised) /\ (Passed(Sizes(q)) => a = "ok" /\ b = "ok")
  BY <1>3, <1>4, WrittenOut, Zenon
<1> QED
  BY <1>1, <1>2, <1>4, <1>5

\* A choice, a score and a noul: what their own chains let through.
LEMMA ChoicePassed ==
  \A q \in Question :
    /\ ChoiceErrors(q) \in Seq(Raised)
    /\ Passed(ChoiceErrors(q)) =>
         /\ q.options <= MaxOptions /\ q.texts = "fit"
         /\ \/ q.criteria = "list" /\ q.labels = "distinct"
            \/ q.criteria = "object" /\ q.options > 0
<1> SUFFICES ASSUME NEW q \in Question
             PROVE  /\ ChoiceErrors(q) \in Seq(Raised)
                    /\ Passed(ChoiceErrors(q)) =>
                         /\ q.options <= MaxOptions /\ q.texts = "fit"
                         /\ \/ q.criteria = "list" /\ q.labels = "distinct"
                            \/ q.criteria = "object" /\ q.options > 0
  OBVIOUS
<1> DEFINE a == Check(q.criteria \notin {"list", "object"}, "MALFORMED_REQUEST")
           b == Check(q.criteria = "list" /\ q.labels # "distinct", "MALFORMED_REQUEST")
           c == Check(q.criteria = "object" /\ q.options = 0, "MALFORMED_REQUEST")
           kinds == << a, b, c >>
<1>1. q.options \in Nat
  BY OptionsAreCounted
<1>2. /\ a \in Raised /\ (a = "ok" => q.criteria \in {"list", "object"})
      /\ b \in Raised /\ (b = "ok" => ~(q.criteria = "list" /\ q.labels # "distinct"))
      /\ c \in Raised /\ (c = "ok" => ~(q.criteria = "object" /\ q.options = 0))
  BY PayloadCodes
<1>3. ChoiceErrors(q) = kinds \o Sizes(q)
  BY Zenon DEF ChoiceErrors
<1> HIDE DEF a, b, c
<1>4. kinds \in Seq(Raised) /\ (Passed(kinds) => a = "ok" /\ b = "ok" /\ c = "ok")
  BY <1>2, WrittenOut, Zenon
<1> HIDE DEF kinds
<1>5. ChoiceErrors(q) \in Seq(Raised) /\ (Passed(ChoiceErrors(q)) => Passed(kinds) /\ Passed(Sizes(q)))
  BY <1>3, <1>4, SizesPassed, PartsPassed, Zenon
<1> QED
  BY <1>1, <1>2, <1>4, <1>5, SizesPassed

LEMMA ScorePassed ==
  \A q \in Question :
    /\ ScoreErrors(q) \in Seq(Raised)
    /\ Passed(ScoreErrors(q)) => q.criteria = "list" /\ q.options \in 1 .. MaxOptions /\ q.texts = "fit"
<1> SUFFICES ASSUME NEW q \in Question
             PROVE  /\ ScoreErrors(q) \in Seq(Raised)
                    /\ Passed(ScoreErrors(q)) =>
                         q.criteria = "list" /\ q.options \in 1 .. MaxOptions /\ q.texts = "fit"
  OBVIOUS
<1> DEFINE a == Check(q.criteria # "list" \/ q.options = 0, "MALFORMED_REQUEST")
           kinds == << a >>
<1>1. q.options \in Nat /\ MaxOptions \in Nat
  BY OptionsAreCounted
<1>2. a \in Raised /\ (a = "ok" => q.criteria = "list" /\ q.options # 0)
  BY PayloadCodes
<1>3. ScoreErrors(q) = kinds \o Sizes(q)
  BY Zenon DEF ScoreErrors
<1> HIDE DEF a
<1>4. kinds \in Seq(Raised) /\ (Passed(kinds) => a = "ok")
  BY <1>2, WrittenOut, Zenon
<1> HIDE DEF kinds
<1>5. ScoreErrors(q) \in Seq(Raised) /\ (Passed(ScoreErrors(q)) => Passed(kinds) /\ Passed(Sizes(q)))
  BY <1>3, <1>4, SizesPassed, PartsPassed, Zenon
<1> QED
  BY <1>1, <1>2, <1>4, <1>5, SizesPassed

LEMMA NoulPassed ==
  \A q \in Question :
    /\ NoulErrors(q) \in Seq(Raised)
    /\ Passed(NoulErrors(q)) => q.criteria \in {"null", "object"} /\ q.texts = "fit"
<1> SUFFICES ASSUME NEW q \in Question
             PROVE  /\ NoulErrors(q) \in Seq(Raised)
                    /\ Passed(NoulErrors(q)) => q.criteria \in {"null", "object"} /\ q.texts = "fit"
  OBVIOUS
<1> DEFINE a == Check(q.criteria \notin {"null", "object"}, "MALFORMED_REQUEST")
           b == Check(q.texts = "long", "REQUEST_TOO_LARGE")
<1>1. q.texts \in {"fit", "long"}
  BY DEF Question
<1>2. a \in Raised /\ b \in Raised /\ (a = "ok" => q.criteria \in {"null", "object"}) /\ (b = "ok" => q.texts # "long")
  BY PayloadCodes
<1>3. NoulErrors(q) = << a, b >>
  BY Zenon DEF NoulErrors
<1> HIDE DEF a, b
<1>4. NoulErrors(q) \in Seq(Raised) /\ (Passed(NoulErrors(q)) => a = "ok" /\ b = "ok")
  BY <1>2, <1>3, WrittenOut, Zenon
<1> QED
  BY <1>1, <1>2, <1>4

\* A question that _validate_question() lets through is well formed.
LEMMA QuestionPassed ==
  \A q \in Question : QuestionError(q) \in Raised /\ (QuestionError(q) = "ok" => WellFormed(q))
<1> SUFFICES ASSUME NEW q \in Question
             PROVE  QuestionError(q) \in Raised /\ (QuestionError(q) = "ok" => WellFormed(q))
  OBVIOUS
<1> DEFINE a == Check(q.id = "empty" \/ q.type = "other", "MALFORMED_REQUEST")
           b == Check(q.instructions = "missing", "MALFORMED_REQUEST")
           c == Check(q.instructions = "long", "REQUEST_TOO_LARGE")
           kinds == << a, b, c >>
           rest == CASE q.type = "choice" -> ChoiceErrors(q)
                     [] q.type = "score" -> ScoreErrors(q)
                     [] OTHER -> NoulErrors(q)
<1>1. /\ q.id \in {"named", "empty"} /\ q.instructions \in {"text", "long", "missing"}
      /\ q.type \in {"choice", "score", "noul", "other"}
  BY DEF Question
<1>2. /\ a \in Raised /\ (a = "ok" => q.id # "empty" /\ q.type # "other")
      /\ b \in Raised /\ (b = "ok" => q.instructions # "missing")
      /\ c \in Raised /\ (c = "ok" => q.instructions # "long")
  BY PayloadCodes
<1>3. QuestionError(q) = FirstError(kinds \o rest)
  BY Zenon DEF QuestionError
<1>4. /\ q.type = "choice" => rest = ChoiceErrors(q)
      /\ q.type = "score" => rest = ScoreErrors(q)
      /\ q.type # "choice" /\ q.type # "score" => rest = NoulErrors(q)
  OBVIOUS
<1> HIDE DEF a, b, c, rest
<1>5. kinds \in Seq(Raised) /\ (Passed(kinds) => a = "ok" /\ b = "ok" /\ c = "ok")
  BY <1>2, WrittenOut, Zenon
<1> HIDE DEF kinds
<1>6. rest \in Seq(Raised)
  BY <1>4, ChoicePassed, ScorePassed, NoulPassed, Zenon
<1>7. /\ QuestionError(q) \in Raised
      /\ QuestionError(q) = "ok" => Passed(kinds) /\ Passed(rest)
  BY <1>3, <1>5, <1>6, PartsPassed, ChainAnswers, Zenon
<1>8. ASSUME Passed(kinds), Passed(rest) PROVE WellFormed(q)
  <2>1. q.id = "named" /\ q.instructions = "text" /\ q.type \in {"choice", "score", "noul"}
    BY <1>1, <1>2, <1>5, <1>8
  <2>2. CASE q.type = "choice"
    BY <1>4, <1>8, <2>1, <2>2, ChoicePassed DEF WellFormed
  <2>3. CASE q.type = "score"
    BY <1>4, <1>8, <2>1, <2>3, ScorePassed DEF WellFormed
  <2>4. CASE q.type = "noul"
    BY <1>4, <1>8, <2>1, <2>4, NoulPassed DEF WellFormed
  <2> QED
    BY <2>1, <2>2, <2>3, <2>4
<1> QED
  BY <1>7, <1>8

\* The fields of a request that the checks look at.
LEMMA RequestFields ==
  \A r \in Request :
    /\ r.endpoint \in {"predict", "health", "models", "system", "other"}
    /\ r.method \in {"GET", "POST"} /\ r.token \in {"right", "wrong", "none"}
    /\ r.size \in {"empty", "fits", "over"} /\ r.media \in {"json", "other"}
    /\ r.body \in {"not JSON", "not an object", "object"}
    /\ r.version \in {"same", "other"} /\ r.keyed \in BOOLEAN /\ r.questions \in Seq(Question)
    /\ r.state \in {"fits", "long", "other"} /\ r.model \in {"default", "known", "unknown", "other"}
BY DEF Request

\* The verdicts on the questions of a request, in order.
LEMMA QuestionsPassed ==
  \A qs \in Seq(Question) :
    /\ [i \in DOMAIN qs |-> QuestionError(qs[i])] \in Seq(Raised)
    /\ Passed([i \in DOMAIN qs |-> QuestionError(qs[i])]) => \A i \in DOMAIN qs : WellFormed(qs[i])
<1> SUFFICES ASSUME NEW qs \in Seq(Question)
             PROVE  /\ [i \in DOMAIN qs |-> QuestionError(qs[i])] \in Seq(Raised)
                    /\ Passed([i \in DOMAIN qs |-> QuestionError(qs[i])]) =>
                         \A i \in DOMAIN qs : WellFormed(qs[i])
  OBVIOUS
<1> DEFINE verdicts == [i \in DOMAIN qs |-> QuestionError(qs[i])]
<1>1. Len(qs) \in Nat /\ DOMAIN qs = 1 .. Len(qs) /\ \A i \in 1 .. Len(qs) : qs[i] \in Question
  OBVIOUS
<1>2. \A i \in 1 .. Len(qs) :
        QuestionError(qs[i]) \in Raised /\ (QuestionError(qs[i]) = "ok" => WellFormed(qs[i]))
  BY <1>1, QuestionPassed, Zenon
<1>3. verdicts \in Seq(Raised) /\ Len(verdicts) = Len(qs)
  BY <1>1, <1>2
<1>4. \A i \in 1 .. Len(qs) : verdicts[i] = QuestionError(qs[i])
  BY <1>1
<1> HIDE DEF verdicts
<1>5. ASSUME Passed(verdicts) PROVE \A i \in DOMAIN qs : WellFormed(qs[i])
  BY <1>1, <1>2, <1>3, <1>4, <1>5, Zenon DEF Passed
<1> QED
  BY <1>3, <1>5 DEF verdicts

\* What validate_predict_payload() lets through.
LEMMA PayloadPassed ==
  \A r \in Request :
    /\ PayloadError(r) \in Raised
    /\ PayloadError(r) = "ok" =>
         /\ r.version = "same" /\ r.keyed /\ Len(r.questions) <= MaxQuestions
         /\ \A i \in DOMAIN r.questions : WellFormed(r.questions[i])
         /\ r.state = "fits" /\ r.model # "other"
<1> SUFFICES ASSUME NEW r \in Request
             PROVE  /\ PayloadError(r) \in Raised
                    /\ PayloadError(r) = "ok" =>
                         /\ r.version = "same" /\ r.keyed /\ Len(r.questions) <= MaxQuestions
                         /\ \A i \in DOMAIN r.questions : WellFormed(r.questions[i])
                         /\ r.state = "fits" /\ r.model # "other"
  OBVIOUS
<1> DEFINE over == Len(r.questions) > MaxQuestions
           a == Check(r.version = "other", "PROTOCOL_UNSUPPORTED")
           b == Check(~r.keyed, "MALFORMED_REQUEST")
           c == Check(over, "REQUEST_TOO_LARGE")
           first == << a, b, c >>
           each == [i \in DOMAIN r.questions |-> QuestionError(r.questions[i])]
           d == Check(r.state = "long", "REQUEST_TOO_LARGE")
           e == Check(r.state = "other" \/ r.model = "other", "MALFORMED_REQUEST")
           last == << d, e >>
<1>1. PayloadError(r) = FirstError(first \o each \o last)
  BY Zenon DEF PayloadError
<1>2. r.questions \in Seq(Question)
  BY RequestFields, Zenon
<1>3. /\ r.version \in {"same", "other"} /\ r.keyed \in BOOLEAN
      /\ r.state \in {"fits", "long", "other"}
  BY RequestFields
<1>4. over \in BOOLEAN /\ (~over => Len(r.questions) <= MaxQuestions)
  <2>1. Len(r.questions) \in Nat /\ MaxQuestions \in Nat
    BY <1>2, PipelineAssumption
  <2> QED
    BY <2>1
<1> HIDE DEF over
<1>5. /\ a \in Raised /\ (a = "ok" => r.version # "other")
      /\ b \in Raised /\ (b = "ok" => r.keyed)
      /\ c \in Raised /\ (c = "ok" => ~over)
  BY <1>3, <1>4, CheckFacts DEF RequestErrors
<1>6. /\ d \in Raised /\ (d = "ok" => r.state # "long")
      /\ e \in Raised /\ (e = "ok" => r.state # "other" /\ r.model # "other")
  BY PayloadCodes
<1> HIDE DEF a, b, c, d, e
<1>7. first \in Seq(Raised) /\ (Passed(first) => a = "ok" /\ b = "ok" /\ c = "ok")
  BY <1>5, WrittenOut, Zenon
<1>8. last \in Seq(Raised) /\ (Passed(last) => d = "ok" /\ e = "ok")
  BY <1>6, WrittenOut, Zenon
<1>9. /\ each \in Seq(Raised)
      /\ Passed(each) => \A i \in DOMAIN r.questions : WellFormed(r.questions[i])
  BY <1>2, QuestionsPassed, Zenon
<1> HIDE DEF first, each, last
<1>10. first \o each \in Seq(Raised) /\ (Passed(first \o each) => Passed(first) /\ Passed(each))
  BY <1>7, <1>9, PartsPassed, Zenon
<1>11. /\ PayloadError(r) \in Raised
       /\ PayloadError(r) = "ok" => Passed(first) /\ Passed(each) /\ Passed(last)
  BY <1>1, <1>8, <1>10, PartsPassed, ChainAnswers, Zenon
<1> QED
  BY <1>3, <1>4, <1>5, <1>6, <1>7, <1>8, <1>9, <1>11

\* What _route() lets through to an endpoint.
LEMMA RoutePassed ==
  \A r \in Request :
    /\ RouteError(r) \in Raised
    /\ RouteError(r) = "ok" =>
         /\ r.endpoint # "other" /\ r.size # "over"
         /\ r.method = (IF r.endpoint = "predict" THEN "POST" ELSE "GET")
         /\ TokenRequired => r.token = "right"
<1> SUFFICES ASSUME NEW r \in Request
             PROVE  /\ RouteError(r) \in Raised
                    /\ RouteError(r) = "ok" =>
                         /\ r.endpoint # "other" /\ r.size # "over"
                         /\ r.method = (IF r.endpoint = "predict" THEN "POST" ELSE "GET")
                         /\ TokenRequired => r.token = "right"
  OBVIOUS
<1> DEFINE meant == IF r.endpoint = "predict" THEN "POST" ELSE "GET"
           locked == TokenRequired /\ r.token # "right"
           a == Check(r.endpoint = "other", "MALFORMED_REQUEST")
           b == Check(r.method # meant, "METHOD_NOT_ALLOWED")
           c == Check(locked, "UNAUTHORIZED")
           d == Check(r.size = "over", "REQUEST_TOO_LARGE")
<1>1. RouteError(r) = FirstError(<< a, b, c, d >>)
  BY Zenon DEF RouteError, TokenError
<1>2. locked \in BOOLEAN /\ (~locked => (TokenRequired => r.token = "right"))
  BY PipelineAssumption
<1> HIDE DEF locked, meant
<1>3. /\ a \in Raised /\ (a = "ok" => r.endpoint # "other")
      /\ b \in Raised /\ (b = "ok" => r.method = meant)
      /\ c \in Raised /\ (c = "ok" => ~locked)
      /\ d \in Raised /\ (d = "ok" => r.size # "over")
  BY <1>2, CheckFacts DEF RequestErrors
<1> HIDE DEF a, b, c, d
<1>4. << a, b, c, d >> \in Seq(Raised)
      /\ (Passed(<< a, b, c, d >>) => a = "ok" /\ b = "ok" /\ c = "ok" /\ d = "ok")
  BY <1>3, WrittenOut, Zenon
<1>5. /\ RouteError(r) \in Raised
      /\ RouteError(r) = "ok" => a = "ok" /\ b = "ok" /\ c = "ok" /\ d = "ok"
  BY <1>1, <1>4, ChainAnswers, Zenon
<1> QED
  BY <1>2, <1>3, <1>5 DEF meant

\* What _predict() lets through to the queue.
LEMMA PredictPassed ==
  \A r \in Request :
    /\ PredictError(r) \in Raised
    /\ PredictError(r) = "ok" =>
         /\ r.size # "empty" /\ r.media = "json" /\ r.body = "object"
         /\ PayloadError(r) = "ok" /\ r.model # "unknown"
<1> SUFFICES ASSUME NEW r \in Request
             PROVE  /\ PredictError(r) \in Raised
                    /\ PredictError(r) = "ok" =>
                         /\ r.size # "empty" /\ r.media = "json" /\ r.body = "object"
                         /\ PayloadError(r) = "ok" /\ r.model # "unknown"
  OBVIOUS
<1> DEFINE a == Check(r.size = "empty", "MALFORMED_REQUEST")
           b == Check(r.media # "json", "UNSUPPORTED_MEDIA_TYPE")
           c == Check(r.body # "object", "MALFORMED_REQUEST")
           d == PayloadError(r)
           e == Check(r.model = "unknown", "MALFORMED_REQUEST")
<1>1. PredictError(r) = FirstError(<< a, b, c, d, e >>)
  BY Zenon DEF PredictError
<1>2. d \in Raised
  BY PayloadPassed, Zenon
<1>3. /\ a \in Raised /\ (a = "ok" => r.size # "empty")
      /\ b \in Raised /\ (b = "ok" => r.media = "json")
      /\ c \in Raised /\ (c = "ok" => r.body = "object")
      /\ e \in Raised /\ (e = "ok" => r.model # "unknown")
  BY CheckFacts DEF RequestErrors
<1> HIDE DEF a, b, c, d, e
<1>4. << a, b, c, d, e >> \in Seq(Raised)
      /\ (Passed(<< a, b, c, d, e >>) => a = "ok" /\ b = "ok" /\ c = "ok" /\ d = "ok" /\ e = "ok")
  BY <1>2, <1>3, WrittenOut, Zenon
<1>5. /\ PredictError(r) \in Raised
      /\ PredictError(r) = "ok" => a = "ok" /\ b = "ok" /\ c = "ok" /\ d = "ok" /\ e = "ok"
  BY <1>1, <1>4, ChainAnswers, Zenon
<1> QED
  BY <1>3, <1>5, Zenon DEF d

\* The verdict of the whole chain: a code of the server or nothing, and a request
\* to predict that gets through has every property that a check looks for.
LEMMA VerdictFacts ==
  \A r \in Request :
    /\ Verdict(r) \in Raised
    /\ Verdict(r) = "ok" /\ r.endpoint = "predict" => Admissible(r)
<1> SUFFICES ASSUME NEW r \in Request
             PROVE  /\ Verdict(r) \in Raised
                    /\ Verdict(r) = "ok" /\ r.endpoint = "predict" => Admissible(r)
  OBVIOUS
<1> DEFINE a == RouteError(r)
           b == IF r.endpoint = "predict" THEN PredictError(r) ELSE "ok"
<1>1. Verdict(r) = FirstError(<< a, b >>)
  BY Zenon DEF Verdict
<1>2. a \in Raised /\ b \in Raised
  BY RoutePassed, PredictPassed DEF Raised
<1>3. r.endpoint = "predict" => b = PredictError(r)
  OBVIOUS
<1> HIDE DEF a, b
<1>4. << a, b >> \in Seq(Raised) /\ (Passed(<< a, b >>) => a = "ok" /\ b = "ok")
  BY <1>2, WrittenOut, Zenon
<1>5. Verdict(r) \in Raised /\ (Verdict(r) = "ok" => a = "ok" /\ b = "ok")
  BY <1>1, <1>4, ChainAnswers, Zenon
<1>6. ASSUME Verdict(r) = "ok", r.endpoint = "predict" PROVE Admissible(r)
  <2>1. RouteError(r) = "ok" /\ PredictError(r) = "ok"
    BY <1>3, <1>5, <1>6 DEF a
  <2>2. /\ r.size # "over" /\ r.method = "POST" /\ (TokenRequired => r.token = "right")
    BY <1>6, <2>1, RoutePassed
  <2>3. /\ r.size # "empty" /\ r.media = "json" /\ r.body = "object"
        /\ PayloadError(r) = "ok" /\ r.model # "unknown"
    BY <2>1, PredictPassed
  <2>4. /\ r.version = "same" /\ r.keyed /\ Len(r.questions) <= MaxQuestions
        /\ \A i \in DOMAIN r.questions : WellFormed(r.questions[i])
        /\ r.state = "fits" /\ r.model # "other"
    BY <2>3, PayloadPassed
  <2>5. r.size \in {"empty", "fits", "over"} /\ r.model \in {"default", "known", "unknown", "other"}
    BY RequestFields
  <2> HIDE DEF b
  <2>6. r.size = "fits" /\ r.model \in {"default", "known"}
    BY <2>2, <2>3, <2>4, <2>5
  <2> QED
    BY <1>6, <2>2, <2>3, <2>4, <2>6, Zenon DEF Admissible
<1> QED
  BY <1>5, <1>6

----------------------------------------------------------------------------
\* The converse: the checks refuse nothing that the protocol admits.

\* A chain none of whose checks fails answers "ok"; so do two such chains in a row,
\* and those that are written out.
LEMMA PassedAnswers == \A codes \in Seq(Raised) : Passed(codes) => FirstError(codes) = "ok"
<1> SUFFICES ASSUME NEW codes \in Seq(Raised), Passed(codes) PROVE FirstError(codes) = "ok"
  OBVIOUS
<1>1. DOMAIN codes = 1 .. Len(codes)
  OBVIOUS
<1> QED
  BY <1>1, Zenon DEF FirstError, Passed

LEMMA BothPass ==
  \A s, t \in Seq(Raised) : Passed(s) /\ Passed(t) => s \o t \in Seq(Raised) /\ Passed(s \o t)
<1> SUFFICES ASSUME NEW s \in Seq(Raised), NEW t \in Seq(Raised), Passed(s), Passed(t)
             PROVE  s \o t \in Seq(Raised) /\ Passed(s \o t)
  OBVIOUS
<1> DEFINE both == s \o t
<1>1. /\ both \in Seq(Raised) /\ Len(both) = Len(s) + Len(t)
      /\ \A p \in 1 .. Len(s) : both[p] = s[p]
      /\ \A p \in 1 .. Len(t) : both[Len(s) + p] = t[p]
  BY Joins
<1>2. Len(s) \in Nat /\ Len(t) \in Nat
  OBVIOUS
<1> HIDE DEF both
<1>3. ASSUME NEW i \in 1 .. Len(both) PROVE both[i] = "ok"
  <2>1. CASE i \in 1 .. Len(s)
    BY <1>1, <2>1, Zenon DEF Passed
  <2>2. CASE i \notin 1 .. Len(s)
    <3>1. i - Len(s) \in 1 .. Len(t) /\ Len(s) + (i - Len(s)) = i
      BY <1>1, <1>2, <2>2
    <3> QED
      BY <1>1, <3>1, Zenon DEF Passed
  <2> QED
    BY <2>1, <2>2
<1> QED
  BY <1>1, <1>3 DEF Passed, both

LEMMA AllPass ==
  /\ "ok" \in Raised
  /\ Passed(<< "ok" >>) /\ Passed(<< "ok", "ok" >>) /\ Passed(<< "ok", "ok", "ok" >>)
  /\ Passed(<< "ok", "ok", "ok", "ok" >>) /\ Passed(<< "ok", "ok", "ok", "ok", "ok" >>)
BY DEF Passed, Raised

LEMMA NothingRaised == \A code : \A fails \in BOOLEAN : ~fails => Check(fails, code) = "ok"
BY DEF Check

\* _validate_question() lets every well formed question through.
LEMMA WellFormedPasses == \A q \in Question : WellFormed(q) => QuestionError(q) = "ok"
<1> SUFFICES ASSUME NEW q \in Question, WellFormed(q) PROVE QuestionError(q) = "ok"
  OBVIOUS
<1> DEFINE kinds == << Check(q.id = "empty" \/ q.type = "other", "MALFORMED_REQUEST"),
                       Check(q.instructions = "missing", "MALFORMED_REQUEST"),
                       Check(q.instructions = "long", "REQUEST_TOO_LARGE") >>
           rest == CASE q.type = "choice" -> ChoiceErrors(q)
                     [] q.type = "score" -> ScoreErrors(q)
                     [] OTHER -> NoulErrors(q)
           over == q.options > MaxOptions
<1>1. q.options \in Nat /\ MaxOptions \in Nat
  BY OptionsAreCounted
<1>2. q.type # "noul" => ~over
  BY <1>1 DEF WellFormed
<1>3. over \in BOOLEAN
  BY <1>1
<1>4. Sizes(q) = << Check(over, "REQUEST_TOO_LARGE"), Check(q.texts = "long", "REQUEST_TOO_LARGE") >>
  BY Zenon DEF Sizes
<1> HIDE DEF over
<1>5. q.type # "noul" => Sizes(q) = << "ok", "ok" >>
  BY <1>2, <1>3, <1>4, NothingRaised DEF WellFormed
<1>6. kinds = << "ok", "ok", "ok" >>
  BY NothingRaised DEF WellFormed
<1>7. QuestionError(q) = FirstError(kinds \o rest)
  BY Zenon DEF QuestionError
<1>8. << "ok", "ok", "ok" >> \in Seq(Raised) /\ << "ok", "ok" >> \in Seq(Raised) /\ << "ok" >> \in Seq(Raised)
  BY AllPass, WrittenOut, Zenon
<1>9. /\ q.type = "choice" => rest = ChoiceErrors(q)
      /\ q.type = "score" => rest = ScoreErrors(q)
      /\ q.type = "noul" => rest = NoulErrors(q)
  OBVIOUS
<1> HIDE DEF rest
<1>10. rest \in Seq(Raised) /\ Passed(rest)
  <2>1. CASE q.type = "choice"
    <3> DEFINE own == << Check(q.criteria \notin {"list", "object"}, "MALFORMED_REQUEST"),
                         Check(q.criteria = "list" /\ q.labels # "distinct", "MALFORMED_REQUEST"),
                         Check(q.criteria = "object" /\ q.options = 0, "MALFORMED_REQUEST") >>
    <3>1. rest = own \o Sizes(q)
      BY <1>9, <2>1, Zenon DEF ChoiceErrors
    <3>2. own = << "ok", "ok", "ok" >>
      <4>1. \/ q.criteria = "list" /\ q.labels = "distinct"
            \/ q.criteria = "object" /\ q.options # 0
        BY <1>1, <2>1 DEF WellFormed
      <4> QED
        BY <4>1, NothingRaised
    <3>3. Sizes(q) = << "ok", "ok" >>
      BY <1>5, <2>1
    <3> HIDE DEF own
    <3> QED
      BY <1>8, <3>1, <3>2, <3>3, AllPass, BothPass, Zenon
  <2>2. CASE q.type = "score"
    <3> DEFINE own == << Check(q.criteria # "list" \/ q.options = 0, "MALFORMED_REQUEST") >>
    <3>1. rest = own \o Sizes(q)
      BY <1>9, <2>2, Zenon DEF ScoreErrors
    <3>2. own = << "ok" >>
      <4>1. q.criteria = "list" /\ q.options # 0
        BY <1>1, <2>2 DEF WellFormed
      <4> QED
        BY <4>1, NothingRaised
    <3>3. Sizes(q) = << "ok", "ok" >>
      BY <1>5, <2>2
    <3> HIDE DEF own
    <3> QED
      BY <1>8, <3>1, <3>2, <3>3, AllPass, BothPass, Zenon
  <2>3. CASE q.type = "noul"
    <3>1. rest = NoulErrors(q)
      BY <1>9, <2>3
    <3>2. NoulErrors(q) = << "ok", "ok" >>
      BY <2>3, NothingRaised DEF NoulErrors, WellFormed
    <3> QED
      BY <1>8, <3>1, <3>2, AllPass
  <2> QED
    BY <2>1, <2>2, <2>3 DEF WellFormed
<1> HIDE DEF kinds
<1> QED
  BY <1>6, <1>7, <1>8, <1>10, AllPass, BothPass, PassedAnswers, Zenon

\* validate_predict_payload() lets every admissible payload through.
LEMMA AdmissiblePayload == \A r \in Request : Admissible(r) => PayloadError(r) = "ok"
<1> SUFFICES ASSUME NEW r \in Request, Admissible(r) PROVE PayloadError(r) = "ok"
  OBVIOUS
<1> DEFINE over == Len(r.questions) > MaxQuestions
           first == << Check(r.version = "other", "PROTOCOL_UNSUPPORTED"),
                       Check(~r.keyed, "MALFORMED_REQUEST"),
                       Check(over, "REQUEST_TOO_LARGE") >>
           each == [i \in DOMAIN r.questions |-> QuestionError(r.questions[i])]
           last == << Check(r.state = "long", "REQUEST_TOO_LARGE"),
                      Check(r.state = "other" \/ r.model = "other", "MALFORMED_REQUEST") >>
<1>1. PayloadError(r) = FirstError(first \o each \o last)
  BY Zenon DEF PayloadError
<1>2. /\ r.questions \in Seq(Question) /\ DOMAIN r.questions = 1 .. Len(r.questions)
      /\ Len(r.questions) \in Nat /\ MaxQuestions \in Nat
  <2>1. r.questions \in Seq(Question)
    BY RequestFields, Zenon
  <2> QED
    BY <2>1, PipelineAssumption
<1>3. over \in BOOLEAN /\ ~over
  BY <1>2 DEF Admissible
<1> HIDE DEF over
<1>4. first = << "ok", "ok", "ok" >>
  BY <1>3, NothingRaised DEF Admissible
<1>5. last = << "ok", "ok" >>
  BY NothingRaised DEF Admissible
<1>6. \A i \in 1 .. Len(r.questions) : each[i] = "ok"
  <2>1. \A i \in 1 .. Len(r.questions) : r.questions[i] \in Question
    BY <1>2
  <2>2. \A i \in 1 .. Len(r.questions) : QuestionError(r.questions[i]) = "ok"
    BY <1>2, <2>1, WellFormedPasses, Zenon DEF Admissible
  <2> QED
    BY <1>2, <2>2
<1>7. each \in Seq(Raised) /\ Len(each) = Len(r.questions)
  <2>1. each \in Seq(Raised)
    BY <1>2, QuestionsPassed, Zenon
  <2>2. DOMAIN each = 1 .. Len(r.questions)
    BY <1>2
  <2> HIDE DEF each
  <2> QED
    BY <1>2, <2>1, <2>2
<1> HIDE DEF first, each, last
<1>8. Passed(each)
  BY <1>6, <1>7 DEF Passed
<1>9. /\ first \in Seq(Raised) /\ Passed(first)
      /\ last \in Seq(Raised) /\ Passed(last)
  BY <1>4, <1>5, AllPass, WrittenOut, Zenon
<1>10. first \o each \in Seq(Raised) /\ Passed(first \o each)
  BY <1>7, <1>8, <1>9, BothPass, Zenon
<1> QED
  BY <1>1, <1>9, <1>10, BothPass, PassedAnswers, Zenon

\* schemas.py:4 and app.py: what reaches the queue is exactly what the protocol
\* admits.  In whatever order the checks are made they let nothing else through
\* and refuse none of it, for any limits and any number of questions.
THEOREM ValidationIsExact ==
  \A r \in Request : r.endpoint = "predict" => (Verdict(r) = "ok" <=> Admissible(r))
<1> SUFFICES ASSUME NEW r \in Request, r.endpoint = "predict", Admissible(r)
             PROVE  Verdict(r) = "ok"
  BY VerdictFacts
<1>1. << "ok", "ok" >> \in Seq(Raised) /\ Passed(<< "ok", "ok" >>)
      /\ << "ok", "ok", "ok", "ok" >> \in Seq(Raised) /\ Passed(<< "ok", "ok", "ok", "ok" >>)
      /\ << "ok", "ok", "ok", "ok", "ok" >> \in Seq(Raised)
      /\ Passed(<< "ok", "ok", "ok", "ok", "ok" >>)
  BY AllPass, WrittenOut, Zenon
<1>2. RouteError(r) = "ok"
  <2> DEFINE locked == TokenRequired /\ r.token # "right"
             codes == << Check(r.endpoint = "other", "MALFORMED_REQUEST"),
                         Check(r.method # (IF r.endpoint = "predict" THEN "POST" ELSE "GET"),
                               "METHOD_NOT_ALLOWED"),
                         Check(locked, "UNAUTHORIZED"),
                         Check(r.size = "over", "REQUEST_TOO_LARGE") >>
  <2>1. RouteError(r) = FirstError(codes)
    BY Zenon DEF RouteError, TokenError
  <2>2. locked \in BOOLEAN /\ ~locked
    BY PipelineAssumption DEF Admissible
  <2> HIDE DEF locked
  <2>3. codes = << "ok", "ok", "ok", "ok" >>
    BY <2>2, NothingRaised DEF Admissible
  <2> HIDE DEF codes
  <2> QED
    BY <1>1, <2>1, <2>3, PassedAnswers, Zenon
<1>3. PredictError(r) = "ok"
  <2> DEFINE payload == PayloadError(r)
             codes == << Check(r.size = "empty", "MALFORMED_REQUEST"),
                         Check(r.media # "json", "UNSUPPORTED_MEDIA_TYPE"),
                         Check(r.body # "object", "MALFORMED_REQUEST"),
                         payload,
                         Check(r.model = "unknown", "MALFORMED_REQUEST") >>
  <2>1. PredictError(r) = FirstError(codes)
    BY Zenon DEF PredictError
  <2>2. payload = "ok"
    BY AdmissiblePayload, Zenon
  <2> HIDE DEF payload
  <2>3. codes = << "ok", "ok", "ok", "ok", "ok" >>
    BY <2>2, NothingRaised DEF Admissible
  <2> HIDE DEF codes
  <2> QED
    BY <1>1, <2>1, <2>3, PassedAnswers, Zenon
<1>4. Verdict(r) = FirstError(<< "ok", "ok" >>)
  BY <1>2, <1>3, Zenon DEF Verdict
<1> QED
  BY <1>1, <1>4, PassedAnswers, Zenon

\* The model takes every question that is well formed, but for a choice whose list
\* of labels is empty.
LEMMA WellFormedIsAnswerable ==
  \A q \in Question :
    WellFormed(q) /\ Unanswerable(q) => q.type = "choice" /\ q.criteria = "list" /\ q.options = 0
<1> SUFFICES ASSUME NEW q \in Question, WellFormed(q), Unanswerable(q)
             PROVE  q.type = "choice" /\ q.criteria = "list" /\ q.options = 0
  OBVIOUS
<1> USE DEF WellFormed, Unanswerable
<1>1. q.options \in Nat
  BY OptionsAreCounted
<1> QED
  BY <1>1

----------------------------------------------------------------------------
\* The steps of a call.

\* Where the server stands: what has been written, delivered and run by then.
ServerInv ==
  /\ phase = "start" => server \in {"idle", "gone"}
  /\ server \in {"idle", "received", "load", "predict"} => reply = NoReply
  /\ server = "replied" => reply # NoReply
  /\ reply = NoReply => sent = 0
  /\ server \in {"load", "predict"} <=> job # "none"
  /\ server \in {"idle", "received", "load"} \/ job = "queued" => runs = 0
  /\ runs <= 1

\* What has been decided: only a request to predict that passed every check has a
\* job or a run, and the reply agrees with the number of runs.
DecidedInv ==
  /\ job # "none" \/ runs > 0 => request.endpoint = "predict" /\ Verdict(request) = "ok"
  /\ server = "predict" /\ job = "running" => runs = 1
  /\ reply.code = "ok" /\ request.endpoint = "predict" => runs = 1
  /\ reply.code \in Refusals => runs = 0

CallInv == TypeOK /\ ServerInv /\ DecidedInv /\ AnswerIsTheServers

\* The codes: which of them a server sends, and which promise that nothing ran.
LEMMA CodeFacts ==
  /\ Raised = RequestErrors \cup {"ok"} /\ RequestErrors \subseteq ServerCodes
  /\ "ok" \notin ServerCodes
  /\ LoadErrors \subseteq ServerCodes
  /\ {"QUEUE_FULL", "SERVER_ERROR", "SERVER_BUSY", "TOKEN_BUDGET_EXCEEDED", "NON_FINITE_OUTPUT"} \subseteq ServerCodes
  /\ {"RESPONSE_TOO_LARGE", "SERVER_UNAVAILABLE", "untyped", "result", "none"} \cap ServerCodes = {}
  /\ Refusals \subseteq ServerCodes \ {"MALFORMED_REQUEST"}
  /\ {"ok", "none", "SERVER_ERROR", "SERVER_BUSY", "TOKEN_BUDGET_EXCEEDED", "NON_FINITE_OUTPUT"} \cap Refusals = {}
BY DEF Raised, RequestErrors, ServerCodes, LoadErrors, CheckpointErrors, ModelErrors, Refusals

\* A reply written: its fields, and that it is one.
LEMMA ReplyFacts ==
  /\ NoReply.code = "none" /\ NoReply.length = 0 /\ NoReply \notin Replies
  /\ \A x \in Replies :
       /\ x.code \in ServerCodes \cup {"ok"} /\ x.length \in Nat /\ x.length >= 1
       /\ x.code # "none"
<1>1. NoReply.code = "none" /\ NoReply.length = 0
  BY DEF NoReply
<1>2. ASSUME NEW x \in Replies
      PROVE  x.code \in ServerCodes \cup {"ok"} /\ x.length \in Nat /\ x.length >= 1
  <2>1. x.code \in ServerCodes \cup {"ok"} /\ x.length \in 1 .. MaxBody
    BY <1>2 DEF Replies
  <2> QED
    BY <2>1, CallAssumption
<1>3. \A x \in Replies : x.code # "none"
  BY <1>2, CodeFacts
<1> QED
  BY <1>1, <1>2, <1>3

\* What Respond() writes, whichever branch is taken.
LEMMA Responds ==
  ASSUME NEW code \in ServerCodes \cup {"ok"}, NEW n \in 1 .. MaxBody, NEW w \in 0 .. n - 1,
         Respond(code, n, w)
  PROVE  server' = "replied" /\ reply' \in Replies /\ reply'.code \in {code, "SERVER_ERROR"}
<1>1. MaxBody \in Nat \ {0} /\ ServerLimit \in Nat \ {0}
  BY CallAssumption
<1>2. "SERVER_ERROR" \in ServerCodes /\ 1 \in 1 .. MaxBody /\ 0 \in 0 .. MaxBody - 1 /\ w \in 0 .. MaxBody - 1
  BY <1>1, CodeFacts
<1>3. CASE n > ServerLimit
  <2>1. server' = "replied" /\ reply' = [code |-> "SERVER_ERROR", length |-> 1, wide |-> 0]
    BY <1>3, Zenon DEF Respond
  <2> HIDE DEF ServerCodes
  <2> QED
    BY <1>2, <2>1 DEF Replies
<1>4. CASE ~(n > ServerLimit)
  <2>1. server' = "replied" /\ reply' = [code |-> code, length |-> n, wide |-> w]
    BY <1>4, Zenon DEF Respond
  <2> QED
    BY <1>2, <2>1 DEF Replies
<1> QED
  BY <1>3, <1>4

LEMMA Fails ==
  ASSUME NEW code \in ServerCodes, Fail(code)
  PROVE  server' = "replied" /\ reply' \in Replies /\ reply'.code \in {code, "SERVER_ERROR"}
<1>1. 1 \in 1 .. MaxBody /\ 0 \in 0 .. 1 - 1 /\ code \in ServerCodes \cup {"ok"}
  BY CallAssumption
<1> QED
  BY <1>1, Responds, Zenon DEF Fail

LEMMA Succeeds ==
  ASSUME Succeed
  PROVE  server' = "replied" /\ reply' \in Replies /\ reply'.code \in {"ok", "SERVER_ERROR"}
<1>1. PICK n \in 1 .. MaxBody : \E w \in 0 .. n - 1 : Respond("ok", n, w)
  BY Zenon DEF Succeed
<1>2. PICK w \in 0 .. n - 1 : Respond("ok", n, w)
  BY <1>1
<1> QED
  BY <1>2, Responds

\* The client's steps after Connect move only the client: it is told what the
\* server has decided, or something that no server says.
LEMMA ClientKeeps ==
  ASSUME CallInv, phase \in {"waiting", "reading"}, UNCHANGED <<request, serverVars>>,
         \/ phase' = "reading" /\ outcome' = outcome
         \/ /\ phase' = "done" /\ outcome' \in ServerCodes \cup ClientCodes \cup {"result"}
            /\ outcome' = "result" => reply.code = "ok" /\ Answered
            /\ outcome' \in ServerCodes \ {"MALFORMED_REQUEST"} => outcome' = reply.code /\ Answered
  PROVE  CallInv'
<1>1. UNCHANGED <<request, server, job, runs, reply, sent, link>> /\ phase' # "start"
  BY DEF serverVars
<1>2. "none" \notin ServerCodes /\ "none" \notin ClientCodes
  BY CodeFacts DEF ClientCodes
<1>3. TypeOK'
  BY <1>1, <1>2 DEF CallInv, TypeOK
<1>4. ServerInv'
  BY <1>1 DEF CallInv, ServerInv
<1>5. DecidedInv'
  BY <1>1 DEF CallInv, DecidedInv
<1>6. AnswerIsTheServers'
  BY <1>1, <1>2 DEF CallInv, TypeOK, AnswerIsTheServers, Answered
<1> QED
  BY <1>3, <1>4, <1>5, <1>6 DEF CallInv

\* The server answers: the first reply of the call, in agreement with the runs.
LEMMA ReplyKeeps ==
  ASSUME CallInv, server \in {"received", "load", "predict"},
         UNCHANGED <<request, phase, outcome, runs, sent, link>>,
         server' = "replied", job' = "none", reply' \in Replies,
         reply'.code = "ok" /\ request.endpoint = "predict" => runs = 1,
         reply'.code \in Refusals => runs = 0
  PROVE  CallInv'
<1>1. reply = NoReply /\ sent = 0 /\ phase # "start"
  BY DEF CallInv, ServerInv
<1>2. outcome # "result" /\ outcome \notin ServerCodes \ {"MALFORMED_REQUEST"}
  BY <1>1, CodeFacts, ReplyFacts DEF CallInv, AnswerIsTheServers
<1>3. TypeOK'
  <2>1. reply'.length \in Nat
    BY ReplyFacts
  <2>2. sent' \in 0 .. reply'.length + 1
    BY <1>1, <2>1
  <2> QED
    BY <2>2 DEF CallInv, TypeOK
<1>4. ServerInv'
  BY <1>1, ReplyFacts DEF CallInv, ServerInv
<1>5. DecidedInv'
  BY <1>1 DEF CallInv, DecidedInv
<1>6. AnswerIsTheServers'
  BY <1>2 DEF AnswerIsTheServers
<1> QED
  BY <1>3, <1>4, <1>5, <1>6 DEF CallInv

\* The server submits a job, of a request that has passed every check.
LEMMA SubmitKeeps ==
  ASSUME CallInv, server \in {"received", "load"},
         UNCHANGED <<request, phase, outcome, runs, reply, sent, link>>,
         server' \in {"load", "predict"}, job' = "queued",
         request.endpoint = "predict", Verdict(request) = "ok"
  PROVE  CallInv'
<1>1. reply = NoReply /\ phase # "start" /\ runs = 0
  BY DEF CallInv, ServerInv
<1>2. TypeOK'
  BY DEF CallInv, TypeOK
<1>3. ServerInv'
  BY <1>1 DEF CallInv, ServerInv
<1>4. DecidedInv'
  BY <1>1 DEF CallInv, DecidedInv
<1>5. AnswerIsTheServers'
  BY DEF CallInv, AnswerIsTheServers, Answered
<1> QED
  BY <1>2, <1>3, <1>4, <1>5 DEF CallInv

\* Every step of the client.
LEMMA ClientSteps == CallInv /\ Client => CallInv'
<1> SUFFICES ASSUME CallInv, Client PROVE CallInv'
  OBVIOUS
<1>0. {"RESPONSE_TOO_LARGE", "SERVER_UNAVAILABLE", "untyped", "MALFORMED_REQUEST"} \subseteq ClientCodes
  BY DEF ClientCodes
<1>1. CASE Connect
  <2>1. /\ phase = "start" /\ UNCHANGED <<request, job, runs, reply, sent, link>>
        /\ \/ server # "gone" /\ phase' = "waiting" /\ server' = "received" /\ outcome' = outcome
           \/ phase' = "done" /\ outcome' = "SERVER_UNAVAILABLE" /\ server' = server
    BY <1>1, Zenon DEF Connect, Finish
  <2>2. "SERVER_UNAVAILABLE" \notin ServerCodes /\ "none" \notin ServerCodes
    BY CodeFacts
  <2>3. server # "gone" => server = "idle"
    BY <2>1 DEF CallInv, ServerInv
  <2>4. TypeOK'
    BY <1>0, <2>1 DEF CallInv, TypeOK
  <2>5. ServerInv'
    BY <2>1, <2>3 DEF CallInv, ServerInv
  <2>6. DecidedInv'
    BY <2>1, <2>3 DEF CallInv, DecidedInv
  <2>7. AnswerIsTheServers'
    BY <2>1, <2>2 DEF CallInv, TypeOK, AnswerIsTheServers
  <2> QED
    BY <2>4, <2>5, <2>6, <2>7 DEF CallInv
<1>2. CASE GetHead
  <2>1. /\ phase = "waiting" /\ UNCHANGED <<request, serverVars>>
        /\ \/ phase' = "reading" /\ outcome' = outcome
           \/ phase' = "done" /\ outcome' = "RESPONSE_TOO_LARGE"
    BY <1>2, Zenon DEF GetHead, Finish
  <2> QED
    BY <1>0, <2>1, CodeFacts, ClientKeeps
<1>3. CASE Read
  <2>1. /\ phase = "reading" /\ UNCHANGED <<request, serverVars>> /\ phase' = "done"
        /\ \/ Answered /\ outcome' = Meaning
           \/ outcome' \in {"untyped", "MALFORMED_REQUEST"}
    BY <1>3 DEF Read, ReadBody, Finish
  <2>2. CASE Answered /\ outcome' = Meaning
    <3>1. reply \in Replies
      BY <2>2, ReplyFacts DEF CallInv, TypeOK, ServerInv, Answered
    <3>2. reply.code \in ServerCodes \cup {"ok"}
      BY <3>1, ReplyFacts
    <3>3. \/ reply.code = "ok" /\ outcome' = "result"
          \/ reply.code \in ServerCodes /\ outcome' = reply.code
      BY <2>2, <3>2 DEF Meaning
    <3> QED
      BY <2>1, <2>2, <3>3, CodeFacts, ClientKeeps
  <2>3. CASE outcome' \in {"untyped", "MALFORMED_REQUEST"}
    BY <1>0, <2>1, <2>3, CodeFacts, ClientKeeps
  <2> QED
    BY <2>1, <2>2, <2>3
<1>4. CASE Lost \/ Timeout
  <2>1. /\ phase \in {"waiting", "reading"} /\ UNCHANGED <<request, serverVars>>
        /\ phase' = "done" /\ outcome' = "SERVER_UNAVAILABLE"
    BY <1>4 DEF Lost, Timeout, Expires, GiveUp, Finish
  <2> QED
    BY <1>0, <2>1, CodeFacts, ClientKeeps
<1> QED
  BY <1>1, <1>2, <1>3, <1>4 DEF Client

\* Every step of the server.
LEMMA ServerSteps == CallInv /\ Server => CallInv'
<1> SUFFICES ASSUME CallInv, Server PROVE CallInv'
  OBVIOUS
<1>1. CASE Admit
  <2>1. server = "received" /\ UNCHANGED <<request, phase, outcome, runs, sent, link>>
    BY <1>1 DEF Admit
  <2>2. runs = 0 /\ job = "none"
    BY <2>1 DEF CallInv, ServerInv
  <2>3. CASE Verdict(request) # "ok"
    <3>1. Fail(Verdict(request)) /\ job' = job
      BY <1>1, <2>3, Zenon DEF Admit
    <3>2. Verdict(request) \in Raised
      BY VerdictFacts DEF CallInv, TypeOK
    <3>3. Verdict(request) \in ServerCodes
      BY <2>3, <3>2, CodeFacts
    <3>4. server' = "replied" /\ reply' \in Replies /\ reply'.code \in {Verdict(request), "SERVER_ERROR"}
      BY <3>1, <3>3, Fails
    <3> QED
      BY <2>1, <2>2, <2>3, <3>1, <3>4, ReplyKeeps
  <2>4. CASE Verdict(request) = "ok" /\ request.endpoint = "predict" /\ Submit("load")
    <3>1. CASE Fail("QUEUE_FULL") /\ job' = "none"
      <4>1. server' = "replied" /\ reply' \in Replies /\ reply'.code \in {"QUEUE_FULL", "SERVER_ERROR"}
        BY <3>1, Fails, CodeFacts
      <4> QED
        BY <2>1, <2>2, <3>1, <4>1, ReplyKeeps
    <3>2. CASE server' = "load" /\ job' = "queued" /\ UNCHANGED reply
      BY <2>1, <2>4, <3>2, SubmitKeeps
    <3> QED
      BY <2>4, <3>1, <3>2 DEF Submit
  <2>5. CASE request.endpoint # "predict" /\ Succeed /\ UNCHANGED job
    <3>1. server' = "replied" /\ reply' \in Replies /\ reply'.code \in {"ok", "SERVER_ERROR"}
      BY <2>5, Succeeds
    <3> QED
      BY <2>1, <2>2, <2>5, <3>1, CodeFacts, ReplyKeeps
  <2> QED
    BY <1>1, <2>3, <2>4, <2>5, Zenon DEF Admit
<1>2. CASE Start
  <2>1. /\ server \in {"load", "predict"} /\ job = "queued" /\ job' = "running"
        /\ runs' = (IF server = "predict" THEN runs + 1 ELSE runs)
        /\ UNCHANGED <<request, phase, outcome, server, reply, sent, link>>
    BY <1>2 DEF Start
  <2>2. runs = 0 /\ reply = NoReply
    BY <2>1 DEF CallInv, ServerInv
  <2>3. TypeOK'
    BY <2>1, <2>2 DEF CallInv, TypeOK
  <2>4. ServerInv'
    BY <2>1, <2>2 DEF CallInv, ServerInv
  <2>5. DecidedInv'
    BY <2>1, <2>2, ReplyFacts, CodeFacts DEF CallInv, DecidedInv
  <2>6. AnswerIsTheServers'
    BY <2>1 DEF CallInv, AnswerIsTheServers, Answered
  <2> QED
    BY <2>3, <2>4, <2>5, <2>6 DEF CallInv
<1>3. CASE LoadEnds
  <2>1. /\ server = "load" /\ job = "running" /\ UNCHANGED <<request, phase, outcome, runs, sent, link>>
        /\ \/ Fail("QUEUE_FULL") /\ job' = "none"
           \/ server' = "predict" /\ job' = "queued" /\ UNCHANGED reply
           \/ \E code \in LoadErrors : Fail(code) /\ job' = "none"
    BY <1>3, Zenon DEF LoadEnds, Submit
  <2>2. runs = 0 /\ request.endpoint = "predict" /\ Verdict(request) = "ok"
    BY <2>1 DEF CallInv, ServerInv, DecidedInv
  <2>3. ASSUME NEW code \in ServerCodes, Fail(code), job' = "none" PROVE CallInv'
    <3>1. server' = "replied" /\ reply' \in Replies /\ reply'.code \in {code, "SERVER_ERROR"}
      BY <2>3, Fails
    <3> QED
      BY <2>1, <2>2, <2>3, <3>1, CodeFacts, ReplyKeeps
  <2>4. CASE server' = "predict" /\ job' = "queued" /\ UNCHANGED reply
    BY <2>1, <2>2, <2>4, SubmitKeeps
  <2> QED
    BY <2>1, <2>3, <2>4, CodeFacts, Zenon
<1>4. CASE PredictEnds \/ Busy
  <2>1. /\ server \in {"load", "predict"} /\ job' = "none"
        /\ UNCHANGED <<request, phase, outcome, runs, sent, link>>
        /\ \/ \E code \in {"TOKEN_BUDGET_EXCEEDED", "SERVER_ERROR", "NON_FINITE_OUTPUT", "SERVER_BUSY"} :
                Fail(code)
           \/ server = "predict" /\ job = "running" /\ Succeed
    BY <1>4 DEF PredictEnds, Busy
  <2>2. ASSUME NEW code \in {"TOKEN_BUDGET_EXCEEDED", "SERVER_ERROR", "NON_FINITE_OUTPUT", "SERVER_BUSY"},
               Fail(code)
        PROVE  CallInv'
    <3>1. code \in ServerCodes
      BY CodeFacts
    <3>2. server' = "replied" /\ reply' \in Replies /\ reply'.code \in {code, "SERVER_ERROR"}
      BY <2>2, <3>1, Fails
    <3>3. reply'.code # "ok" /\ reply'.code \notin Refusals
      BY <3>2, CodeFacts
    <3> QED
      BY <2>1, <3>2, <3>3, ReplyKeeps
  <2>3. CASE server = "predict" /\ job = "running" /\ Succeed
    <3>1. server' = "replied" /\ reply' \in Replies /\ reply'.code \in {"ok", "SERVER_ERROR"}
      BY <2>3, Succeeds
    <3>2. runs = 1 /\ reply'.code \notin Refusals
      BY <2>3, <3>1, CodeFacts DEF CallInv, DecidedInv
    <3> QED
      BY <2>1, <2>3, <3>1, <3>2, ReplyKeeps
  <2> QED
    BY <2>1, <2>2, <2>3, Zenon
<1>5. CASE Deliver \/ Close
  <2>1. /\ server = "replied" /\ UNCHANGED <<request, phase, outcome, server, job, runs, reply>>
        /\ \/ sent' = sent /\ link' = "closed"
           \/ ~Answered /\ sent' = sent + 1 /\ link' = link
    BY <1>5 DEF Deliver, Close
  <2>2. reply \in Replies
    BY <2>1 DEF CallInv, TypeOK, ServerInv
  <2>3. reply.length \in Nat /\ reply # NoReply
    BY <2>2, ReplyFacts
  <2>4. sent' \in 0 .. reply.length + 1
    BY <2>1, <2>3 DEF CallInv, TypeOK, Answered
  <2>5. TypeOK'
    BY <2>1, <2>4 DEF CallInv, TypeOK
  <2>6. ServerInv'
    BY <2>1, <2>3 DEF CallInv, ServerInv
  <2>7. DecidedInv'
    BY <2>1 DEF CallInv, DecidedInv
  <2>8. AnswerIsTheServers'
    BY <2>1 DEF CallInv, AnswerIsTheServers, Answered
  <2> QED
    BY <2>5, <2>6, <2>7, <2>8 DEF CallInv
<1>6. CASE Die
  <2>1. /\ server' = "gone" /\ job' = "none" /\ link' \in {"up", "closed", "reset"}
        /\ UNCHANGED <<request, phase, outcome, runs, reply, sent>>
    BY <1>6 DEF Die, CallInv, TypeOK
  <2>2. TypeOK'
    BY <2>1 DEF CallInv, TypeOK
  <2>3. ServerInv'
    BY <2>1 DEF CallInv, ServerInv
  <2>4. DecidedInv'
    BY <2>1 DEF CallInv, DecidedInv
  <2>5. AnswerIsTheServers'
    BY <2>1 DEF CallInv, AnswerIsTheServers, Answered
  <2> QED
    BY <2>2, <2>3, <2>4, <2>5 DEF CallInv
<1> QED
  BY <1>1, <1>2, <1>3, <1>4, <1>5, <1>6 DEF Server

LEMMA CallInvStarts == Init => CallInv
<1> SUFFICES ASSUME Init PROVE CallInv
  OBVIOUS
<1>1. request \in Request
  BY CallAssumption DEF Init
<1>2. "none" \notin ServerCodes /\ "none" \notin Refusals
  BY CodeFacts
<1>3. TypeOK
  BY <1>1, ReplyFacts DEF Init, TypeOK
<1>4. ServerInv
  BY DEF Init, ServerInv
<1>5. DecidedInv
  BY <1>2, ReplyFacts DEF Init, DecidedInv
<1>6. AnswerIsTheServers
  BY <1>2 DEF Init, AnswerIsTheServers
<1> QED
  BY <1>3, <1>4, <1>5, <1>6 DEF CallInv

\* A call is always in a state of its types, whatever is asked and whoever fails,
\* and the reply always agrees with what was decided and run (http.py, _request();
\* app.py, handle() and _predict()).
THEOREM CallInvariant == Spec => []CallInv
<1>1. Init => CallInv
  BY CallInvStarts
<1>2. CallInv /\ [Next]_vars => CallInv'
  <2> SUFFICES ASSUME CallInv, [Next]_vars PROVE CallInv'
    OBVIOUS
  <2>1. CASE UNCHANGED vars
    <3>1. UNCHANGED <<request, phase, outcome, server, job, runs, reply, sent, link>>
      BY <2>1 DEF vars
    <3> QED
      BY <3>1 DEF CallInv, TypeOK, ServerInv, DecidedInv, AnswerIsTheServers, Answered
  <2> QED
    BY <2>1, ClientSteps, ServerSteps DEF Next, Rest
<1> QED
  BY <1>1, <1>2, PTL DEF Spec

\* What the client returns or raises is what the server decided, and complete: a
\* result is a whole result, and an error that only servers make was sent by it.
THEOREM AnswerIsAlwaysTheServers == Spec => []AnswerIsTheServers
<1>1. CallInv => AnswerIsTheServers
  BY DEF CallInv
<1> QED
  BY <1>1, CallInvariant, PTL

\* What the caller may conclude about the prediction is true: it ran at most once,
\* exactly once for a result, and not at all after a refusal (http.py:11).
THEOREM RunsAlwaysAsTold == Spec => []RunsAsTold
<1>1. CallInv => RunsAsTold
  <2> SUFFICES ASSUME CallInv PROVE RunsAsTold
    OBVIOUS
  <2>1. runs <= 1
    BY DEF CallInv, ServerInv
  <2>2. outcome = "result" /\ request.endpoint = "predict" => runs = 1
    BY DEF CallInv, AnswerIsTheServers, DecidedInv
  <2>3. outcome \in Refusals => runs = 0
    BY CodeFacts DEF CallInv, AnswerIsTheServers, DecidedInv
  <2> QED
    BY <2>1, <2>2, <2>3 DEF RunsAsTold
<1> QED
  BY <1>1, CallInvariant, PTL

\* Only a request that meets every requirement reaches the queue or the model, in
\* whatever order the checks of app.py and schemas.py are made.
THEOREM OnlyAdmissibleRuns == Spec => []OnlyAdmissible
<1>1. CallInv => OnlyAdmissible
  BY VerdictFacts DEF CallInv, TypeOK, DecidedInv, OnlyAdmissible
<1> QED
  BY <1>1, CallInvariant, PTL

\* Every question that is run is well-formed, and the model refuses none of them but a
\* choice whose list of labels is empty (schemas.py:4, agent.py, _to_internal()).
THEOREM QuestionsAlwaysAgree == Spec => []QuestionsAgree
<1>1. CallInv => QuestionsAgree
  <2> SUFFICES ASSUME CallInv, runs > 0, NEW i \in DOMAIN request.questions
               PROVE  /\ WellFormed(request.questions[i])
                      /\ Unanswerable(request.questions[i]) =>
                           /\ request.questions[i].type = "choice"
                           /\ request.questions[i].criteria = "list"
                           /\ request.questions[i].options = 0
    BY Zenon DEF QuestionsAgree
  <2>1. request \in Request /\ Admissible(request)
    BY VerdictFacts DEF CallInv, TypeOK, DecidedInv
  <2>2. request.questions \in Seq(Question) /\ WellFormed(request.questions[i])
    BY <2>1, RequestFields, Zenon DEF Admissible
  <2>3. request.questions[i] \in Question
    BY <2>2
  <2> QED
    BY <2>2, <2>3, WellFormedIsAnswerable, Zenon
<1> QED
  BY <1>1, CallInvariant, PTL

=============================================================================
