----------------------------- MODULE MCRemoteCall -----------------------------
(* Requests that differ from a good one in what one group of checks looks at. *)
EXTENDS RemoteCall

Good ==
  [id |-> "named", type |-> "choice", instructions |-> "text", criteria |-> "list",
   options |-> 1, labels |-> "distinct", texts |-> "fit"]
GoodRequest ==
  [endpoint |-> "predict", method |-> "POST", token |-> "right", size |-> "fits",
   media |-> "json", body |-> "object", version |-> "same", keyed |-> TRUE,
   questions |-> << Good >>, state |-> "fits", model |-> "default"]

HttpRequests ==
  {[GoodRequest EXCEPT !.endpoint = e, !.method = m, !.token = t, !.size = s, !.media = d, !.body = b] :
     e \in {"predict", "health", "models", "system", "other"}, m \in {"GET", "POST"},
     t \in {"right", "wrong", "none"}, s \in {"empty", "fits", "over"}, d \in {"json", "other"},
     b \in {"not JSON", "not an object", "object"}}

QuestionLists ==
  LET Bad == [Good EXCEPT !.type = "other"]
      Long == [Good EXCEPT !.instructions = "long"]
  IN  {<< >>, << Good, Good >>, << Good, Good, Bad >>, << Good, Bad >>, << Long, Bad >>}
PayloadRequests ==
  {[GoodRequest EXCEPT !.version = v, !.keyed = k, !.questions = qs, !.state = s, !.model = a] :
     v \in {"same", "other"}, k \in BOOLEAN, qs \in QuestionLists,
     s \in {"fits", "long", "other"}, a \in {"default", "known", "unknown", "other"}}

\* Entries, repeated labels and texts need a list or an object that has them.
Sensible(q) ==
  /\ q.criteria \in {"null", "other"} => q.options = 0
  /\ q.texts = "long" => q.options > 0
  /\ q.labels # "distinct" => q.criteria = "list" /\ q.options > 1
QuestionRequests ==
  {[GoodRequest EXCEPT !.questions = << q >>] : q \in {p \in Question : Sensible(p)}}

AllRequests == HttpRequests \cup PayloadRequests \cup QuestionRequests
=============================================================================
