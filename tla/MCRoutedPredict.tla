--------------------------- MODULE MCRoutedPredict ---------------------------
(* Texts around the thresholds of detection, and every way to be explicit. *)
EXTENDS RoutedPredict

W(script, letters, accents, lists) ==
  [script |-> script, letters |-> letters, accents |-> accents, lists |-> lists]

The == W("latin", 3, 0, {"en"})
As == W("latin", 2, 0, {"en", "pt"})
Les == W("latin", 3, 0, {"fr"})
Que == W("latin", 3, 0, {"es", "fr", "pt"})
Fur == W("latin", 3, 1, {"de"})
Card == W("latin", 4, 0, {})
Cafe == W("latin", 4, 1, {})
Greek == W("greek", 3, 0, {})
Han == W("han", 4, 0, {})
Armenian == W(Unlisted, 4, 0, {})
Number == W(NoLetters, 3, 0, {})
Vocabulary == {The, As, Les, Que, Fur, Card, Cafe, Greek, Han, Armenian, Number}

One(words) == << [depth |-> 0, words |-> words] >>
Repeat(w, n) == [i \in 1 .. n |-> w]

\* Every short text, texts of four and five words, the last of them cut by MaxChars,
\* and texts whose second part is nested.
States ==
  {One(<< >>)} \cup {One(<< a >>) : a \in Vocabulary} \cup {One(<< a, b >>) : a, b \in Vocabulary}
  \cup {One(<< a, b, c, d >>) : a \in {The, Les, Cafe}, b \in {The, Les, Que},
                                c \in {As, Les, Fur}, d \in {Les, Card, Greek, Number}}
  \cup {One(Repeat(Card, 3) \o << a, b >>) : a, b \in {Les, The, Han}}
  \cup {One(<< Card >>) \o << [depth |-> d, words |-> << Han, Han >>] >> : d \in {6, 7}}

Plain == [model |-> None, task |-> None, ids |-> {"q"}, lang |-> None, state |-> One(<< Han >>)]
Severed == Workflows["customer_service"] \ {"urgency"}

AllRequests ==
  {[Plain EXCEPT !.state = s] : s \in States}
  \cup {[Plain EXCEPT !.model = m, !.task = t] :
          m \in {None, "english", "ml", "typed", "other"}, t \in {None, "typed-decisions", "decisions", "other"}}
  \cup {[Plain EXCEPT !.ids = i, !.lang = l] :
          i \in {{}, Workflows["customer_service"], Severed, Workflows["customer_service"] \cup {"q"}},
          l \in {None, "en", "fr", "en_us"}}

AllRouters == [default : {"english", "typed-decisions"}, auto : BOOLEAN]
MCNames == ModelNames
=============================================================================
