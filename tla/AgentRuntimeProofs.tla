-------------------------- MODULE AgentRuntimeProofs --------------------------
(***************************************************************************)
(* Prompts, batches and the prefix cache under threads, proved for any     *)
(* number of threads, any requests, any limits and any capacity.           *)
(*                                                                         *)
(* First what the operators of Prompts compute, by induction: the mask     *)
(* tokens of a prompt are its markers, and a row of a padded batch is its  *)
(* prompt.  Then what the cache holds and how large it grows, that a call  *)
(* which no other call overlaps never loses the entry it works with, and   *)
(* that the answers of every call are those of its own questions.          *)
(***************************************************************************)
EXTENDS AgentRuntime, FoldLemmas

----------------------------------------------------------------------------
\* Texts, and sequences one behind the other.

\* The first n elements.
LEMMA TakeFacts ==
  ASSUME NEW S, NEW s \in Seq(S), NEW n \in Nat
  PROVE  /\ Take(s, n) \in Seq(S)
         /\ Len(Take(s, n)) = IF n <= Len(s) THEN n ELSE Len(s)
         /\ \A i \in 1 .. Len(Take(s, n)) : Take(s, n)[i] = s[i]
<1> DEFINE m == IF n <= Len(s) THEN n ELSE Len(s)
<1>1. Take(s, n) = SubSeq(s, 1, m)
  BY MinOfTwo DEF Take
<1>2. m \in 0 .. Len(s)
  OBVIOUS
<1> HIDE DEF m
<1>3. /\ SubSeq(s, 1, m) \in Seq(S) /\ Len(SubSeq(s, 1, m)) = m
      /\ \A i \in 1 .. m : SubSeq(s, 1, m)[i] = s[i]
  BY <1>2
<1> QED
  BY <1>1, <1>3 DEF m

\* The clean-up keeps the length of a text and leaves no mask token in it.
LEMMA CleanFacts ==
  ASSUME NEW text \in Seq(Tokens)
  PROVE  /\ Clean(text) \in Seq(Tokens)
         /\ Len(Clean(text)) = Len(text)
         /\ \A i \in 1 .. Len(text) : Clean(text)[i] # Mask
<1>0. "blank" # "[MASK]"
  OBVIOUS
<1>00. "blank" \in Tokens
  BY DEF Tokens
<1>1. DOMAIN text = 1 .. Len(text) /\ Len(text) \in Nat /\ \A i \in 1 .. Len(text) : text[i] \in Tokens
  OBVIOUS
<1>2. Clean(text) = [i \in 1 .. Len(text) |-> IF text[i] = Mask THEN "blank" ELSE text[i]]
  BY <1>1 DEF Clean
<1>3. \A i \in 1 .. Len(text) : Clean(text)[i] \in Tokens /\ Clean(text)[i] # Mask
  BY <1>1, <1>2, <1>0, <1>00 DEF Mask
<1> HIDE DEF Clean
<1>4. Len(Clean(text)) = Len(text)
  BY <1>1, <1>2
<1>5. Clean(text) = [i \in 1 .. Len(text) |-> Clean(text)[i]]
  BY <1>2
<1> QED
  BY <1>1, <1>3, <1>4, <1>5

\* What the tokens of an option are: a marker and words.
IsOption(o) ==
  /\ o \in Seq(Tokens) /\ Len(o) >= 1 /\ o[1] = Mask
  /\ \A p \in 2 .. Len(o) : o[p] # Mask

\* A text with no mask token.
NoMask(s) == \A p \in 1 .. Len(s) : s[p] # Mask

\* A cut option is an option.
LEMMA CutOption ==
  ASSUME NEW o, IsOption(o), NEW n \in Nat, n >= 1
  PROVE  IsOption(Take(o, n))
<1>1. o \in Seq(Tokens) /\ Len(o) \in Nat
  BY DEF IsOption
<1>2. /\ Take(o, n) \in Seq(Tokens)
      /\ Len(Take(o, n)) = IF n <= Len(o) THEN n ELSE Len(o)
      /\ \A i \in 1 .. Len(Take(o, n)) : Take(o, n)[i] = o[i]
  BY <1>1, TakeFacts
<1> QED
  BY <1>1, <1>2 DEF IsOption

\* An option cut to its cap is one mask token and then words that are none.
LEMMA OptionFromText ==
  ASSUME NEW text \in Seq(Tokens)
  PROVE  IsOption(<< Mask >> \o Take(Clean(text), OptionCap))
<1> DEFINE words == Take(Clean(text), OptionCap)
           one == << Mask >>
<1>1. /\ words \in Seq(Tokens) /\ \A p \in 1 .. Len(words) : words[p] # Mask
  <2>1. Clean(text) \in Seq(Tokens) /\ Len(Clean(text)) = Len(text)
        /\ \A i \in 1 .. Len(text) : Clean(text)[i] # Mask
    BY CleanFacts
  <2>2. /\ words \in Seq(Tokens)
        /\ Len(words) = IF OptionCap <= Len(Clean(text)) THEN OptionCap ELSE Len(Clean(text))
        /\ \A i \in 1 .. Len(words) : words[i] = Clean(text)[i]
    BY <2>1, TakeFacts, PromptAssumption
  <2>3. OptionCap \in Nat /\ Len(text) \in Nat
    BY PromptAssumption
  <2> HIDE DEF words
  <2> QED
    BY <2>1, <2>2, <2>3
<1> HIDE DEF words
<1>2. one \in Seq(Tokens) /\ Len(one) = 1 /\ one[1] = Mask
  BY DEF Tokens
<1> HIDE DEF one
<1> DEFINE both == one \o words
<1>3. /\ both \in Seq(Tokens) /\ Len(both) = 1 + Len(words) /\ both[1] = Mask
      /\ \A p \in 1 .. Len(words) : both[1 + p] = words[p]
  <2>1. /\ both \in Seq(Tokens) /\ Len(both) = Len(one) + Len(words)
        /\ \A p \in 1 .. Len(one) : both[p] = one[p]
        /\ \A p \in 1 .. Len(words) : both[Len(one) + p] = words[p]
    <3>1. one \in Seq(Tokens) /\ words \in Seq(Tokens)
      BY <1>1, <1>2
    <3> QED
      BY <3>1, Joins
  <2> HIDE DEF both
  <2> QED
    BY <1>2, <2>1
<1>4. Len(words) \in Nat
  BY <1>1
<1> HIDE DEF both
<1>5. \A p \in 2 .. Len(both) : both[p] # Mask
  <2>1. ASSUME NEW p \in 2 .. Len(both) PROVE both[p] # Mask
    <3>1. p - 1 \in 1 .. Len(words) /\ 1 + (p - 1) = p
      BY <1>3, <1>4
    <3> QED
      BY <1>1, <1>3, <3>1
  <2> QED
    BY <2>1
<1>6. IsOption(both)
  BY <1>3, <1>4, <1>5 DEF IsOption
<1> QED
  BY <1>6 DEF one, words, both

\* The options of a head are options, all of them, in their order.
LEMMA OptionsOfHead ==
  ASSUME NEW q \in QuestionForm
  PROVE  LET opts == Shortened(OptionTokens(q))
         IN  /\ opts \in Seq(Seq(Tokens)) /\ Len(opts) = Len(q.options)
             /\ \A i \in 1 .. Len(opts) : IsOption(opts[i])
<1> DEFINE o == OptionTokens(q)
           n == Len(q.options)
           Opts(s) == s \in Seq(Seq(Tokens)) /\ Len(s) = n /\ \A i \in 1 .. n : IsOption(s[i])
<1>1. q.options \in Seq(Seq(Tokens)) /\ n \in Nat /\ DOMAIN q.options = 1 .. n
      /\ \A i \in 1 .. n : q.options[i] \in Seq(Tokens)
  BY DEF QuestionForm
<1>2. ASSUME NEW f, f = [i \in 1 .. n |-> f[i]], \A i \in 1 .. n : IsOption(f[i])
      PROVE  Opts(f)
  <2>1. \A i \in 1 .. n : f[i] \in Seq(Tokens)
    BY <1>2 DEF IsOption
  <2> HIDE DEF n
  <2>2. f \in [1 .. n -> Seq(Tokens)]
    BY <1>2, <2>1
  <2>3. f \in Seq(Seq(Tokens)) /\ Len(f) = n
    BY <1>1, <2>2
  <2> QED
    BY <1>2, <2>3
<1>3. Opts(o)
  <2> DEFINE e(i) == << Mask >> \o Take(Clean(q.options[i]), OptionCap)
  <2>1. o = [i \in 1 .. n |-> e(i)]
    BY <1>1 DEF OptionTokens
  <2>2. \A i \in 1 .. n : IsOption(e(i))
    BY <1>1, OptionFromText
  <2> HIDE DEF e, o, n, Opts
  <2>3. o = [i \in 1 .. n |-> o[i]] /\ \A i \in 1 .. n : IsOption(o[i])
    BY <2>1, <2>2
  <2> QED
    BY <1>2, <2>3
<1>4. Share(Len(o)) \in Nat /\ Share(Len(o)) >= 1
  <2>0. Len(o) \in Nat
    BY <1>1, <1>3
  <2> HIDE DEF o
  <2>1. Len(o) \in Nat /\ Max({1, Len(o)}) \in Nat \ {0}
    BY <2>0, MaxOfTwo
  <2>2. HeadMaxLen - Reserve \in Int /\ MinOption \in Nat \ {0}
    BY PromptAssumption
  <2> DEFINE d == (HeadMaxLen - Reserve) \div Max({1, Len(o)})
  <2>3. d \in Int
    <3>1. \A a \in Int : \A b \in Nat \ {0} : a \div b \in Int
      OBVIOUS
    <3> QED
      BY <2>1, <2>2, <3>1, Zenon
  <2> HIDE DEF d
  <2>4. Max({MinOption, d}) \in Int /\ Max({MinOption, d}) >= MinOption
    <3>1. MinOption \in Int
      BY <2>2
    <3>2. Max({MinOption, d}) \in {MinOption, d} /\ Max({MinOption, d}) >= MinOption
      BY <2>3, <3>1, MaxOfTwo, Zenon
    <3> QED
      BY <2>3, <3>1, <3>2
  <2> QED
    BY <2>2, <2>4 DEF d, Share
<1>5. CASE HeadRoom(o) < Reserve
  <2> DEFINE e(i) == Take(o[i], Share(Len(o)))
  <2>1. Shortened(o) = [i \in 1 .. n |-> e(i)]
    BY <1>1, <1>3, <1>5 DEF Shortened
  <2>2. \A i \in 1 .. n : IsOption(e(i))
    BY <1>3, <1>4, CutOption
  <2>3. Opts(Shortened(o))
    <3> DEFINE f == Shortened(o)
    <3> HIDE DEF e, o, n, Opts, f
    <3>1. f = [i \in 1 .. n |-> f[i]] /\ \A i \in 1 .. n : IsOption(f[i])
      BY <2>1, <2>2 DEF f
    <3>2. Opts(f)
      BY <1>2, <3>1
    <3> QED
      BY <3>2 DEF f
  <2> QED
    BY <2>3
<1>6. CASE ~(HeadRoom(o) < Reserve)
  <2>1. Opts(Shortened(o))
    BY <1>3, <1>6 DEF Shortened
  <2> QED
    BY <2>1
<1> QED
  BY <1>5, <1>6

\* Where option i starts in the options joined.
Begin(opts, i) == Len(Flat(opts, i - 1))

\* The markers of options in a row are where the options begin.
LEMMA MasksOfOptions ==
  ASSUME NEW opts \in Seq(Seq(Tokens)), \A i \in 1 .. Len(opts) : IsOption(opts[i])
  PROVE  \A n \in 0 .. Len(opts) :
           /\ \A i \in 1 .. n : Begin(opts, i) \in Nat /\ Begin(opts, i) < Len(Flat(opts, n))
           /\ \A p \in 1 .. Len(Flat(opts, n)) :
                Flat(opts, n)[p] = Mask <=> \E i \in 1 .. n : p = Begin(opts, i) + 1
<1> DEFINE Marked(n) ==
             /\ \A i \in 1 .. n : Begin(opts, i) \in Nat /\ Begin(opts, i) < Len(Flat(opts, n))
             /\ \A p \in 1 .. Len(Flat(opts, n)) :
                  Flat(opts, n)[p] = Mask <=> \E i \in 1 .. n : p = Begin(opts, i) + 1
           Good == {n \in Nat : n <= Len(opts) => Marked(n)}
<1>1. 0 \in Good
  <2>1. Len(Flat(opts, 0)) = 0
    BY FlatNothing
  <2> QED
    BY <2>1
<1>2. ASSUME NEW n \in Nat, n \in Good
      PROVE  n + 1 \in Good
  <2> SUFFICES ASSUME n + 1 <= Len(opts) PROVE Marked(n + 1)
    OBVIOUS
  <2>1. n \in 0 .. Len(opts) - 1 /\ n \in 0 .. Len(opts) /\ n + 1 \in 1 .. Len(opts) /\ Len(opts) \in Nat
    OBVIOUS
  <2>2. Flat(opts, n) \in Seq(Tokens) /\ opts[n + 1] \in Seq(Tokens) /\ IsOption(opts[n + 1])
    BY <2>1, FlatType
  <2> DEFINE f == Flat(opts, n)
             o == opts[n + 1]
             g == Flat(opts, n + 1)
  <2>3. g = f \o o
    BY <2>1, <2>2, FlatStep
  <2>4. Marked(n)
    BY <1>2, <2>1
  <2>5. \A i \in 1 .. n : Begin(opts, i) \in Nat /\ Begin(opts, i) < Len(f)
    BY <2>4
  <2>6. \A p \in 1 .. Len(f) : f[p] = Mask <=> \E i \in 1 .. n : p = Begin(opts, i) + 1
    BY <2>4
  <2>7. n + 1 - 1 = n
    OBVIOUS
  <2>8. Begin(opts, n + 1) = Len(f)
    BY <2>7 DEF Begin
  <2> DEFINE B(i) == Begin(opts, i)
  <2>9. g = f \o o /\ f \in Seq(Tokens) /\ o \in Seq(Tokens)
    BY <2>2, <2>3
  <2>10. /\ Len(o) \in Nat /\ Len(o) >= 1 /\ o[1] = Mask /\ \A p \in 2 .. Len(o) : o[p] # Mask
    BY <2>2 DEF IsOption
  <2> SUFFICES /\ \A i \in 1 .. n + 1 : B(i) \in Nat /\ B(i) < Len(g)
               /\ \A p \in 1 .. Len(g) : g[p] = Mask <=> \E i \in 1 .. n + 1 : p = B(i) + 1
    OBVIOUS
  <2> HIDE DEF f, o, g, B
  <2>11. /\ g \in Seq(Tokens) /\ Len(g) = Len(f) + Len(o)
         /\ \A p \in 1 .. Len(f) : g[p] = f[p]
         /\ \A p \in 1 .. Len(o) : g[Len(f) + p] = o[p]
    BY <2>9, Joins
  <2>12. Len(f) \in Nat
    BY <2>9
  <2>13. /\ \A i \in 1 .. n : B(i) \in Nat /\ B(i) < Len(f)
         /\ \A p \in 1 .. Len(f) : f[p] = Mask <=> \E i \in 1 .. n : p = B(i) + 1
         /\ B(n + 1) = Len(f)
    BY <2>5, <2>6, <2>8 DEF B
  <2>14. \A i \in 1 .. n + 1 : B(i) \in Nat /\ B(i) < Len(g)
    <3>1. \A i \in 1 .. n + 1 : i \in 1 .. n \/ i = n + 1
      OBVIOUS
    <3> QED
      BY <2>10, <2>11, <2>12, <2>13, <3>1
  <2>15. ASSUME NEW p \in 1 .. Len(g)
         PROVE  g[p] = Mask <=> \E i \in 1 .. n + 1 : p = B(i) + 1
    <3>1. CASE p \in 1 .. Len(f)
      <4>1. g[p] = f[p] /\ p # B(n + 1) + 1
        BY <2>11, <2>12, <2>13, <3>1
      <4>2. (\E i \in 1 .. n + 1 : p = B(i) + 1) <=> \E i \in 1 .. n : p = B(i) + 1
        <5>1. \A i : i \in 1 .. n + 1 <=> (i \in 1 .. n \/ i = n + 1)
          OBVIOUS
        <5> QED
          BY <4>1, <5>1, Zenon
      <4> QED
        BY <2>13, <3>1, <4>1, <4>2, Zenon
    <3>2. CASE p = Len(f) + 1
      <4>1. g[p] = o[1]
        BY <2>10, <2>11, <2>12, <3>2
      <4>2. n + 1 \in 1 .. n + 1
        OBVIOUS
      <4> QED
        BY <2>10, <2>13, <3>2, <4>1, <4>2
    <3>3. CASE p > Len(f) + 1
      <4>0. p - Len(f) \in 2 .. Len(o) /\ Len(f) + (p - Len(f)) = p
        BY <2>10, <2>11, <2>12, <3>3
      <4>1. PICK r \in 2 .. Len(o) : Len(f) + r = p
        BY <4>0, Zenon
      <4>2. g[p] # Mask
        <5>1. r \in 1 .. Len(o)
          BY <2>10, <4>1
        <5>2. g[Len(f) + r] = o[r]
          BY <2>11, <5>1, Zenon
        <5> QED
          BY <2>10, <4>1, <5>2, Zenon
      <4>3. \A i \in 1 .. n + 1 : B(i) <= Len(f) /\ B(i) \in Nat
        <5>1. \A i \in 1 .. n + 1 : i \in 1 .. n \/ i = n + 1
          OBVIOUS
        <5> QED
          BY <2>12, <2>13, <5>1
      <4> QED
        BY <2>12, <3>3, <4>2, <4>3
    <3> QED
      BY <2>12, <3>1, <3>2, <3>3
  <2> QED
    BY <2>14, <2>15
<1> HIDE DEF Good
<1>3. Nat \subseteq Good
  BY <1>1, <1>2, Induct
<1>4. \A n \in 0 .. Len(opts) : Marked(n)
  <2> HIDE DEF Marked
  <2> QED
    BY <1>3 DEF Good
<1> QED
  BY <1>4

\* Where the mask tokens of a concatenation are.
LEMMA JoinMask ==
  \A s, t \in Seq(Tokens) : \A p \in 1 .. Len(s) + Len(t) :
    (s \o t)[p] = Mask <=>
      \/ p \in 1 .. Len(s) /\ s[p] = Mask
      \/ \E r \in 1 .. Len(t) : p = Len(s) + r /\ t[r] = Mask
<1> SUFFICES ASSUME NEW s \in Seq(Tokens), NEW t \in Seq(Tokens), NEW p \in 1 .. Len(s) + Len(t)
             PROVE  (s \o t)[p] = Mask <=>
                      \/ p \in 1 .. Len(s) /\ s[p] = Mask
                      \/ \E r \in 1 .. Len(t) : p = Len(s) + r /\ t[r] = Mask
  OBVIOUS
<1> DEFINE g == s \o t
<1>1. /\ Len(s) \in Nat /\ Len(t) \in Nat
      /\ \A r \in 1 .. Len(s) : g[r] = s[r]
      /\ \A r \in 1 .. Len(t) : g[Len(s) + r] = t[r]
  BY Joins
<1> HIDE DEF g
<1>2. CASE p \in 1 .. Len(s)
  <2>1. \A r \in 1 .. Len(t) : p # Len(s) + r
    BY <1>1, <1>2
  <2> QED
    BY <1>1, <1>2, <2>1, Zenon DEF g
<1>3. CASE p \notin 1 .. Len(s)
  <2>1. p - Len(s) \in 1 .. Len(t) /\ p = Len(s) + (p - Len(s))
    BY <1>1, <1>3
  <2>2. PICK r \in 1 .. Len(t) : p = Len(s) + r
    BY <2>1, Zenon
  <2>3. g[p] = t[r]
    BY <1>1, <2>2, Zenon
  <2>4. \A x \in 1 .. Len(t) : p = Len(s) + x => x = r
    BY <1>1, <2>2
  <2> QED
    BY <1>3, <2>2, <2>3, <2>4, Zenon DEF g
<1> QED
  BY <1>2, <1>3

\* Two texts without a mask token, joined, hold none.
LEMMA NoMaskJoin ==
  \A s, t \in Seq(Tokens) : NoMask(s) /\ NoMask(t) => NoMask(s \o t)
<1> SUFFICES ASSUME NEW s \in Seq(Tokens), NEW t \in Seq(Tokens), NoMask(s), NoMask(t)
             PROVE  NoMask(s \o t)
  OBVIOUS
<1>1. Len(s \o t) = Len(s) + Len(t)
  BY Joins
<1>2. ASSUME NEW p \in 1 .. Len(s) + Len(t)
      PROVE  (s \o t)[p] # Mask
  <2>1. (s \o t)[p] = Mask =>
          \/ p \in 1 .. Len(s) /\ s[p] = Mask
          \/ \E r \in 1 .. Len(t) : p = Len(s) + r /\ t[r] = Mask
    BY JoinMask, SMT
  <2> QED
    BY <2>1, Zenon DEF NoMask
<1> QED
  BY <1>1, <1>2, Zenon DEF NoMask

\* A word that is not the mask token is a text without one.
LEMMA NoMaskWord ==
  \A w \in Tokens \ {Mask} : << w >> \in Seq(Tokens) /\ Len(<< w >>) = 1 /\ NoMask(<< w >>)
  BY DEF NoMask

\* A text behind a word, and as much of it as there is room for.
LEMMA NoMaskText ==
  ASSUME NEW text \in Seq(Tokens)
  PROVE  Clean(text) \in Seq(Tokens) /\ Len(Clean(text)) = Len(text) /\ NoMask(Clean(text))
  BY CleanFacts, Zenon DEF NoMask

\* A shortened text holds no mask token that the text did not hold.
LEMMA NoMaskTake ==
  ASSUME NEW s \in Seq(Tokens), NoMask(s), NEW n \in Nat
  PROVE  Take(s, n) \in Seq(Tokens) /\ NoMask(Take(s, n))
<1>1. /\ Take(s, n) \in Seq(Tokens)
      /\ Len(Take(s, n)) = IF n <= Len(s) THEN n ELSE Len(s)
      /\ \A i \in 1 .. Len(Take(s, n)) : Take(s, n)[i] = s[i]
  BY TakeFacts
<1>2. Len(s) \in Nat /\ \A i \in 1 .. Len(Take(s, n)) : i \in 1 .. Len(s)
  BY <1>1
<1> QED
  BY <1>1, <1>2, Zenon DEF NoMask

----------------------------------------------------------------------------
\* What a prefix is: its mask tokens are the markers of its options, in their order.
IsPrefixOf(prefix_, n) ==
  /\ prefix_.ids \in Seq(Tokens)
  /\ prefix_.markers \in Seq(Nat) /\ Len(prefix_.markers) = n
  /\ \A p \in 1 .. Len(prefix_.ids) :
       prefix_.ids[p] = Mask <=> \E i \in 1 .. n : p = prefix_.markers[i]
  /\ \A i \in 1 .. n : prefix_.markers[i] \in 1 .. Len(prefix_.ids)
  /\ \A i \in 2 .. n : prefix_.markers[i - 1] < prefix_.markers[i]

\* build_prefix: the mask tokens of the prefix are its markers, one for each option.
LEMMA PrefixOfQuestion ==
  ASSUME NEW q \in QuestionForm
  PROVE  IsPrefixOf(BuildPrefix(q), Len(q.options))
<1> DEFINE opts == Shortened(OptionTokens(q))
           room == Max({MinHead, HeadRoom(opts)})
           head == Take(<< q.type >> \o Clean(q.ins), room)
           start == << Cls >> \o head \o << Sep >>
           flat == FlattenSeq(opts)
           n == Len(q.options)
           ids == start \o flat \o << Sep >>
           at_(i) == 2 + Len(head) + Begin(opts, i) + 1
           P == BuildPrefix(q)
<1>1. /\ q.type \in Tokens \ {Mask} /\ q.ins \in Seq(Tokens) /\ n \in Nat
  BY DEF QuestionForm
<1>2. /\ opts \in Seq(Seq(Tokens)) /\ Len(opts) = n
      /\ \A i \in 1 .. Len(opts) : IsOption(opts[i])
  BY OptionsOfHead
<1>3. P.ids = ids /\ P.markers = [i \in 1 .. n |-> at_(i)]
  BY <1>2 DEF BuildPrefix, Begin, Flat
<1> HIDE DEF opts
<1>4. flat = Flat(opts, n) /\ flat \in Seq(Tokens) /\ Len(flat) \in Nat
  BY <1>2, FlatWhole
<1>5. /\ \A i \in 1 .. n : Begin(opts, i) \in Nat /\ Begin(opts, i) < Len(flat)
      /\ \A p \in 1 .. Len(flat) : flat[p] = Mask <=> \E i \in 1 .. n : p = Begin(opts, i) + 1
  <2>1. n \in 0 .. Len(opts)
    BY <1>1, <1>2
  <2> HIDE DEF flat, n
  <2> QED
    BY <1>2, <1>4, <2>1, MasksOfOptions
<1>6. \A i \in 2 .. n : Begin(opts, i - 1) < Begin(opts, i)
  <2> SUFFICES ASSUME NEW i \in 2 .. n PROVE Begin(opts, i - 1) < Begin(opts, i)
    OBVIOUS
  <2>1. i - 1 \in 0 .. Len(opts) /\ i - 1 \in 1 .. i - 1
    BY <1>1, <1>2
  <2>2. Begin(opts, i - 1) < Len(Flat(opts, i - 1))
    BY <1>2, <2>1, MasksOfOptions
  <2> QED
    BY <2>2 DEF Begin
<1>7. room \in Nat
  <2>1. MinHead \in Nat /\ MinHead \in Int /\ HeadRoom(opts) \in Int
    BY <1>4, PromptAssumption DEF HeadRoom
  <2>2. room \in {MinHead, HeadRoom(opts)} /\ room >= MinHead
    BY <2>1, MaxOfTwo, Zenon
  <2> HIDE DEF room
  <2> QED
    BY <2>1, <2>2
<1>8. head \in Seq(Tokens) /\ NoMask(head)
  <2> HIDE DEF room
  <2>1. << q.type >> \in Seq(Tokens) /\ NoMask(<< q.type >>)
    BY <1>1, NoMaskWord, Zenon
  <2>2. Clean(q.ins) \in Seq(Tokens) /\ NoMask(Clean(q.ins))
    BY <1>1, NoMaskText, Zenon
  <2> DEFINE words == << q.type >> \o Clean(q.ins)
  <2>3. words \in Seq(Tokens) /\ NoMask(words)
    BY <2>1, <2>2, Joins, NoMaskJoin
  <2> HIDE DEF words
  <2>4. Take(words, room) \in Seq(Tokens) /\ NoMask(Take(words, room))
    BY <1>7, <2>3, NoMaskTake
  <2> QED
    BY <2>4 DEF words
<1> HIDE DEF head
<1>9. start \in Seq(Tokens) /\ NoMask(start) /\ Len(start) = 2 + Len(head) /\ Len(head) \in Nat
  <2> DEFINE c == << Cls >>
             d == << Sep >>
             e == c \o head
             f == e \o d
  <2>1. /\ c \in Seq(Tokens) /\ NoMask(c) /\ Len(c) = 1
        /\ d \in Seq(Tokens) /\ NoMask(d) /\ Len(d) = 1
    <3>1. Cls \in Tokens \ {Mask} /\ Sep \in Tokens \ {Mask}
      BY DEF Tokens, Cls, Sep, Mask
    <3> QED
      BY <3>1, NoMaskWord
  <2> HIDE DEF c, d
  <2>2. e \in Seq(Tokens) /\ NoMask(e) /\ Len(e) = 1 + Len(head)
    <3>1. c \in Seq(Tokens) /\ head \in Seq(Tokens)
      BY <1>8, <2>1
    <3>2. e \in Seq(Tokens) /\ Len(e) = Len(c) + Len(head)
      BY <3>1, Joins
    <3>3. NoMask(e)
      BY <1>8, <2>1, <3>1, NoMaskJoin
    <3> QED
      BY <2>1, <3>2, <3>3
  <2> HIDE DEF e
  <2>3. f \in Seq(Tokens) /\ NoMask(f) /\ Len(f) = 1 + Len(head) + 1
    BY <2>1, <2>2, Joins, NoMaskJoin
  <2> HIDE DEF f
  <2>4. Len(head) \in Nat
    BY <1>8
  <2> QED
    BY <2>3, <2>4 DEF f, e, d, c
<1> HIDE DEF start, flat
<1> DEFINE body == start \o flat
<1>10. /\ body \in Seq(Tokens) /\ Len(body) = Len(start) + Len(flat)
       /\ \A p \in 1 .. Len(body) :
            body[p] = Mask <=> \E r \in 1 .. Len(flat) : p = Len(start) + r /\ flat[r] = Mask
  <2>1. body \in Seq(Tokens) /\ Len(body) = Len(start) + Len(flat)
    BY <1>4, <1>9, Joins
  <2>2. ASSUME NEW p \in 1 .. Len(body)
        PROVE  body[p] = Mask <=> \E r \in 1 .. Len(flat) : p = Len(start) + r /\ flat[r] = Mask
    <3>1. (start \o flat)[p] = Mask <=>
            \/ p \in 1 .. Len(start) /\ start[p] = Mask
            \/ \E r \in 1 .. Len(flat) : p = Len(start) + r /\ flat[r] = Mask
      <4>1. start \in Seq(Tokens) /\ flat \in Seq(Tokens) /\ p \in 1 .. Len(start) + Len(flat)
        BY <1>4, <1>9, <2>1, <2>2
      <4> QED
        BY <4>1, JoinMask
    <3> QED
      BY <1>9, <3>1, Zenon DEF NoMask
  <2> QED
    BY <2>1, <2>2
<1> HIDE DEF body
<1>11. /\ ids \in Seq(Tokens) /\ Len(ids) = Len(body) + 1
       /\ \A p \in 1 .. Len(ids) :
            ids[p] = Mask <=> p \in 1 .. Len(body) /\ body[p] = Mask
  <2> DEFINE d == << Sep >>
  <2>0. d \in Seq(Tokens) /\ NoMask(d) /\ Len(d) = 1
    <3>1. Sep \in Tokens \ {Mask}
      BY DEF Tokens, Sep, Mask
    <3> QED
      BY <3>1, NoMaskWord
  <2>00. ids = body \o d
    BY DEF body
  <2> HIDE DEF d, ids
  <2>1. ids \in Seq(Tokens) /\ Len(ids) = Len(body) + 1
    <3>1. body \in Seq(Tokens) /\ d \in Seq(Tokens)
      BY <1>10, <2>0
    <3>2. body \o d \in Seq(Tokens) /\ Len(body \o d) = Len(body) + Len(d)
      BY <3>1, Joins
    <3> QED
      BY <2>0, <2>00, <3>2
  <2>2. ASSUME NEW p \in 1 .. Len(ids)
        PROVE  ids[p] = Mask <=> p \in 1 .. Len(body) /\ body[p] = Mask
    <3>1. (body \o d)[p] = Mask <=>
            \/ p \in 1 .. Len(body) /\ body[p] = Mask
            \/ \E r \in 1 .. Len(d) : p = Len(body) + r /\ d[r] = Mask
      <4>1. body \in Seq(Tokens) /\ d \in Seq(Tokens) /\ p \in 1 .. Len(body) + Len(d)
        BY <1>10, <2>0, <2>1, <2>2
      <4> QED
        BY <4>1, JoinMask
    <3> QED
      BY <2>0, <2>00, <3>1, Zenon DEF NoMask
  <2> QED
    BY <2>1, <2>2
<1> HIDE DEF ids
<1>12. \A i \in 1 .. n : at_(i) \in Nat /\ at_(i) = Len(start) + (Begin(opts, i) + 1)
                         /\ Begin(opts, i) + 1 \in 1 .. Len(flat)
  <2> HIDE DEF n
  <2> QED
    BY <1>4, <1>5, <1>9
<1>13. /\ P.markers \in Seq(Nat) /\ Len(P.markers) = n
       /\ \A i \in 1 .. n : P.markers[i] = at_(i)
  <2> HIDE DEF n, at_, P
  <2>1. P.markers \in [1 .. n -> Nat] /\ \A i \in 1 .. n : P.markers[i] = at_(i)
    BY <1>3, <1>12
  <2> QED
    BY <1>1, <2>1
<1> HIDE DEF P
<1>14. ASSUME NEW i \in 1 .. n
       PROVE  at_(i) \in 1 .. Len(ids) /\ at_(i) \in 1 .. Len(body)
  BY <1>4, <1>9, <1>10, <1>11, <1>12
<1>15. ASSUME NEW p \in 1 .. Len(ids)
       PROVE  ids[p] = Mask <=> \E i \in 1 .. n : p = at_(i)
  <2> HIDE DEF n, at_
  <2>1. ids[p] = Mask <=>
          p \in 1 .. Len(body) /\ \E r \in 1 .. Len(flat) : p = Len(start) + r /\ flat[r] = Mask
    BY <1>10, <1>11, Zenon
  <2>2. ASSUME NEW r \in 1 .. Len(flat), p = Len(start) + r, flat[r] = Mask
        PROVE  \E i \in 1 .. n : p = at_(i)
    <3>1. PICK i \in 1 .. n : r = Begin(opts, i) + 1
      BY <1>5, <2>2
    <3> QED
      BY <1>12, <2>2, <3>1
  <2>3. ASSUME NEW i \in 1 .. n, p = at_(i)
        PROVE  /\ p \in 1 .. Len(body)
               /\ \E r \in 1 .. Len(flat) : p = Len(start) + r /\ flat[r] = Mask
    <3>1. p = Len(start) + (Begin(opts, i) + 1) /\ Begin(opts, i) + 1 \in 1 .. Len(flat)
      BY <1>12, <2>3
    <3>2. flat[Begin(opts, i) + 1] = Mask
      BY <1>5, <3>1
    <3> QED
      BY <1>14, <2>3, <3>1, <3>2
  <2> QED
    BY <2>1, <2>2, <2>3, Zenon
<1>16. ASSUME NEW i \in 2 .. n
       PROVE  P.markers[i - 1] < P.markers[i]
  <2>1. i \in 1 .. n /\ i - 1 \in 1 .. n
    BY <1>1
  <2>2. P.markers[i] = 2 + Len(head) + Begin(opts, i) + 1
        /\ P.markers[i - 1] = 2 + Len(head) + Begin(opts, i - 1) + 1
    BY <1>13, <2>1
  <2>3. Begin(opts, i) \in Nat /\ Begin(opts, i - 1) \in Nat /\ Len(head) \in Nat
        /\ Begin(opts, i - 1) < Begin(opts, i)
    BY <1>5, <1>6, <1>9, <2>1
  <2> QED
    BY <2>2, <2>3
<1> HIDE DEF at_, n
<1>17. IsPrefixOf(P, n)
  <2>1. P.ids = ids /\ P.markers \in Seq(Nat) /\ Len(P.markers) = n
        /\ \A i \in 1 .. n : P.markers[i] = at_(i)
    BY <1>3, <1>13
  <2>2. \A p \in 1 .. Len(ids) : ids[p] = Mask <=> \E i \in 1 .. n : p = P.markers[i]
    BY <1>15, <2>1
  <2>3. \A i \in 1 .. n : P.markers[i] \in 1 .. Len(ids)
    BY <1>14, <2>1
  <2> QED
    BY <1>11, <1>16, <2>1, <2>2, <2>3, Zenon DEF IsPrefixOf
<1> QED
  BY <1>17 DEF P, n

\* The recursive definition in Within().
Counts(f, m, n) ==
  f = [k \in 0 .. n |-> IF k = 0 THEN << >>
                        ELSE IF m[k] <= MaxLen THEN Append(f[k - 1], m[k]) ELSE f[k - 1]]

\* The recursion that drops the markers behind the cut has a solution, for every n.
LEMMA CountsExists ==
  ASSUME NEW m
  PROVE  \A n \in Nat : \E f : Counts(f, m, n)
<1> DEFINE Good == {n \in Nat : \E f : Counts(f, m, n)}
<1>1. 0 \in Good
  <2>1. Counts([k \in 0 .. 0 |-> << >>], m, 0)
    BY DEF Counts
  <2> QED
    BY <2>1
<1>2. ASSUME NEW n \in Nat, n \in Good
      PROVE  n + 1 \in Good
  <2>1. PICK f : Counts(f, m, n)
    BY <1>2
  <2> DEFINE next(h, k) == IF k = 0 THEN << >>
                           ELSE IF m[k] <= MaxLen THEN Append(h[k - 1], m[k]) ELSE h[k - 1]
             g == [k \in 0 .. n + 1 |-> IF k = n + 1 THEN next(f, k) ELSE f[k]]
  <2>0. \A h, k : next(h, k) = IF k = 0 THEN << >>
                           ELSE IF m[k] <= MaxLen THEN Append(h[k - 1], m[k]) ELSE h[k - 1]
    OBVIOUS
  <2>2. \A h, i, k : k \in Int /\ (k # 0 => h[k - 1] = i[k - 1]) => next(h, k) = next(i, k)
    BY Zenon
  <2>3. f = [k \in 0 .. n |-> next(f, k)]
    BY <2>1, Zenon DEF Counts
  <2> HIDE DEF next
  <2>4. \A k \in 0 .. n : f[k] = next(f, k)
    BY <2>3
  <2>5. ASSUME NEW k \in 0 .. n + 1
        PROVE  g[k] = next(g, k)
    <3>1. CASE k = n + 1
      <4>1. g[k] = next(f, k)
        BY <3>1
      <4>2. k \in Int /\ (k # 0 => f[k - 1] = g[k - 1])
        BY <3>1
      <4> HIDE DEF g
      <4> QED
        BY <2>2, <4>1, <4>2
    <3>2. CASE k # n + 1
      <4>1. g[k] = f[k] /\ k \in 0 .. n
        BY <3>2
      <4>2. k \in Int /\ (k # 0 => f[k - 1] = g[k - 1])
        BY <3>2
      <4> HIDE DEF g
      <4>3. next(f, k) = next(g, k)
        BY <2>2, <4>2
      <4> QED
        BY <2>4, <4>1, <4>3, Zenon
    <3> QED
      BY <3>1, <3>2
  <2>6. g = [k \in 0 .. n + 1 |-> g[k]]
    OBVIOUS
  <2> HIDE DEF g
  <2>7. g = [k \in 0 .. n + 1 |-> next(g, k)]
    BY <2>5, <2>6
  <2>8. Counts(g, m, n + 1)
    BY <2>7, Zenon DEF Counts, next
  <2> QED
    BY <2>8
<1> HIDE DEF Good
<1>3. Nat \subseteq Good
  BY <1>1, <1>2, Induct
<1> QED
  BY <1>3 DEF Good

\* Within() drops the markers past the limit: if it keeps their number, it keeps them.
LEMMA WithinFacts ==
  ASSUME NEW m \in Seq(Nat)
  PROVE  /\ Within(m) \in Seq(Nat)
         /\ Len(Within(m)) <= Len(m)
         /\ Len(Within(m)) = Len(m) => \A i \in 1 .. Len(m) : Within(m)[i] = m[i] /\ m[i] <= MaxLen
<1>0. MaxLen \in Nat /\ Len(m) \in Nat
  BY PromptAssumption
<1> DEFINE n == Len(m)
<1>1. PICK f : Counts(f, m, n) /\ Within(m) = f[n]
  <2> DEFINE Def(f) == f = [k \in 0 .. n |->
                 IF k = 0 THEN << >>
                 ELSE IF m[k] <= MaxLen THEN Append(f[k - 1], m[k]) ELSE f[k - 1]]
  <2>1. Within(m) = (CHOOSE f : Def(f))[n]
    BY Zenon DEF Within
  <2>2. \E f : Def(f)
    <3> HIDE DEF Def
    <3>1. PICK f : Counts(f, m, n)
      BY <1>0, CountsExists
    <3>2. Def(f)
      BY <3>1, Zenon DEF Counts, Def
    <3> QED
      BY <3>2
  <2> HIDE DEF Def
  <2>3. Def(CHOOSE f : Def(f))
    BY <2>2, Zenon
  <2> QED
    BY <2>1, <2>3, Zenon DEF Def, Counts
<1> HIDE DEF n
<1> DEFINE next(h, k) == IF k = 0 THEN << >>
                         ELSE IF m[k] <= MaxLen THEN Append(h[k - 1], m[k]) ELSE h[k - 1]
<1>2. f = [k \in 0 .. n |-> next(f, k)]
  BY <1>1, Zenon DEF Counts
<1>3. \A k \in 0 .. n : f[k] = next(f, k)
  <2> HIDE DEF next
  <2> QED
    BY <1>2
<1> DEFINE Kept(k) ==
             /\ f[k] \in Seq(Nat)
             /\ Len(f[k]) <= k
             /\ Len(f[k]) = k => \A i \in 1 .. k : f[k][i] = m[i] /\ m[i] <= MaxLen
           Good == {k \in Nat : k <= n => Kept(k)}
<1>4. 0 \in Good
  <2>1. f[0] = << >>
    BY <1>0, <1>3 DEF n
  <2>2. << >> \in Seq(Nat) /\ Len(<< >>) = 0
    OBVIOUS
  <2>3. Kept(0)
    BY <2>1, <2>2
  <2> HIDE DEF Kept
  <2> QED
    BY <2>3
<1>5. ASSUME NEW k \in Nat, k \in Good
      PROVE  k + 1 \in Good
  <2> SUFFICES ASSUME k + 1 <= n PROVE Kept(k + 1)
    OBVIOUS
  <2>1. Kept(k)
    BY <1>0, <1>5 DEF n
  <2>2. k + 1 \in 0 .. n /\ k + 1 # 0 /\ k + 1 - 1 = k /\ k + 1 \in 1 .. Len(m) /\ m[k + 1] \in Nat
    BY <1>0 DEF n
  <2>3. f[k + 1] = IF m[k + 1] <= MaxLen THEN Append(f[k], m[k + 1]) ELSE f[k]
    <3> DEFINE step(i, j) == IF m[i] <= MaxLen THEN Append(f[j], m[i]) ELSE f[j]
    <3>1. ASSUME NEW j, NEW i, i # 0, i - 1 = j
          PROVE  next(f, i) = step(i, j)
      BY <3>1, Zenon
    <3> HIDE DEF next, step
    <3>2. f[k + 1] = next(f, k + 1)
      BY <1>3, <2>2
    <3>3. next(f, k + 1) = step(k + 1, k)
      BY <2>2, <3>1
    <3> QED
      BY <3>2, <3>3, Zenon DEF step
  <2> DEFINE a == f[k]
             b == f[k + 1]
             x == m[k + 1]
  <2>4. a \in Seq(Nat) /\ Len(a) <= k /\ (Len(a) = k => \A i \in 1 .. k : a[i] = m[i] /\ m[i] <= MaxLen)
    BY <2>1
  <2> SUFFICES /\ b \in Seq(Nat) /\ Len(b) <= k + 1
               /\ Len(b) = k + 1 => \A i \in 1 .. k + 1 : b[i] = m[i] /\ m[i] <= MaxLen
    BY Zenon
  <2>5. b = IF x <= MaxLen THEN Append(a, x) ELSE a
    BY <2>3, Zenon
  <2>6. x \in Nat
    BY <2>2
  <2> HIDE DEF a, b
  <2>7. CASE x <= MaxLen
    <3> HIDE DEF x
    <3>1. /\ b \in Seq(Nat) /\ Len(b) = Len(a) + 1 /\ b[Len(a) + 1] = x
          /\ \A i \in 1 .. Len(a) : b[i] = a[i]
      BY <2>4, <2>5, <2>6, <2>7
    <3>2. Len(a) \in Nat
      BY <2>4
    <3>3. ASSUME Len(b) = k + 1, NEW i \in 1 .. k + 1
          PROVE  b[i] = m[i] /\ m[i] <= MaxLen
      <4>1. Len(a) = k
        BY <3>1, <3>2, <3>3
      <4>2. CASE i = k + 1
        BY <2>7, <3>1, <4>1, <4>2 DEF x
      <4>3. CASE i # k + 1
        <5>1. i \in 1 .. k
          BY <4>3
        <5> QED
          BY <2>4, <3>1, <4>1, <5>1
      <4> QED
        BY <4>2, <4>3
    <3> QED
      BY <2>4, <3>1, <3>2, <3>3
  <2>8. CASE ~(x <= MaxLen)
    <3>1. b = a
      BY <2>5, <2>8, Zenon
    <3>2. Len(a) \in Nat
      BY <2>4
    <3> QED
      BY <2>4, <3>1, <3>2
  <2> QED
    BY <2>7, <2>8
<1> HIDE DEF Good
<1>6. Nat \subseteq Good
  BY <1>4, <1>5, Induct
<1>7. Kept(n)
  <2> HIDE DEF Kept
  <2> QED
    BY <1>0, <1>6 DEF Good, n
<1> QED
  BY <1>1, <1>7 DEF n

\* A sequence ends in a part of it.
LEMMA Ending ==
  ASSUME NEW s \in Seq(Tokens), NEW t \in Seq(Tokens)
  PROVE  IsSuffix(t, s \o t)
<1> DEFINE u == s \o t
           n == Len(t)
           k == Len(s)
<1>1. /\ u \in Seq(Tokens) /\ Len(u) = k + n /\ k \in Nat /\ n \in Nat
      /\ \A p \in 1 .. n : u[k + p] = t[p]
  BY Joins
<1> HIDE DEF u
<1>2. /\ Reverse(t) = [i \in 1 .. n |-> t[n - i + 1]]
      /\ Reverse(u) = [i \in 1 .. k + n |-> u[k + n - i + 1]]
  BY <1>1 DEF Reverse
<1> DEFINE rt == Reverse(t)
           ru == Reverse(u)
<1>3. rt \in Seq(Tokens) /\ Len(rt) = n /\ \A i \in 1 .. n : rt[i] = t[n - i + 1]
  <2>1. \A i \in 1 .. n : n - i + 1 \in 1 .. n /\ t[n - i + 1] \in Tokens
    BY <1>1
  <2>2. rt \in [1 .. n -> Tokens] /\ \A i \in 1 .. n : rt[i] = t[n - i + 1]
    BY <1>2, <2>1
  <2> HIDE DEF rt, n
  <2> QED
    BY <1>1, <2>2
<1>4. ru \in Seq(Tokens) /\ Len(ru) = k + n /\ \A i \in 1 .. k + n : ru[i] = u[k + n - i + 1]
  <2>1. \A i \in 1 .. k + n : k + n - i + 1 \in 1 .. k + n /\ u[k + n - i + 1] \in Tokens
    BY <1>1
  <2>2. ru \in [1 .. k + n -> Tokens] /\ \A i \in 1 .. k + n : ru[i] = u[k + n - i + 1]
    BY <1>2, <2>1
  <2> DEFINE m == k + n
  <2>3. m \in Nat /\ ru \in [1 .. m -> Tokens]
    BY <1>1, <2>2
  <2> HIDE DEF ru, n, k, m
  <2>4. ru \in Seq(Tokens) /\ Len(ru) = m
    BY <2>3
  <2> QED
    BY <2>2, <2>4 DEF m
<1>5. \A i \in 1 .. n : rt[i] = ru[i]
  <2> SUFFICES ASSUME NEW i \in 1 .. n PROVE rt[i] = ru[i]
    OBVIOUS
  <2> HIDE DEF rt, ru, n, k
  <2>1. n - i + 1 \in 1 .. n /\ k + n - i + 1 = k + (n - i + 1) /\ i \in 1 .. k + n
    BY <1>1
  <2>2. u[k + (n - i + 1)] = t[n - i + 1]
    BY <1>1, <2>1
  <2> QED
    BY <1>3, <1>4, <2>1, <2>2
<1> HIDE DEF rt, ru, n, k
<1>6. SubSeq(rt, 1, n) = SubSeq(ru, 1, n)
  <2>1. n \in 0 .. Len(rt) /\ n \in 0 .. Len(ru)
    BY <1>1, <1>3, <1>4
  <2>2. /\ SubSeq(rt, 1, n) \in Seq(Tokens) /\ Len(SubSeq(rt, 1, n)) = n
        /\ \A i \in 1 .. n : SubSeq(rt, 1, n)[i] = rt[i]
    BY <1>3, <2>1
  <2>3. /\ SubSeq(ru, 1, n) \in Seq(Tokens) /\ Len(SubSeq(ru, 1, n)) = n
        /\ \A i \in 1 .. n : SubSeq(ru, 1, n)[i] = ru[i]
    BY <1>4, <2>1
  <2> DEFINE a == SubSeq(rt, 1, n)
             b == SubSeq(ru, 1, n)
  <2>4. \A i \in 1 .. n : a[i] = b[i]
    BY <1>5, <2>2, <2>3
  <2>5. a \in Seq(Tokens) /\ b \in Seq(Tokens) /\ Len(a) = n /\ Len(b) = n
    BY <2>2, <2>3
  <2> HIDE DEF a, b
  <2>6. a = b
    BY <2>4, <2>5, SeqEqual
  <2> QED
    BY <2>6 DEF a, b
<1>7. IsPrefix(rt, ru)
  BY <1>1, <1>3, <1>4, <1>6 DEF IsPrefix
<1> QED
  BY <1>7 DEF IsSuffix, rt, ru, u

\* As much of a sequence as it has is the sequence.
LEMMA TakeWhole ==
  ASSUME NEW S, NEW s \in Seq(S), NEW n \in Nat, Len(s) <= n
  PROVE  Take(s, n) = s
<1>1. Min({n, Len(s)}) = Len(s)
  BY MinOfTwo
<1>2. SubSeq(s, 1, Len(s)) = s
  OBVIOUS
<1> QED
  BY <1>1, <1>2 DEF Take

----------------------------------------------------------------------------
\* What a prompt is: it keeps to the limit, its mask tokens are its markers if it has
\* kept all of them, and it is full unless it ends in the whole state.
IsPrompt(prompt, n, state) ==
  /\ prompt.ids \in Seq(Tokens) /\ Len(prompt.ids) <= MaxLen
  /\ prompt.markers \in Seq(Nat) /\ Len(prompt.markers) <= n
  /\ Len(prompt.markers) = n =>
       /\ ToSet(prompt.markers) = {p \in DOMAIN prompt.ids : prompt.ids[p] = Mask}
       /\ \A m \in 2 .. n : prompt.markers[m - 1] < prompt.markers[m]
  /\ Len(prompt.ids) = MaxLen \/ IsSuffix(Clean(state) \o << Sep >>, prompt.ids)

\* build_sequence: from a right prefix comes a right prompt, whatever the state.
LEMMA PromptOfPrefix ==
  ASSUME NEW P, NEW n \in Nat, IsPrefixOf(P, n), NEW state \in Seq(Tokens)
  PROVE  IsPrompt(Sequence(P, state), n, state)
<1> DEFINE room == StateRoom(P)
           words == Take(Clean(state), room)
           body == P.ids \o words
           end == << Sep >>
           full == body \o end
           ids == Take(full, MaxLen)
           markers == Within(P.markers)
           S == Sequence(P, state)
<1>1. S.ids = ids /\ S.markers = markers
  BY DEF Sequence
<1>2. /\ P.ids \in Seq(Tokens) /\ Len(P.ids) \in Nat /\ P.markers \in Seq(Nat)
      /\ Len(P.markers) = n
  BY DEF IsPrefixOf
<1>3. MaxLen \in Nat
  BY PromptAssumption
<1>4. room \in Nat /\ (MaxLen - Len(P.ids) - 1 > 0 => room = MaxLen - Len(P.ids) - 1)
  <2> DEFINE d == MaxLen - Len(P.ids) - 1
  <2>1. d \in Int /\ 0 \in Int
    BY <1>2, <1>3
  <2> HIDE DEF d
  <2>2. Max({0, d}) \in {0, d} /\ Max({0, d}) >= 0 /\ Max({0, d}) >= d
    BY <2>1, MaxOfTwo
  <2>3. room = Max({0, d})
    BY DEF StateRoom, d
  <2> HIDE DEF room
  <2>4. room \in Nat /\ (d > 0 => room = d)
    BY <2>1, <2>2, <2>3
  <2> QED
    BY <2>4 DEF d
<1> HIDE DEF room
<1>5. /\ Clean(state) \in Seq(Tokens) /\ NoMask(Clean(state)) /\ Len(Clean(state)) \in Nat
  <2>1. Clean(state) \in Seq(Tokens) /\ NoMask(Clean(state))
    BY NoMaskText, Zenon
  <2> HIDE DEF NoMask
  <2> QED
    BY <2>1
<1>6. /\ words \in Seq(Tokens) /\ NoMask(words)
      /\ Len(words) = IF room <= Len(Clean(state)) THEN room ELSE Len(Clean(state))
  BY <1>4, <1>5, NoMaskTake, TakeFacts
<1>7. /\ end \in Seq(Tokens) /\ NoMask(end) /\ Len(end) = 1
  <2>1. Sep \in Tokens \ {Mask}
    BY DEF Tokens, Sep, Mask
  <2> QED
    BY <2>1, NoMaskWord
<1>8. ASSUME room > Len(Clean(state))
      PROVE  words = Clean(state)
  <2>1. Len(Clean(state)) <= room
    BY <1>4, <1>5, <1>8
  <2> QED
    BY <1>4, <1>5, <2>1, TakeWhole
<1> HIDE DEF words, end
<1>9. body \in Seq(Tokens) /\ Len(body) = Len(P.ids) + Len(words)
  <2>1. P.ids \in Seq(Tokens) /\ words \in Seq(Tokens)
    BY <1>2, <1>6
  <2> QED
    BY <2>1, Joins
<1>10. full \in Seq(Tokens) /\ Len(full) = Len(body) + 1
  <2>1. body \in Seq(Tokens) /\ end \in Seq(Tokens)
    BY <1>7, <1>9
  <2>2. full \in Seq(Tokens) /\ Len(full) = Len(body) + Len(end)
    <3> HIDE DEF body
    <3> QED
      BY <2>1, Joins
  <2> QED
    BY <1>7, <2>2
<1>11. \A p \in 1 .. Len(full) : full[p] = Mask <=> p \in 1 .. Len(P.ids) /\ P.ids[p] = Mask
  <2> SUFFICES ASSUME NEW p \in 1 .. Len(full)
               PROVE  full[p] = Mask <=> p \in 1 .. Len(P.ids) /\ P.ids[p] = Mask
    OBVIOUS
  <2>1. (body \o end)[p] = Mask <=>
          \/ p \in 1 .. Len(body) /\ body[p] = Mask
          \/ \E r \in 1 .. Len(end) : p = Len(body) + r /\ end[r] = Mask
    <3>1. body \in Seq(Tokens) /\ end \in Seq(Tokens) /\ p \in 1 .. Len(body) + Len(end)
      BY <1>7, <1>9, <1>10
    <3> HIDE DEF body
    <3> QED
      BY <3>1, JoinMask
  <2>2. ASSUME p \in 1 .. Len(body)
        PROVE  body[p] = Mask <=> p \in 1 .. Len(P.ids) /\ P.ids[p] = Mask
    <3>1. P.ids \in Seq(Tokens) /\ words \in Seq(Tokens) /\ p \in 1 .. Len(P.ids) + Len(words)
      BY <1>2, <1>6, <1>9, <2>2
    <3>2. (P.ids \o words)[p] = Mask <=>
            \/ p \in 1 .. Len(P.ids) /\ P.ids[p] = Mask
            \/ \E r \in 1 .. Len(words) : p = Len(P.ids) + r /\ words[r] = Mask
      BY <3>1, JoinMask
    <3> QED
      BY <1>6, <3>2, Zenon DEF NoMask
  <2>3. p \in 1 .. Len(P.ids) => p \in 1 .. Len(body)
    <3>1. Len(words) \in Nat
      BY <1>6
    <3> HIDE DEF body
    <3> QED
      BY <1>2, <1>9, <3>1
  <2>4. \A r \in 1 .. Len(end) : end[r] # Mask
    BY <1>7, Zenon DEF NoMask
  <2> QED
    BY <2>1, <2>2, <2>3, <2>4, Zenon
<1> HIDE DEF body, full
<1>12. /\ ids \in Seq(Tokens)
       /\ Len(ids) = IF MaxLen <= Len(full) THEN MaxLen ELSE Len(full)
       /\ \A i \in 1 .. Len(ids) : ids[i] = full[i]
  BY <1>3, <1>10, TakeFacts
<1>13. /\ markers \in Seq(Nat) /\ Len(markers) <= n
       /\ Len(markers) = n =>
            \A i \in 1 .. n : markers[i] = P.markers[i] /\ P.markers[i] <= MaxLen
  BY <1>2, WithinFacts
<1>14. Len(ids) <= MaxLen /\ Len(full) \in Nat /\ Len(ids) \in Nat
  BY <1>3, <1>10, <1>12
<1>15. ASSUME Len(ids) # MaxLen
       PROVE  IsSuffix(Clean(state) \o << Sep >>, ids)
  <2>1. Len(full) < MaxLen
    BY <1>3, <1>12, <1>14, <1>15
  <2>2. ids = full
    BY <1>3, <1>10, <1>14, <2>1, TakeWhole
  <2>3. room > Len(Clean(state))
    <3> DEFINE lp == Len(P.ids)
               lc == Len(Clean(state))
               lw == Len(words)
    <3>1. lp \in Nat /\ lc \in Nat /\ lw = IF room <= lc THEN room ELSE lc
      BY <1>2, <1>5, <1>6
    <3>2. lp + lw + 1 < MaxLen /\ (MaxLen - lp - 1 > 0 => room = MaxLen - lp - 1)
      BY <1>4, <1>9, <1>10, <2>1
    <3> HIDE DEF lp, lc, lw
    <3>3. room > lc
      BY <1>3, <1>4, <3>1, <3>2
    <3> QED
      BY <3>3 DEF lc
  <2>4. words = Clean(state)
    BY <1>8, <2>3
  <2>5. full = P.ids \o (Clean(state) \o << Sep >>)
    <3>1. P.ids \in Seq(Tokens) /\ Clean(state) \in Seq(Tokens) /\ end \in Seq(Tokens)
      BY <1>2, <1>5, <1>7
    <3>2. full = (P.ids \o Clean(state)) \o end
      BY <2>4 DEF full, body
    <3>3. (P.ids \o Clean(state)) \o end = P.ids \o (Clean(state) \o end)
      <4>1. \A T : \A r, s, t \in Seq(T) : (r \o s) \o t = r \o (s \o t)
        BY ConcatAssociative
      <4> DEFINE text == Clean(state)
      <4>2. P.ids \in Seq(Tokens) /\ text \in Seq(Tokens) /\ end \in Seq(Tokens)
        BY <3>1
      <4> HIDE DEF text
      <4>3. (P.ids \o text) \o end = P.ids \o (text \o end)
        <5> DEFINE ids_ == P.ids
        <5>1. ids_ \in Seq(Tokens)
          BY <4>2
        <5> HIDE DEF ids_
        <5>2. (ids_ \o text) \o end = ids_ \o (text \o end)
          BY <4>2, <5>1, <4>1
        <5> QED
          BY <5>2 DEF ids_
      <4> QED
        BY <4>3 DEF text
    <3> QED
      BY <3>2, <3>3, Zenon DEF end
  <2>6. Clean(state) \o << Sep >> \in Seq(Tokens)
    <3>1. Clean(state) \in Seq(Tokens) /\ end \in Seq(Tokens)
      BY <1>5, <1>7
    <3>2. Clean(state) \o end \in Seq(Tokens)
      BY <3>1, Joins
    <3> QED
      BY <3>2 DEF end
  <2>7. IsSuffix(Clean(state) \o << Sep >>, P.ids \o (Clean(state) \o << Sep >>))
    BY <1>2, <2>6, Ending
  <2> HIDE DEF ids
  <2> QED
    BY <2>2, <2>5, <2>7, Zenon
<1> HIDE DEF ids, markers
<1>16. ASSUME Len(markers) = n
       PROVE  /\ ToSet(markers) = {p \in DOMAIN ids : ids[p] = Mask}
              /\ \A m \in 2 .. n : markers[m - 1] < markers[m]
  <2>1. DOMAIN markers = 1 .. n /\ DOMAIN ids = 1 .. Len(ids)
    BY <1>12, <1>13, <1>16
  <2>2. ASSUME NEW i \in 1 .. n
        PROVE  markers[i] \in 1 .. Len(ids) /\ ids[markers[i]] = Mask
    <3>1. /\ markers[i] = P.markers[i] /\ P.markers[i] <= MaxLen
          /\ P.markers[i] \in 1 .. Len(P.ids)
      BY <1>13, <1>16, <2>2 DEF IsPrefixOf
    <3>2. P.ids[P.markers[i]] = Mask
      BY <2>2, <3>1 DEF IsPrefixOf
    <3>3. Len(P.ids) <= Len(full)
      BY <1>2, <1>6, <1>9, <1>10
    <3>4. markers[i] \in 1 .. Len(ids) /\ markers[i] \in 1 .. Len(full)
      BY <1>2, <1>3, <1>12, <1>14, <3>1, <3>3
    <3> QED
      BY <1>11, <1>12, <3>1, <3>2, <3>4
  <2>3. ASSUME NEW p \in 1 .. Len(ids), ids[p] = Mask
        PROVE  \E i \in 1 .. n : p = markers[i]
    <3>1. p \in 1 .. Len(full)
      BY <1>3, <1>12, <1>14
    <3>2. p \in 1 .. Len(P.ids) /\ P.ids[p] = Mask
      BY <1>11, <1>12, <2>3, <3>1
    <3>3. PICK i \in 1 .. n : p = P.markers[i]
      BY <3>2 DEF IsPrefixOf
    <3> QED
      BY <1>13, <1>16, <3>3
  <2>4. ToSet(markers) = {p \in DOMAIN ids : ids[p] = Mask}
    <3>1. {markers[i] : i \in 1 .. n} = {p \in 1 .. Len(ids) : ids[p] = Mask}
      BY <2>2, <2>3
    <3> QED
      BY <2>1, <3>1 DEF ToSet
  <2>5. ASSUME NEW m \in 2 .. n
        PROVE  markers[m - 1] < markers[m]
    <3>1. m \in 1 .. n /\ m - 1 \in 1 .. n
      OBVIOUS
    <3>2. P.markers[m - 1] < P.markers[m]
      BY DEF IsPrefixOf
    <3> QED
      BY <1>13, <1>16, <3>1, <3>2
  <2> QED
    BY <2>4, <2>5
<1> HIDE DEF S
<1>17. IsPrompt(S, n, state)
  BY <1>1, <1>12, <1>13, <1>14, <1>15, <1>16 DEF IsPrompt
<1> QED
  BY <1>17 DEF S

----------------------------------------------------------------------------
\* Batches.

\* Max() of a set that has a largest element.
LEMMA MaxOfSet ==
  \A S : (\E x \in S : \A y \in S : x >= y) => Max(S) \in S /\ \A y \in S : Max(S) >= y
  BY Zenon DEF Max

\* What a batch is made of: prompts.
Prompt(x) == x.ids \in Seq(Tokens) /\ x.markers \in Seq(Nat)
IsBatch(b) == Len(b) \in Nat \ {0} /\ DOMAIN b = 1 .. Len(b) /\ \A r \in 1 .. Len(b) : Prompt(b[r])

\* A batch is padded to a length and a number of markers that each of its rows fits in.
LEMMA WideEnough ==
  ASSUME NEW b, IsBatch(b)
  PROVE  Widest(b) \in Nat /\ \A r \in 1 .. Len(b) : Len(b[r].ids) <= Widest(b)
<1> DEFINE n == Len(b)
           f == [r \in 1 .. n |-> Len(b[r].ids)]
<1>1. n \in Nat \ {0} /\ DOMAIN b = 1 .. n /\ \A r \in 1 .. n : Len(b[r].ids) \in Nat
  BY DEF IsBatch, Prompt
<1> HIDE DEF n
<1>2. \A r \in 1 .. n : f[r] \in Nat /\ f[r] = Len(b[r].ids)
  BY <1>1
<1>3. {f[r] : r \in 1 .. n} = {Len(b[r].ids) : r \in DOMAIN b}
  BY <1>1, <1>2
<1> HIDE DEF f
<1>4. /\ Max({f[i] : i \in 1 .. n}) \in Nat
      /\ \A i \in 1 .. n : f[i] <= Max({f[j] : j \in 1 .. n})
  BY <1>1, <1>2, LargestOfMany
<1>5. Widest(b) = Max({f[i] : i \in 1 .. n})
  BY <1>3 DEF Widest
<1>6. Widest(b) \in Nat /\ \A i \in 1 .. n : f[i] <= Widest(b)
  BY <1>4, <1>5, Zenon
<1> QED
  BY <1>2, <1>6 DEF n

\* The width of the markers in a padded batch.
Most(b) == Max({2} \cup {Len(b[r].markers) : r \in DOMAIN b})
\* No prompt of a batch has more markers than the padded width.
LEMMA ManyEnough ==
  ASSUME NEW b, IsBatch(b)
  PROVE  Most(b) \in Nat /\ \A r \in 1 .. Len(b) : Len(b[r].markers) <= Most(b)
<1> DEFINE n == Len(b)
           f == [r \in 1 .. n |-> Len(b[r].markers)]
           F == {f[r] : r \in 1 .. n}
<1>1. n \in Nat \ {0} /\ DOMAIN b = 1 .. n /\ \A r \in 1 .. n : Len(b[r].markers) \in Nat
  BY DEF IsBatch, Prompt
<1> HIDE DEF n
<1>2. \A r \in 1 .. n : f[r] \in Nat /\ f[r] = Len(b[r].markers)
  BY <1>1
<1>3. F = {Len(b[r].markers) : r \in DOMAIN b}
  BY <1>1, <1>2
<1>4. \E x \in F : x \in Nat /\ \A y \in F : y <= x
  <2> HIDE DEF f
  <2>1. /\ Max({f[i] : i \in 1 .. n}) \in Nat
        /\ \A i \in 1 .. n : f[i] <= Max({f[j] : j \in 1 .. n})
        /\ \E i \in 1 .. n : f[i] = Max({f[j] : j \in 1 .. n})
    BY <1>1, <1>2, LargestOfMany
  <2>2. PICK i \in 1 .. n : f[i] = Max({f[j] : j \in 1 .. n})
    BY <2>1
  <2>3. f[i] \in Nat /\ \A j \in 1 .. n : f[j] <= f[i]
    BY <2>1, <2>2, Zenon
  <2> QED
    BY <2>3
<1>5. \A y \in F : y \in Nat
  BY <1>2
<1> HIDE DEF F
<1>6. \E x \in {2} \cup F : \A y \in {2} \cup F : x >= y
  <2>1. PICK x \in F : x \in Nat /\ \A y \in F : y <= x
    BY <1>4
  <2>2. CASE x >= 2
    BY <2>1, <2>2, <1>5
  <2>3. CASE 2 >= x
    <3>1. \A y \in F : y <= 2
      BY <1>5, <2>1, <2>3
    <3> QED
      BY <1>5, <3>1
  <2> QED
    BY <2>1, <2>2, <2>3
<1>7. Max({2} \cup F) \in {2} \cup F /\ \A y \in {2} \cup F : Max({2} \cup F) >= y
  BY <1>6, MaxOfSet, Zenon
<1>8. Most(b) = Max({2} \cup F)
  BY <1>3 DEF Most
<1>9. Most(b) \in Nat /\ \A y \in F : Most(b) >= y
  BY <1>5, <1>7, <1>8
<1>10. \A r \in 1 .. n : Len(b[r].markers) \in F
  BY <1>1, <1>3
<1> QED
  BY <1>5, <1>9, <1>10 DEF n

\* No prompt of a batch is longer than the padded length.
LEMMA LongEnough ==
  ASSUME NEW b, IsBatch(b), NEW multiple \in Nat
  PROVE  PaddedLength(b, multiple) \in Nat /\ Widest(b) <= PaddedLength(b, multiple)
<1> DEFINE w == Widest(b)
           up == ((w + multiple - 1) \div multiple) * multiple
           padded == Min({up, MaxLen})
<1>1. w \in Nat
  BY WideEnough
<1>2. PaddedLength(b, multiple) = IF multiple # 0 /\ padded > w THEN padded ELSE w
  BY DEF PaddedLength
<1> HIDE DEF w
<1>3. multiple # 0 => padded \in Int
  <2> SUFFICES ASSUME multiple # 0 PROVE padded \in Int
    OBVIOUS
  <2>1. \A x \in Int : \A y \in Nat \ {0} : (x \div y) \in Int
    OBVIOUS
  <2>2. \A x, y \in Int : x * y \in Int
    OBVIOUS
  <2>3. w + multiple - 1 \in Int /\ multiple \in Nat \ {0} /\ multiple \in Int
    BY <1>1
  <2>4. up \in Int
    BY <2>1, <2>2, <2>3, Zenon
  <2> HIDE DEF up
  <2>5. MaxLen \in Int
    BY PromptAssumption
  <2>6. Min({up, MaxLen}) = IF up <= MaxLen THEN up ELSE MaxLen
    BY <2>4, <2>5, MinOfTwo
  <2> QED
    BY <2>4, <2>5, <2>6
<1> HIDE DEF padded
<1>4. CASE multiple # 0 /\ padded > w
  <2>1. PaddedLength(b, multiple) = padded
    BY <1>2, <1>4, Zenon
  <2>2. padded \in Nat /\ w <= padded
    BY <1>1, <1>3, <1>4
  <2> QED
    BY <2>1, <2>2 DEF w
<1>5. CASE ~(multiple # 0 /\ padded > w)
  <2>1. PaddedLength(b, multiple) = w
    BY <1>2, <1>5, Zenon
  <2> QED
    BY <1>1, <2>1 DEF w
<1> QED
  BY <1>4, <1>5

\* What is masked out of a padded sequence is the padding.
Attended(s, n) == [i \in 1 .. n |-> i <= Len(s)]
Unmasked(padded, mask) == [i \in {p \in DOMAIN padded : mask[p]} |-> padded[i]]

\* A padded row read where its attention mask is on is the prompt it was made from.
LEMMA Unpadded ==
  \A S : \A s \in Seq(S) : \A n \in Nat : \A with :
    Len(s) <= n => Unmasked(Padded(s, n, with), Attended(s, n)) = s
<1> SUFFICES ASSUME NEW S, NEW s \in Seq(S), NEW n \in Nat, Len(s) <= n, NEW with
             PROVE  Unmasked(Padded(s, n, with), Attended(s, n)) = s
  OBVIOUS
<1> DEFINE padded == Padded(s, n, with)
           mask == Attended(s, n)
<1>1. DOMAIN padded = 1 .. n /\ \A i \in 1 .. Len(s) : padded[i] = s[i]
  BY DEF Padded
<1>2. {p \in DOMAIN padded : mask[p]} = 1 .. Len(s)
  <2>1. \A p \in 1 .. n : mask[p] = (p <= Len(s))
    BY Zenon DEF Attended
  <2> HIDE DEF mask
  <2>2. Len(s) \in Nat /\ 1 .. Len(s) \subseteq 1 .. n
    OBVIOUS
  <2>3. {p \in 1 .. n : p <= Len(s)} = 1 .. Len(s)
    BY <2>2
  <2>4. {p \in 1 .. n : mask[p]} = {p \in 1 .. n : p <= Len(s)}
    BY <2>1, Zenon
  <2> QED
    BY <1>1, <2>3, <2>4
<1>3. s = [i \in 1 .. Len(s) |-> s[i]]
  OBVIOUS
<1>4. [i \in 1 .. Len(s) |-> padded[i]] = [i \in 1 .. Len(s) |-> s[i]]
  BY <1>1
<1> QED
  BY <1>2, <1>3, <1>4, Zenon DEF Unmasked

\* The model sees of a row of a batch what its prompt is, whatever the other rows are.
LEMMA RowIsPrompt ==
  ASSUME NEW b, IsBatch(b), NEW multiple \in Nat, NEW row \in 1 .. Len(b)
  PROVE  RowSeen(Collate(b, PaddedLength(b, multiple))[row]) =
           [ids |-> b[row].ids, markers |-> b[row].markers]
<1> DEFINE length == PaddedLength(b, multiple)
           count == Most(b)
           ids == b[row].ids
           markers == b[row].markers
           pIds == Padded(ids, length, Pad)
           mIds == Attended(ids, length)
           pMarkers == Padded(markers, count, 1)
           mMarkers == Attended(markers, count)
           seen == Collate(b, length)[row]
<1>1. row \in DOMAIN b /\ ids \in Seq(Tokens) /\ markers \in Seq(Nat)
  BY DEF IsBatch, Prompt
<1>2. /\ seen.ids = pIds /\ seen.attention = mIds
      /\ seen.markerPos = pMarkers /\ seen.markerMask = mMarkers
  BY <1>1 DEF Collate, Most, Attended
<1>3. length \in Nat /\ Len(ids) <= length
  <2>1. length \in Nat /\ Widest(b) <= length /\ Widest(b) \in Nat /\ Len(ids) <= Widest(b)
    BY LongEnough, WideEnough
  <2>2. Len(ids) \in Nat
    BY <1>1
  <2> HIDE DEF length, ids
  <2> QED
    BY <2>1, <2>2
<1>4. count \in Nat /\ Len(markers) <= count
  BY ManyEnough
<1> HIDE DEF length, count, seen, ids, markers
<1>5. Unmasked(pIds, mIds) = ids
  BY <1>1, <1>3, Unpadded
<1>6. Unmasked(pMarkers, mMarkers) = markers
  BY <1>1, <1>4, Unpadded
<1> HIDE DEF pIds, mIds, pMarkers, mMarkers
<1>7. RowSeen(seen) =
        [ids |-> Unmasked(pIds, mIds), markers |-> Unmasked(pMarkers, mMarkers)]
  BY <1>2 DEF RowSeen, Unmasked
<1>8. RowSeen(seen) = [ids |-> ids, markers |-> markers]
  BY <1>5, <1>6, <1>7
<1> QED
  BY <1>8 DEF seen, length, ids, markers

----------------------------------------------------------------------------
\* The cache.

\* The questions that are ever asked, and what may be cached and prepared for them.
Pool == UNION {{r.questions[i] : i \in DOMAIN r.questions} : r \in Requests}
Entry(q) == [key |-> Key(q), prefix |-> BuildPrefix(q)]
Entries == {Entry(q) : q \in Pool}
Item(q, state) ==
  [ids |-> Sequence(BuildPrefix(q), state).ids,
   markers |-> Sequence(BuildPrefix(q), state).markers,
   type |-> q.type]
Items == {Item(x[1], x[2]) : x \in Pool \X {r.state : r \in Requests}}

\* Where a call has a question at hand, and where it holds that question's prefix.
AtHand == Cached \cup {"direct", "sequence"}
Holding == {"insert", "sequence"}

Types ==
  /\ request \in [Threads -> Requests]
  /\ at \in [Threads -> Steps]
  /\ alone \in [Threads -> BOOLEAN]
  /\ items \in [Threads -> Seq(Items)]
  /\ DOMAIN prefix = Threads
  /\ entries \in Seq(Entries)

Cursor ==
  \A t \in Threads :
    /\ Len(items[t]) <= Len(Questions(t))
    /\ at[t] \in AtHand => Len(items[t]) < Len(Questions(t))

Held == \A t \in Threads : at[t] \in Holding => prefix[t] = BuildPrefix(Question(t))

Unique == \A i, j \in DOMAIN entries : entries[i].key = entries[j].key => i = j

CacheInv == Types /\ Cursor /\ Held /\ Unique

----------------------------------------------------------------------------
\* A prefix depends on its question by way of the key only.
LEMMA KeyDecides ==
  ASSUME NEW p, NEW q, p.type = q.type, p.ins = q.ins, p.options = q.options
  PROVE  BuildPrefix(p) = BuildPrefix(q)
<1>1. OptionTokens(p) = OptionTokens(q)
  BY DEF OptionTokens
<1> QED
  BY <1>1 DEF BuildPrefix

\* A call with a question at hand has one of the questions that are asked.
LEMMA QuestionInPool ==
  ASSUME RuntimeAssumption, Types, Cursor, NEW t \in Threads, at[t] \in AtHand
  PROVE  Question(t) \in Pool
<1>1. request[t] \in Requests /\ Len(items[t]) \in Nat
  BY DEF Types
<1>2. Len(items[t]) + 1 \in DOMAIN request[t].questions
  BY <1>1 DEF RuntimeAssumption, Cursor, Questions
<1> QED
  BY <1>1, <1>2 DEF Pool, Question, Questions

\* A key that is cached has one place, and its entry is the one of its key.
LEMMA EntryOfKey ==
  ASSUME Types, NEW q \in Pool, Key(q) \in Keys
  PROVE  /\ Position(Key(q)) \in 1 .. Len(entries)
         /\ entries[Position(Key(q))].key = Key(q)
         /\ entries[Position(Key(q))] = Entry(q)
<1> DEFINE pos == Position(Key(q))
<1>1. pos \in DOMAIN entries /\ entries[pos].key = Key(q)
  BY DEF Keys, Position
<1>2. pos \in 1 .. Len(entries) /\ entries[pos] \in Entries
  BY <1>1 DEF Types
<1>3. PICK p \in Pool : entries[pos] = Entry(p)
  BY <1>2 DEF Entries
<1>4. Key(p) = Key(q)
  BY <1>1, <1>3 DEF Entry
<1>5. BuildPrefix(p) = BuildPrefix(q)
  BY <1>4, KeyDecides DEF Key
<1> QED
  BY <1>1, <1>2, <1>3, <1>4, <1>5 DEF Entry

----------------------------------------------------------------------------
\* The three ways in which the entries change.

\* Inserting the entry of a key that is there changes nothing.
LEMMA InsertAgain ==
  ASSUME Types, NEW q \in Pool, Key(q) \in Keys
  PROVE  [entries EXCEPT ![Position(Key(q))] = Entry(q)] = entries
<1>1. entries[Position(Key(q))] = Entry(q)
  BY EntryOfKey
<1> QED
  BY <1>1 DEF Types

\* A new key is added at the end and stays the only one of its kind.
LEMMA InsertNew ==
  ASSUME Types, Unique, NEW q \in Pool, Key(q) \notin Keys,
         entries' = Append(entries, Entry(q))
  PROVE  /\ entries' \in Seq(Entries)
         /\ Unique'
         /\ Len(entries') = Len(entries) + 1
         /\ entries'[Len(entries')].key = Key(q)
<1>1. Entry(q) \in Entries /\ Entry(q).key = Key(q)
  BY DEF Entries, Entry
<1>2. entries \in Seq(Entries)
  BY DEF Types
<1>3. /\ entries' \in Seq(Entries)
      /\ Len(entries') = Len(entries) + 1
      /\ entries'[Len(entries')] = Entry(q)
      /\ \A i \in 1 .. Len(entries) : entries'[i] = entries[i]
  BY <1>1, <1>2
<1>4. \A i \in 1 .. Len(entries) : entries[i].key # Key(q)
  BY <1>2 DEF Keys
<1>5. DOMAIN entries' = 1 .. Len(entries) + 1 /\ DOMAIN entries = 1 .. Len(entries) /\ Len(entries) \in Nat
  BY <1>2, <1>3
<1>6. ASSUME NEW i \in DOMAIN entries', NEW j \in DOMAIN entries', entries'[i].key = entries'[j].key
      PROVE  i = j
  <2>1. CASE i = Len(entries) + 1 /\ j = Len(entries) + 1
    BY <2>1
  <2>2. CASE i = Len(entries) + 1 /\ j # Len(entries) + 1
    BY <1>1, <1>3, <1>4, <1>5, <1>6, <2>2
  <2>3. CASE i # Len(entries) + 1 /\ j = Len(entries) + 1
    BY <1>1, <1>3, <1>4, <1>5, <1>6, <2>3
  <2>4. CASE i # Len(entries) + 1 /\ j # Len(entries) + 1
    BY <1>3, <1>5, <1>6, <2>4 DEF Unique
  <2> QED
    BY <2>1, <2>2, <2>3, <2>4
<1> QED
  BY <1>1, <1>3, <1>6 DEF Unique

\* popitem(last=False) keeps the others and, among them, the newest.
LEMMA DropOldest ==
  ASSUME Types, Unique, entries # << >>, entries' = Tail(entries)
  PROVE  /\ entries' \in Seq(Entries)
         /\ Unique'
         /\ Len(entries') = Len(entries) - 1
         /\ Len(entries) > 1 => entries'[Len(entries')] = entries[Len(entries)]
<1>1. entries \in Seq(Entries)
  BY DEF Types
<1>2. /\ entries' \in Seq(Entries)
      /\ Len(entries') = Len(entries) - 1
      /\ \A i \in 1 .. Len(entries) - 1 : entries'[i] = entries[i + 1]
  BY <1>1
<1>3. DOMAIN entries' = 1 .. Len(entries) - 1 /\ DOMAIN entries = 1 .. Len(entries) /\ Len(entries) \in Nat
  BY <1>1, <1>2
<1>4. Unique'
  <2>1. ASSUME NEW i \in DOMAIN entries', NEW j \in DOMAIN entries', entries'[i].key = entries'[j].key
        PROVE  i = j
    <3>1. i + 1 \in DOMAIN entries /\ j + 1 \in DOMAIN entries /\ entries[i + 1].key = entries[j + 1].key
      BY <1>2, <1>3, <2>1
    <3>2. i + 1 = j + 1
      BY <3>1 DEF Unique
    <3> QED
      BY <1>3, <3>2
  <2> QED
    BY <2>1 DEF Unique
<1> QED
  BY <1>2, <1>3, <1>4

\* Removing an element and appending it again.
LEMMA Rotation ==
  ASSUME NEW S, NEW s \in Seq(S), NEW pos \in 1 .. Len(s), NEW m, m = Append(RemoveAt(s, pos), s[pos])
  PROVE  /\ m \in Seq(S)
         /\ Len(m) = Len(s)
         /\ \A i \in 1 .. pos - 1 : m[i] = s[i]
         /\ \A i \in pos .. Len(s) - 1 : m[i] = s[i + 1]
         /\ m[Len(s)] = s[pos]
<1> DEFINE front == SubSeq(s, 1, pos - 1)
           back == SubSeq(s, pos + 1, Len(s))
<1>1. /\ front \in Seq(S) /\ Len(front) = pos - 1
      /\ \A i \in 1 .. pos - 1 : front[i] = s[i]
  OBVIOUS
<1>2. /\ back \in Seq(S) /\ Len(back) = Len(s) - pos
      /\ \A i \in 1 .. Len(s) - pos : back[i] = s[i + pos]
  OBVIOUS
<1>3. m = Append(front \o back, s[pos])
  BY DEF RemoveAt
<1>4. s[pos] \in S
  OBVIOUS
<1> HIDE DEF front, back
<1>5. /\ front \o back \in Seq(S)
      /\ Len(front \o back) = Len(s) - 1
      /\ \A i \in 1 .. Len(s) - 1 :
           (front \o back)[i] = IF i <= pos - 1 THEN front[i] ELSE back[i - (pos - 1)]
  <2>1. /\ front \o back \in Seq(S)
        /\ Len(front \o back) = Len(front) + Len(back)
        /\ \A i \in 1 .. Len(front) + Len(back) :
             (front \o back)[i] = IF i <= Len(front) THEN front[i] ELSE back[i - Len(front)]
    BY <1>1, <1>2, ConcatProperties, ZenonT(30)
  <2>2. Len(s) \in Nat /\ pos \in Nat /\ Len(front) + Len(back) = Len(s) - 1
    BY <1>1, <1>2
  <2> QED
    BY <1>1, <2>1, <2>2
<1>6. \A i \in 1 .. pos - 1 : (front \o back)[i] = s[i]
  BY <1>1, <1>5
<1>7. ASSUME NEW i \in pos .. Len(s) - 1
      PROVE  (front \o back)[i] = s[i + 1]
  <2>1. i - (pos - 1) \in 1 .. Len(s) - pos /\ ~(i <= pos - 1) /\ i \in 1 .. Len(s) - 1
    OBVIOUS
  <2>2. i - (pos - 1) + pos = i + 1
    OBVIOUS
  <2> QED
    BY <1>2, <1>5, <2>1, <2>2
<1>8. /\ m \in Seq(S)
      /\ Len(m) = Len(s)
      /\ \A i \in 1 .. Len(s) - 1 : m[i] = (front \o back)[i]
      /\ m[Len(s)] = s[pos]
  <2> DEFINE both == front \o back
  <2>1. both \in Seq(S) /\ Len(both) = Len(s) - 1 /\ m = Append(both, s[pos])
    BY <1>3, <1>5
  <2> HIDE DEF both
  <2>2. /\ m \in Seq(S)
        /\ Len(m) = Len(s)
        /\ \A i \in 1 .. Len(s) - 1 : m[i] = both[i]
        /\ m[Len(s)] = s[pos]
    BY <1>4, <2>1
  <2> QED
    BY <2>2 DEF both
<1>9. \A i \in 1 .. pos - 1 : i \in 1 .. Len(s) - 1
  OBVIOUS
<1>10. \A i \in pos .. Len(s) - 1 : i \in 1 .. Len(s) - 1
  OBVIOUS
<1>11. \A i \in 1 .. pos - 1 : m[i] = s[i]
  BY <1>6, <1>8, <1>9, Zenon
<1>12. \A i \in pos .. Len(s) - 1 : m[i] = s[i + 1]
  BY <1>7, <1>8, <1>10, Zenon
<1> QED
  BY <1>8, <1>11, <1>12, Zenon

\* move_to_end changes the order of the entries and nothing else.
LEMMA MovedToEnd ==
  ASSUME Types, Unique, NEW q \in Pool, Key(q) \in Keys, MoveToEnd(Key(q))
  PROVE  /\ entries' \in Seq(Entries)
         /\ Unique'
         /\ Len(entries') = Len(entries)
         /\ Key(q) \in Keys'
<1> DEFINE pos == Position(Key(q))
           n == Len(entries)
           origin(i) == IF i < pos THEN i ELSE IF i < n THEN i + 1 ELSE pos
<1>1. entries \in Seq(Entries) /\ pos \in 1 .. n /\ entries[pos].key = Key(q)
  BY EntryOfKey DEF Types
<1>2. entries' = Append(RemoveAt(entries, pos), entries[pos])
  BY DEF MoveToEnd
<1> HIDE DEF pos
<1>3. /\ entries' \in Seq(Entries)
      /\ Len(entries') = n
      /\ \A i \in 1 .. pos - 1 : entries'[i] = entries[i]
      /\ \A i \in pos .. n - 1 : entries'[i] = entries[i + 1]
      /\ entries'[n] = entries[pos]
  <2>1. entries \in Seq(Entries) /\ pos \in 1 .. Len(entries)
    BY <1>1
  <2>2. \A S : \A s \in Seq(S) : \A p \in 1 .. Len(s) : \A m :
          m = Append(RemoveAt(s, p), s[p]) =>
            /\ m \in Seq(S)
            /\ Len(m) = Len(s)
            /\ \A i \in 1 .. p - 1 : m[i] = s[i]
            /\ \A i \in p .. Len(s) - 1 : m[i] = s[i + 1]
            /\ m[Len(s)] = s[p]
    BY Rotation
  <2> QED
    <3> DEFINE m == Append(RemoveAt(entries, pos), entries[pos])
    <3>1. \A p \in 1 .. Len(entries) : \A r :
            r = Append(RemoveAt(entries, p), entries[p]) =>
              /\ r \in Seq(Entries)
              /\ Len(r) = Len(entries)
              /\ \A i \in 1 .. p - 1 : r[i] = entries[i]
              /\ \A i \in p .. Len(entries) - 1 : r[i] = entries[i + 1]
              /\ r[Len(entries)] = entries[p]
      BY <2>1, <2>2, Zenon
    <3>2. /\ m \in Seq(Entries)
          /\ Len(m) = Len(entries)
          /\ \A i \in 1 .. pos - 1 : m[i] = entries[i]
          /\ \A i \in pos .. Len(entries) - 1 : m[i] = entries[i + 1]
          /\ m[Len(entries)] = entries[pos]
      BY <2>1, <3>1, Zenon
    <3>3. entries' = m
      BY <1>2
    <3> HIDE DEF m
    <3> QED
      BY <3>2, <3>3 DEF n
<1>4. n \in Nat /\ DOMAIN entries = 1 .. n /\ DOMAIN entries' = 1 .. n
  BY <1>1, <1>3
<1>5. \A i \in 1 .. n : origin(i) \in 1 .. n /\ entries'[i] = entries[origin(i)]
  BY <1>1, <1>3, <1>4
<1>6. \A i, j \in 1 .. n : origin(i) = origin(j) => i = j
  <2>1. pos \in 1 .. n /\ n \in Nat
    BY <1>1, <1>4
  <2> HIDE DEF n
  <2>2. ASSUME NEW i \in 1 .. n, NEW j \in 1 .. n, origin(i) = origin(j)
        PROVE  i = j
    BY <2>1, <2>2
  <2> QED
    BY <2>2
<1>7. Unique'
  <2> HIDE DEF origin, n
  <2>1. ASSUME NEW i \in DOMAIN entries', NEW j \in DOMAIN entries', entries'[i].key = entries'[j].key
        PROVE  i = j
    <3>1. i \in 1 .. n /\ j \in 1 .. n
      BY <1>4
    <3>2. entries'[i] = entries[origin(i)] /\ entries'[j] = entries[origin(j)]
          /\ origin(i) \in DOMAIN entries /\ origin(j) \in DOMAIN entries
      BY <1>4, <1>5, <3>1
    <3>3. origin(i) = origin(j)
      BY <2>1, <3>2 DEF Unique
    <3> QED
      BY <1>6, <3>1, <3>3
  <2> QED
    BY <2>1 DEF Unique
<1>8. Key(q) \in Keys'
  BY <1>1, <1>3, <1>4 DEF Keys
<1> QED
  BY <1>3, <1>7, <1>8
----------------------------------------------------------------------------
\* What a step of t keeps when it does not add a prompt: the prefix it then holds
\* and the question it then has must be right.
LEMMA StepKeeps ==
  ASSUME CacheInv, NEW t \in Threads, NEW step \in Steps, Goto(t, step),
         request' = request, items' = items, alone' \in [Threads -> BOOLEAN],
         entries' \in Seq(Entries), Unique',
         DOMAIN prefix' = Threads, \A u \in Threads \ {t} : prefix'[u] = prefix[u],
         step \in AtHand => Len(items[t]) < Len(Questions(t)),
         step \in Holding => prefix'[t] = BuildPrefix(Question(t))
  PROVE  CacheInv'
<1>1. /\ at' \in [Threads -> Steps]
      /\ at'[t] = step
      /\ \A u \in Threads \ {t} : at'[u] = at[u]
  BY DEF CacheInv, Types, Goto
<1>2. Types'
  BY <1>1 DEF CacheInv, Types
<1>3. Cursor'
  <2>1. ASSUME NEW u \in Threads
        PROVE  /\ Len(items[u]) <= Len(Questions(u))
               /\ at'[u] \in AtHand => Len(items[u]) < Len(Questions(u))
    <3>1. CASE u = t
      BY <1>1, <3>1 DEF CacheInv, Cursor
    <3>2. CASE u # t
      BY <1>1, <3>2 DEF CacheInv, Cursor
    <3> QED
      BY <3>1, <3>2
  <2> QED
    BY <2>1 DEF Cursor, Questions
<1>4. Held'
  <2>1. ASSUME NEW u \in Threads, at'[u] \in Holding
        PROVE  prefix'[u] = BuildPrefix(Question(u))
    <3>1. CASE u = t
      BY <1>1, <2>1, <3>1
    <3>2. CASE u # t
      BY <1>1, <2>1, <3>2 DEF CacheInv, Held
    <3> QED
      BY <3>1, <3>2
  <2> QED
    BY <2>1 DEF Held, Question, Questions
<1> QED
  BY <1>2, <1>3, <1>4 DEF CacheInv

\* The same for a step that changes neither the cache nor a prefix.
LEMMA QuietKeeps ==
  ASSUME CacheInv, NEW t \in Threads, NEW step \in Steps \ Holding, Goto(t, step),
         UNCHANGED <<request, items, entries, prefix>>, alone' \in [Threads -> BOOLEAN],
         step \in AtHand => Len(items[t]) < Len(Questions(t))
  PROVE  CacheInv'
<1>1. entries' \in Seq(Entries) /\ DOMAIN prefix' = Threads
  BY DEF CacheInv, Types
<1>2. Unique'
  BY DEF CacheInv, Unique
<1> QED
  BY <1>1, <1>2, StepKeeps

----------------------------------------------------------------------------
\* One lemma for each operation that does more.
LEMMA QuietSteps ==
  ASSUME CacheInv, NEW t \in Threads,
         Call(t) \/ TakeQuestion(t) \/ Hit(t) \/ Measure(t) \/ NonFinite(t) \/ Finish(t)
  PROVE  CacheInv'
<1>1. CASE Call(t)
  <2>1. Goto(t, "question") /\ UNCHANGED <<request, items, entries, prefix>>
    BY <1>1 DEF Call
  <2>2. alone' \in [Threads -> BOOLEAN]
    BY <1>1 DEF Call, CacheInv, Types
  <2> QED
    BY <2>1, <2>2, QuietKeeps DEF Steps, Holding, AtHand, Cached
<1>2. CASE TakeQuestion(t)
  <2>1. UNCHANGED <<request, items, entries, prefix>> /\ alone' \in [Threads -> BOOLEAN]
    BY <1>2 DEF TakeQuestion, Own, CacheInv, Types
  <2>2. CASE Len(items[t]) = Len(Questions(t))
    <3>1. Goto(t, "batch")
      BY <1>2, <2>2 DEF TakeQuestion
    <3> QED
      BY <2>1, <3>1, QuietKeeps DEF Steps, Holding, AtHand, Cached
  <2>3. CASE Len(items[t]) # Len(Questions(t))
    <3>1. PICK step \in {"ValueError", "test", "direct"} : Goto(t, step)
      BY <1>2, <2>3 DEF TakeQuestion
    <3>2. Len(items[t]) \in Nat /\ Len(Questions(t)) \in Nat
      BY DEF CacheInv, Types, Questions, RuntimeAssumption
    <3>3. Len(items[t]) < Len(Questions(t))
      BY <2>3, <3>2 DEF CacheInv, Cursor
    <3>4. step \in Steps \ Holding
      BY <3>1 DEF Steps, Holding, Failures, Ends, Cached
    <3> QED
      BY <2>1, <3>1, <3>3, <3>4, QuietKeeps
  <2> QED
    BY <2>2, <2>3
<1>3. CASE Hit(t)
  <2>1. Goto(t, "touch") /\ UNCHANGED <<request, items, entries, prefix>> /\ alone' \in [Threads -> BOOLEAN]
    BY <1>3 DEF Hit, Own, CacheInv, Types
  <2>2. Len(items[t]) < Len(Questions(t))
    BY <1>3 DEF Hit, CacheInv, Cursor, AtHand, Cached
  <2> QED
    BY <2>1, <2>2, QuietKeeps DEF Steps, Holding, Cached
<1>4. CASE Measure(t)
  <2>1. UNCHANGED <<request, items, entries, prefix>> /\ alone' \in [Threads -> BOOLEAN]
    BY <1>4 DEF Measure, Own, CacheInv, Types
  <2>2. PICK step \in {"pop", "touch"} : Goto(t, step)
    BY <1>4 DEF Measure
  <2>3. Len(items[t]) < Len(Questions(t))
    BY <1>4 DEF Measure, CacheInv, Cursor, AtHand, Cached
  <2>4. step \in Steps \ Holding
    BY <2>2 DEF Steps, Holding, Cached
  <2> QED
    BY <2>1, <2>2, <2>3, <2>4, QuietKeeps
<1>5. CASE NonFinite(t) \/ Finish(t)
  <2>1. UNCHANGED <<request, items, entries, prefix>> /\ alone' \in [Threads -> BOOLEAN]
    BY <1>5 DEF NonFinite, Finish, Own, CacheInv, Types
  <2>2. PICK step \in {"NonFiniteOutput", "returned"} : Goto(t, step)
    BY <1>5 DEF NonFinite, Finish
  <2>3. step \in Steps \ Holding /\ step \notin AtHand
    BY <2>2 DEF Steps, Holding, AtHand, Cached, Failures, Ends
  <2> QED
    BY <2>1, <2>2, <2>3, QuietKeeps
<1> QED
  BY <1>1, <1>2, <1>3, <1>4, <1>5

\* Building a prefix keeps the invariant of the cache.
LEMMA BuildKeeps ==
  ASSUME CacheInv, NEW t \in Threads, Build(t)
  PROVE  CacheInv'
<1>1. PICK step \in {"sequence", "insert"} : Goto(t, step)
  BY DEF Build
<1>2. Len(items[t]) < Len(Questions(t))
  BY DEF Build, CacheInv, Cursor, AtHand, Cached
<1>3. /\ DOMAIN prefix' = Threads
      /\ \A u \in Threads \ {t} : prefix'[u] = prefix[u]
      /\ prefix'[t] = BuildPrefix(Question(t))
  BY DEF Build, CacheInv, Types
<1>4. UNCHANGED <<request, items, entries>> /\ alone' \in [Threads -> BOOLEAN] /\ entries' \in Seq(Entries)
  BY DEF Build, Own, CacheInv, Types
<1>5. Unique'
  BY <1>4 DEF CacheInv, Unique
<1>6. step \in Steps
  BY <1>1 DEF Steps, Cached
<1> QED
  BY <1>1, <1>2, <1>3, <1>4, <1>5, <1>6, StepKeeps

\* The question that a call works on in the cache, and what the lemmas need of it.
LEMMA WorkingOn ==
  ASSUME CacheInv, NEW t \in Threads, at[t] \in AtHand
  PROVE  /\ Question(t) \in Pool
         /\ Len(items[t]) < Len(Questions(t))
         /\ Types /\ Unique
  BY QuestionInPool, RuntimeAssumption DEF CacheInv, Cursor

\* Storing a prefix keeps the invariant and adds an entry for a new key only.
LEMMA InsertKeeps ==
  ASSUME CacheInv, NEW t \in Threads, Insert(t)
  PROVE  /\ CacheInv'
         /\ Key(Question(t)) \in Keys => entries' = entries
         /\ Key(Question(t)) \notin Keys =>
              /\ Len(entries') = Len(entries) + 1
              /\ entries'[Len(entries')].key = Key(Question(t))
<1> DEFINE q == Question(t)
<1>1. q \in Pool /\ Len(items[t]) < Len(Questions(t)) /\ Types /\ Unique
  BY WorkingOn DEF Insert, AtHand, Cached
<1>2. prefix[t] = BuildPrefix(q)
  BY DEF CacheInv, Held, Holding, Insert
<1>3. entries' = IF Key(q) \in Keys THEN [entries EXCEPT ![Position(Key(q))] = Entry(q)]
                 ELSE Append(entries, Entry(q))
  BY <1>2 DEF Insert, Entry
<1> HIDE DEF q
<1>4. Key(q) \in Keys => entries' = entries
  BY <1>1, <1>3, InsertAgain
<1>5. Key(q) \notin Keys =>
        /\ entries' \in Seq(Entries)
        /\ Unique'
        /\ Len(entries') = Len(entries) + 1
        /\ entries'[Len(entries')].key = Key(q)
  BY <1>1, <1>3, InsertNew
<1>6. entries' \in Seq(Entries) /\ Unique'
  BY <1>1, <1>4, <1>5 DEF Types, Unique
<1>7. /\ Goto(t, "measure") /\ UNCHANGED <<request, items, prefix>>
      /\ alone' \in [Threads -> BOOLEAN] /\ DOMAIN prefix' = Threads
  BY <1>1 DEF Insert, Own, Types
<1>8. CacheInv'
  BY <1>1, <1>6, <1>7, StepKeeps DEF Steps, Holding, Cached
<1> QED
  BY <1>4, <1>5, <1>8 DEF q

\* Evicting the oldest entry keeps the invariant.
LEMMA PopKeeps ==
  ASSUME CacheInv, NEW t \in Threads, Pop(t)
  PROVE  CacheInv'
<1>1. Len(items[t]) < Len(Questions(t)) /\ Types /\ Unique
  BY WorkingOn DEF Pop, AtHand, Cached
<1>2. /\ UNCHANGED <<request, items, prefix>> /\ alone' \in [Threads -> BOOLEAN]
      /\ DOMAIN prefix' = Threads
  BY <1>1 DEF Pop, Own, Types
<1>3. CASE entries = << >>
  BY <1>2, <1>3, QuietKeeps DEF Pop, Steps, Holding, AtHand, Cached, Failures, Ends
<1>4. CASE entries # << >>
  <2>1. Goto(t, "touch") /\ entries' = Tail(entries)
    BY <1>4 DEF Pop, DropFirst
  <2>2. entries' \in Seq(Entries) /\ Unique'
    BY <1>1, <1>4, <2>1, DropOldest
  <2> QED
    BY <1>1, <1>2, <2>1, <2>2, StepKeeps DEF Steps, Holding, Cached
<1> QED
  BY <1>3, <1>4

\* Moving a hit to the end keeps the invariant and every entry.
LEMMA TouchKeeps ==
  ASSUME CacheInv, NEW t \in Threads, Touch(t)
  PROVE  /\ CacheInv'
         /\ Len(entries') = Len(entries)
         /\ Key(Question(t)) \in Keys => Key(Question(t)) \in Keys'
<1> DEFINE q == Question(t)
<1>1. q \in Pool /\ Len(items[t]) < Len(Questions(t)) /\ Types /\ Unique
  BY WorkingOn DEF Touch, AtHand, Cached
<1>2. /\ UNCHANGED <<request, items, prefix>> /\ alone' \in [Threads -> BOOLEAN]
      /\ DOMAIN prefix' = Threads
  BY <1>1 DEF Touch, Own, Types
<1>3. CASE Key(q) \notin Keys
  <2>1. Goto(t, "KeyError") /\ entries' = entries
    BY <1>3 DEF Touch
  <2>2. CacheInv'
    BY <1>2, <2>1, QuietKeeps DEF Steps, Holding, AtHand, Cached, Failures, Ends
  <2> QED
    BY <1>3, <2>1, <2>2
<1>4. CASE Key(q) \in Keys
  <2>1. Goto(t, "read") /\ MoveToEnd(Key(q))
    BY <1>4 DEF Touch
  <2> HIDE DEF q
  <2>2. /\ entries' \in Seq(Entries) /\ Unique'
        /\ Len(entries') = Len(entries) /\ Key(q) \in Keys'
    BY <1>1, <1>4, <2>1, MovedToEnd
  <2>3. CacheInv'
    BY <1>1, <1>2, <2>1, <2>2, StepKeeps DEF Steps, Holding, Cached
  <2> QED
    BY <2>2, <2>3 DEF q
<1> QED
  BY <1>3, <1>4

\* Reading the entry of a hit keeps the invariant.
LEMMA ReadKeeps ==
  ASSUME CacheInv, NEW t \in Threads, Read(t)
  PROVE  CacheInv'
<1> DEFINE q == Question(t)
<1>1. q \in Pool /\ Len(items[t]) < Len(Questions(t)) /\ Types /\ Unique
  BY WorkingOn DEF Read, AtHand, Cached
<1>2. UNCHANGED <<request, items, entries>> /\ alone' \in [Threads -> BOOLEAN]
  BY <1>1 DEF Read, Own, Types
<1>3. CASE Key(q) \notin Keys
  <2>1. Goto(t, "KeyError") /\ prefix' = prefix
    BY <1>3 DEF Read
  <2> QED
    BY <1>2, <2>1, QuietKeeps DEF Steps, Holding, AtHand, Cached, Failures, Ends
<1>4. CASE Key(q) \in Keys
  <2>1. Goto(t, "sequence") /\ prefix' = [prefix EXCEPT ![t] = entries[Position(Key(q))].prefix]
    BY <1>4 DEF Read
  <2>2. entries[Position(Key(q))].prefix = BuildPrefix(q)
    <3> HIDE DEF q
    <3>1. entries[Position(Key(q))] = Entry(q)
      BY <1>1, <1>4, EntryOfKey
    <3> QED
      BY <3>1 DEF Entry
  <2>3. /\ DOMAIN prefix' = Threads
        /\ \A u \in Threads \ {t} : prefix'[u] = prefix[u]
        /\ prefix'[t] = BuildPrefix(q)
    BY <1>1, <2>1, <2>2 DEF Types
  <2>4. entries' \in Seq(Entries) /\ Unique'
    BY <1>1, <1>2 DEF Types, Unique
  <2> QED
    BY <1>1, <1>2, <2>1, <2>3, <2>4, StepKeeps DEF Steps
<1> QED
  BY <1>3, <1>4

\* Completing a prompt from its prefix keeps the invariant.
LEMMA CompleteKeeps ==
  ASSUME CacheInv, NEW t \in Threads, Complete(t)
  PROVE  CacheInv'
<1> DEFINE q == Question(t)
           prompt == Sequence(prefix[t], request[t].state)
<1>1. q \in Pool /\ Len(items[t]) < Len(Questions(t)) /\ Types /\ Unique
  BY WorkingOn DEF Complete, AtHand
<1>2. UNCHANGED <<request, entries, prefix>> /\ alone' \in [Threads -> BOOLEAN]
  BY <1>1 DEF Complete, Own, Types
<1>3. CASE ~Fits(prompt, q)
  <2>1. Goto(t, "TokenBudgetExceeded") /\ items' = items
    BY <1>3 DEF Complete
  <2> QED
    BY <1>2, <2>1, QuietKeeps DEF Steps, Holding, AtHand, Cached, Failures, Ends
<1>4. CASE Fits(prompt, q)
  <2>1. Goto(t, "question")
    BY <1>4 DEF Complete
  <2>2. items' = [items EXCEPT ![t] = Append(@, [ids |-> prompt.ids, markers |-> prompt.markers,
                                                 type |-> q.type])]
    BY <1>4 DEF Complete
  <2>3. prompt = Sequence(BuildPrefix(q), request[t].state)
    BY DEF CacheInv, Held, Holding, Complete
  <2>4. items' = [items EXCEPT ![t] = Append(@, Item(q, request[t].state))]
    BY <2>2, <2>3 DEF Item
  <2> HIDE DEF q, prompt
  <2>5. Item(q, request[t].state) \in Items
    <3>1. request[t].state \in {r.state : r \in Requests}
      BY <1>1 DEF Types
    <3> DEFINE x == <<q, request[t].state>>
    <3>2. x \in Pool \X {r.state : r \in Requests} /\ x[1] = q /\ x[2] = request[t].state
      BY <1>1, <3>1
    <3> HIDE DEF x
    <3>3. Item(x[1], x[2]) \in Items
      BY <3>2 DEF Items
    <3> QED
      BY <3>2, <3>3
  <2>6. /\ items' \in [Threads -> Seq(Items)]
        /\ Len(items'[t]) = Len(items[t]) + 1
        /\ \A u \in Threads \ {t} : items'[u] = items[u]
    BY <1>1, <2>4, <2>5 DEF Types
  <2>7. /\ at' \in [Threads -> Steps] /\ at'[t] = "question"
        /\ \A u \in Threads \ {t} : at'[u] = at[u]
    BY <1>1, <2>1 DEF Types, Goto, Steps
  <2>8. Types'
    BY <1>1, <1>2, <2>6, <2>7 DEF Types
  <2>9. Cursor'
    <3>1. ASSUME NEW u \in Threads
          PROVE  /\ Len(items'[u]) <= Len(Questions(u))
                 /\ at'[u] \in AtHand => Len(items'[u]) < Len(Questions(u))
      <4>1. CASE u = t
        <5>1. items[t] \in Seq(Items) /\ request[t] \in Requests
          BY <1>1 DEF Types
        <5>2. Len(items[t]) \in Nat /\ Len(Questions(t)) \in Nat
          BY <5>1, RuntimeAssumption DEF Questions
        <5>3. Len(items'[t]) <= Len(Questions(t))
          BY <1>1, <2>6, <5>2
        <5> QED
          BY <2>7, <4>1, <5>3 DEF AtHand, Cached
      <4>2. CASE u # t
        BY <2>6, <2>7, <4>2 DEF CacheInv, Cursor
      <4> QED
        BY <4>1, <4>2
    <3> QED
      BY <1>2, <3>1 DEF Cursor, Questions
  <2>10. Held'
    <3>1. ASSUME NEW u \in Threads, at'[u] \in Holding
          PROVE  prefix[u] = BuildPrefix(Question(u)) /\ items'[u] = items[u]
      <4>1. u # t
        BY <2>7, <3>1 DEF Holding
      <4> QED
        BY <2>6, <2>7, <3>1, <4>1 DEF CacheInv, Held
    <3> QED
      BY <1>2, <3>1 DEF Held, Question, Questions
  <2>11. Unique'
    BY <1>1, <1>2 DEF Unique
  <2> QED
    BY <2>8, <2>9, <2>10, <2>11 DEF CacheInv
<1> QED
  BY <1>3, <1>4

----------------------------------------------------------------------------
\* Every step of the runtime keeps the invariant of the cache.
LEMMA CacheStep ==
  ASSUME CacheInv, [Next]_vars
  PROVE  CacheInv'
<1>1. ASSUME UNCHANGED vars PROVE CacheInv'
  BY <1>1 DEF CacheInv, Types, Cursor, Held, Unique, vars, Questions, Question
<1>2. ASSUME NEW t \in Threads, Step(t) PROVE CacheInv'
  <2>1. CASE Call(t) \/ TakeQuestion(t) \/ Hit(t) \/ Measure(t) \/ NonFinite(t) \/ Finish(t)
    BY <2>1, QuietSteps
  <2>2. CASE Build(t)
    BY <2>2, BuildKeeps
  <2>3. CASE Insert(t)
    BY <2>3, InsertKeeps
  <2>4. CASE Pop(t)
    BY <2>4, PopKeeps
  <2>5. CASE Touch(t)
    BY <2>5, TouchKeeps
  <2>6. CASE Read(t)
    BY <2>6, ReadKeeps
  <2>7. CASE Complete(t)
    BY <2>7, CompleteKeeps
  <2>8. CASE RunBatch(t)
    BY <2>8 DEF RunBatch, Own, CacheInv, Types, Cursor, Held, Unique, Questions, Question
  <2> QED
    BY <1>2, <2>1, <2>2, <2>3, <2>4, <2>5, <2>6, <2>7, <2>8 DEF Step, Prepare
<1> QED
  BY <1>1, <1>2 DEF Next, Rest

\* The types, the cursor of each call, the prefix it holds and the uniqueness of the
\* keys are kept by every step of every thread.
THEOREM CacheInvariant == Spec => []CacheInv
<1>1. Init => CacheInv
  <2> SUFFICES ASSUME Init PROVE CacheInv
    OBVIOUS
  <2>1. Types
    BY DEF Init, Types, Steps
  <2>2. Cursor
    BY <2>1, RuntimeAssumption DEF Init, Types, Cursor, Questions, AtHand, Cached
  <2>3. Held /\ Unique
    BY DEF Init, Held, Holding, Unique
  <2> QED
    BY <2>1, <2>2, <2>3 DEF CacheInv
<1>2. CacheInv /\ [Next]_vars => CacheInv'
  BY CacheStep
<1> QED
  BY <1>1, <1>2, PTL DEF Spec

----------------------------------------------------------------------------
\* How large the cache grows.
Bounded == Len(entries) <= Capacity + Cardinality(Inserting)

\* A thread that begins or ends an insertion moves the bound by one.
LEMMA InsertingSize ==
  ASSUME CacheInv
  PROVE  /\ Cardinality(Inserting) \in Nat
         /\ \A t \in Threads \ Inserting :
              Cardinality(Inserting \cup {t}) = Cardinality(Inserting) + 1
         /\ \A t \in Inserting :
              Cardinality(Inserting \ {t}) = Cardinality(Inserting) - 1
<1>1. IsFiniteSet(Inserting)
  BY RuntimeAssumption, FS_Subset DEF Inserting
<1> QED
  BY <1>1, FS_AddElement, FS_RemoveElement, FS_CardinalityType

\* A step that is not on either side of an insertion leaves the set of them alone.
LEMMA SameInserting ==
  ASSUME CacheInv, NEW t \in Threads, NEW step, Goto(t, step),
         step \in {"measure", "pop"} <=> at[t] \in {"measure", "pop"}
  PROVE  Inserting' = Inserting
<1>1. at'[t] = step /\ \A u \in Threads \ {t} : at'[u] = at[u]
  BY DEF CacheInv, Types, Goto
<1> QED
  BY <1>1 DEF Inserting

\* Every step keeps the cache within its capacity and the calls that are inserting.
LEMMA BoundedStep ==
  ASSUME CacheInv, Bounded, [Next]_vars
  PROVE  Bounded'
<1> DEFINE c == Cardinality(Inserting)
<1>1. c \in Nat /\ Len(entries) \in Nat /\ Capacity \in Nat /\ entries \in Seq(Entries)
  BY InsertingSize, RuntimeAssumption DEF CacheInv, Types
<1>2. ASSUME NEW t \in Threads, NEW step, Goto(t, step),
             step \in {"measure", "pop"} <=> at[t] \in {"measure", "pop"},
             Len(entries') = Len(entries)
      PROVE  Bounded'
  BY <1>2, SameInserting DEF Bounded
<1>3. ASSUME NEW t \in Threads, Insert(t) PROVE Bounded'
  <2>1. Inserting' = Inserting \cup {t} /\ t \notin Inserting
    BY <1>3 DEF Insert, Goto, Inserting, CacheInv, Types
  <2>2. Cardinality(Inserting') = c + 1
    BY <2>1, InsertingSize
  <2>3. Len(entries') = Len(entries) \/ Len(entries') = Len(entries) + 1
    BY <1>3, InsertKeeps
  <2> QED
    BY <1>1, <2>2, <2>3 DEF Bounded
<1>4. ASSUME NEW t \in Threads, Measure(t) PROVE Bounded'
  <2>1. CASE Len(entries) > Capacity
    <3>1. Goto(t, "pop") /\ entries' = entries /\ at[t] = "measure"
      BY <1>4, <2>1 DEF Measure
    <3> QED
      BY <3>1, <1>2
  <2>2. CASE ~(Len(entries) > Capacity)
    <3>1. Inserting' = Inserting \ {t} /\ t \in Inserting /\ entries' = entries
      BY <1>4, <2>2 DEF Measure, Goto, Inserting, CacheInv, Types
    <3>2. Cardinality(Inserting') = c - 1 /\ Cardinality(Inserting') \in Nat
      BY <3>1, InsertingSize, RuntimeAssumption, FS_Subset, FS_RemoveElement, FS_CardinalityType DEF Inserting
    <3> QED
      BY <1>1, <2>2, <3>1, <3>2 DEF Bounded
  <2> QED
    BY <2>1, <2>2
<1>5. ASSUME NEW t \in Threads, Pop(t) PROVE Bounded'
  <2>1. Inserting' = Inserting \ {t} /\ t \in Inserting
    BY <1>5 DEF Pop, Goto, Inserting, CacheInv, Types
  <2>2. Cardinality(Inserting') = c - 1 /\ c - 1 \in Nat
    <3>1. IsFiniteSet(Inserting)
      BY RuntimeAssumption, FS_Subset DEF Inserting
    <3>2. IsFiniteSet(Inserting \ {t}) /\ Cardinality(Inserting \ {t}) = c - 1
      BY <2>1, <3>1, FS_RemoveElement
    <3> QED
      BY <2>1, <3>2, FS_CardinalityType
  <2>3. CASE entries = << >>
    <3>1. Len(entries') = 0
      BY <1>5, <2>3 DEF Pop
    <3> QED
      BY <1>1, <2>2, <3>1 DEF Bounded
  <2>4. CASE entries # << >>
    <3>1. Len(entries') = Len(entries) - 1
      BY <1>1, <1>5, <2>4 DEF Pop, DropFirst
    <3> QED
      BY <1>1, <2>2, <3>1 DEF Bounded
  <2> QED
    BY <2>3, <2>4
<1>6. ASSUME NEW t \in Threads, Touch(t) PROVE Bounded'
  <2>1. Len(entries') = Len(entries)
    BY <1>6, TouchKeeps
  <2>2. PICK step \in {"read", "KeyError"} : Goto(t, step)
    BY <1>6 DEF Touch
  <2> QED
    BY <1>2, <1>6, <2>1, <2>2 DEF Touch
<1>7. ASSUME NEW t \in Threads, Step(t), ~Insert(t), ~Measure(t), ~Pop(t), ~Touch(t)
      PROVE  Bounded'
  <2>1. entries' = entries
    BY <1>7 DEF Step, Prepare, Call, TakeQuestion, Build, Hit, Read, Complete, RunBatch, NonFinite, Finish
  <2>2. at[t] \notin {"measure", "pop"}
    BY <1>7 DEF Step, Prepare, Call, TakeQuestion, Build, Hit, Read, Complete, RunBatch, NonFinite, Finish
  <2>3. at' = at \/ \E step : Goto(t, step) /\ step \notin {"measure", "pop"}
    BY <1>7 DEF Step, Prepare, Call, TakeQuestion, Build, Hit, Read, Complete, RunBatch, NonFinite, Finish
  <2>4. CASE at' = at
    BY <2>1, <2>4 DEF Bounded, Inserting
  <2>5. CASE \E step : Goto(t, step) /\ step \notin {"measure", "pop"}
    BY <1>2, <2>1, <2>2, <2>5
  <2> QED
    BY <2>3, <2>4, <2>5
<1>8. ASSUME UNCHANGED vars PROVE Bounded'
  BY <1>8 DEF Bounded, Inserting, vars
<1> QED
  BY <1>3, <1>4, <1>5, <1>6, <1>7, <1>8 DEF Next, Rest

\* The cache exceeds its capacity by the insertions under way only, no key is in it
\* twice, and what is cached for a key is the prefix of that key.
THEOREM CacheIsSound == Spec => []CacheSound
<1>1. Init => Bounded
  <2> SUFFICES ASSUME Init PROVE Bounded
    OBVIOUS
  <2>1. IsFiniteSet(Inserting)
    BY RuntimeAssumption, FS_Subset DEF Inserting
  <2>2. Cardinality(Inserting) \in Nat /\ Len(entries) = 0 /\ Capacity \in Nat
    BY <2>1, FS_CardinalityType, RuntimeAssumption DEF Init
  <2> QED
    BY <2>2 DEF Bounded
<1>2. CacheInv /\ Bounded /\ [Next]_vars => Bounded'
  BY BoundedStep
<1>3. CacheInv /\ Bounded => CacheSound
  <2> SUFFICES ASSUME CacheInv, Bounded PROVE CacheSound
    OBVIOUS
  <2>1. ASSUME NEW i \in DOMAIN entries
        PROVE  entries[i].prefix =
                 BuildPrefix([type |-> entries[i].key[1], ins |-> entries[i].key[2],
                              options |-> entries[i].key[3]])
    <3>1. entries[i] \in Entries
      BY <2>1 DEF CacheInv, Types
    <3>2. PICK q \in Pool : entries[i] = Entry(q)
      BY <3>1 DEF Entries
    <3> DEFINE k == [type |-> q.type, ins |-> q.ins, options |-> q.options]
    <3>3. BuildPrefix(k) = BuildPrefix(q)
      BY KeyDecides
    <3>4. entries[i].prefix = BuildPrefix(q) /\ entries[i].key = <<q.type, q.ins, q.options>>
      BY <3>2 DEF Entry, Key
    <3> QED
      BY <3>3, <3>4
  <2> QED
    BY <2>1 DEF CacheSound, Bounded, CacheInv, Unique
<1> QED
  BY <1>1, <1>2, <1>3, CacheInvariant, PTL DEF Spec

----------------------------------------------------------------------------
\* A call that no other call overlaps: no other is under way while it is, and what it
\* has put into the cache or found there is still there.
Newest(t) == entries # << >> /\ entries[Len(entries)].key = Key(Question(t))
Undisturbed(t) ==
  /\ Under(t) => \A u \in Threads \ {t} : ~Under(u)
  /\ at[t] = "insert" => Key(Question(t)) \notin Keys
  /\ at[t] = "measure" => Newest(t)
  /\ at[t] = "pop" => Newest(t) /\ Len(entries) > 1
  /\ at[t] \in {"touch", "read"} => Key(Question(t)) \in Keys
  /\ at[t] # "KeyError"
AloneInv == \A t \in Threads : alone[t] => Undisturbed(t)

\* The key of the newest entry is in the cache.
LEMMA NewestIsKept ==
  ASSUME CacheInv, NEW t \in Threads, Newest(t)
  PROVE  Key(Question(t)) \in Keys
<1>1. entries \in Seq(Entries)
  BY DEF CacheInv, Types
<1>2. Len(entries) \in DOMAIN entries
  BY <1>1 DEF Newest
<1> QED
  BY <1>2 DEF Newest, Keys

\* A step of a call that is alone leaves it undisturbed.
LEMMA OwnStep ==
  ASSUME CacheInv, NEW t \in Threads, Step(t), ~Call(t), alone[t], Undisturbed(t)
  PROVE  Undisturbed(t)'
<1>1. Under(t)
  BY DEF Step, Prepare, Call, TakeQuestion, Build, Hit, Insert, Measure, Pop, Touch, Read,
         Complete, RunBatch, NonFinite, Finish, Under, Ends, Failures
<1>2. \A u \in Threads \ {t} : ~Under(u) /\ at'[u] = at[u]
  BY <1>1 DEF Step, Prepare, Call, TakeQuestion, Build, Hit, Insert, Measure, Pop, Touch, Read,
         Complete, RunBatch, NonFinite, Finish, Undisturbed, Goto, CacheInv, Types
<1>3. \A u \in Threads \ {t} : ~(at'[u] \notin {"idle"} \cup Ends)
  BY <1>2 DEF Under
<1>4. at' = at \/ \E step \in Steps : Goto(t, step) /\ at'[t] = step
  BY DEF Step, Prepare, Call, TakeQuestion, Build, Hit, Insert, Measure, Pop, Touch, Read,
         Complete, RunBatch, NonFinite, Finish, Goto, CacheInv, Types, Steps, Cached, Ends, Failures
<1>5. request' = request
  BY DEF Step, Prepare, Call, TakeQuestion, Build, Hit, Insert, Measure, Pop, Touch, Read,
         Complete, RunBatch, NonFinite, Finish, Own
<1> DEFINE q == Question(t)
<1>6. ASSUME at'[t] \in {"question", "direct", "test", "sequence", "batch"} \cup (Ends \ {"KeyError"})
      PROVE  Undisturbed(t)'
  BY <1>3, <1>6 DEF Undisturbed, Under, Cached, Ends, Failures
<1>7. CASE TakeQuestion(t) \/ Complete(t) \/ RunBatch(t) \/ NonFinite(t) \/ Finish(t)
  <2>1. at'[t] \in {"question", "direct", "test", "sequence", "batch"} \cup (Ends \ {"KeyError"})
    BY <1>7 DEF TakeQuestion, Complete, RunBatch, NonFinite, Finish, Goto, CacheInv, Types, Ends, Failures
  <2> QED
    BY <1>6, <2>1
<1>8. CASE Build(t)
  <2>1. CASE at[t] = "direct"
    <3>1. at'[t] = "sequence"
      BY <1>8, <2>1 DEF Build, Goto, CacheInv, Types
    <3> QED
      BY <1>6, <3>1
  <2>2. CASE at[t] = "test"
    <3>1. at'[t] = "insert" /\ Key(q) \notin Keys /\ UNCHANGED <<request, entries, items>>
      BY <1>8, <2>2 DEF Build, Own, Goto, CacheInv, Types
    <3> QED
      BY <1>3, <3>1 DEF Undisturbed, Under, Keys, Question, Questions
  <2> QED
    BY <1>8, <2>1, <2>2 DEF Build
<1>9. CASE Hit(t)
  <2>1. at'[t] = "touch" /\ Key(q) \in Keys /\ UNCHANGED <<request, entries, items>>
    BY <1>9 DEF Hit, Own, Goto, CacheInv, Types
  <2> QED
    BY <1>3, <2>1 DEF Undisturbed, Under, Keys, Question, Questions
<1>10. CASE Insert(t)
  <2>1. at'[t] = "measure" /\ UNCHANGED <<request, items>> /\ Key(q) \notin Keys
    BY <1>10 DEF Insert, Own, Goto, CacheInv, Types, Undisturbed
  <2>2. Len(entries') = Len(entries) + 1 /\ entries'[Len(entries')].key = Key(q) /\ CacheInv'
    BY <1>10, <2>1, InsertKeeps
  <2>3. entries' # << >>
    BY <2>2 DEF CacheInv, Types
  <2> QED
    BY <1>3, <2>1, <2>2, <2>3 DEF Undisturbed, Under, Newest, Question, Questions
<1>11. CASE Measure(t)
  <2>1. Newest(t) /\ UNCHANGED <<request, entries, items>>
    BY <1>11 DEF Measure, Own, Undisturbed
  <2>2. CASE Len(entries) > Capacity
    <3>1. at'[t] = "pop"
      BY <1>11, <2>2 DEF Measure, Goto, CacheInv, Types
    <3>2. Len(entries) > 1
      BY <2>2, RuntimeAssumption DEF CacheInv, Types
    <3> QED
      BY <1>3, <2>1, <3>1, <3>2 DEF Undisturbed, Under, Newest, Question, Questions
  <2>3. CASE ~(Len(entries) > Capacity)
    <3>1. at'[t] = "touch" /\ Key(q) \in Keys
      BY <1>11, <2>1, <2>3, NewestIsKept DEF Measure, Goto, CacheInv, Types
    <3> QED
      BY <1>3, <2>1, <3>1 DEF Undisturbed, Under, Keys, Question, Questions
  <2> QED
    BY <2>2, <2>3
<1>12. CASE Pop(t)
  <2>1. Newest(t) /\ Len(entries) > 1 /\ entries # << >>
    BY <1>12 DEF Pop, Undisturbed, Newest
  <2>2. at'[t] = "touch" /\ entries' = Tail(entries) /\ UNCHANGED <<request, items>>
    BY <1>12, <2>1 DEF Pop, DropFirst, Own, Goto, CacheInv, Types
  <2>3. entries'[Len(entries')] = entries[Len(entries)] /\ Len(entries') = Len(entries) - 1
        /\ entries' \in Seq(Entries)
    BY <2>1, <2>2, DropOldest DEF CacheInv
  <2>4. Len(entries') \in DOMAIN entries' /\ entries'[Len(entries')].key = Key(q)
    BY <2>1, <2>3 DEF Newest
  <2> QED
    BY <1>3, <2>2, <2>4 DEF Undisturbed, Under, Keys, Question, Questions
<1>13. CASE Touch(t)
  <2>1. Key(q) \in Keys
    BY <1>13 DEF Touch, Undisturbed
  <2>2. at'[t] = "read" /\ UNCHANGED <<request, items>> /\ Key(q) \in Keys'
    BY <1>13, <2>1, TouchKeeps DEF Touch, Own, Goto, CacheInv, Types
  <2> QED
    BY <1>3, <2>2 DEF Undisturbed, Under, Keys, Question, Questions
<1>14. CASE Read(t)
  <2>1. Key(q) \in Keys
    BY <1>14 DEF Read, Undisturbed
  <2>2. at'[t] = "sequence"
    BY <1>14, <2>1 DEF Read, Goto, CacheInv, Types
  <2> QED
    BY <1>6, <2>2
<1> QED
  BY <1>7, <1>8, <1>9, <1>10, <1>11, <1>12, <1>13, <1>14 DEF Step, Prepare

\* A call that has begun and is not over, as another one sees it.
LEMMA OthersStep ==
  ASSUME CacheInv, AloneInv, NEW t \in Threads, Step(t), NEW u \in Threads \ {t}, alone'[u]
  PROVE  Undisturbed(u)'
<1>1. alone[u] /\ Undisturbed(u)
  BY DEF Step, Prepare, Call, TakeQuestion, Build, Hit, Insert, Measure, Pop, Touch, Read,
         Complete, RunBatch, NonFinite, Finish, Own, AloneInv
<1>2. at'[u] = at[u]
  BY DEF Step, Prepare, Call, TakeQuestion, Build, Hit, Insert, Measure, Pop, Touch, Read,
         Complete, RunBatch, NonFinite, Finish, Goto, CacheInv, Types
<1>3. ~Under(u)
  <2>1. CASE Call(t)
    BY <1>1, <2>1 DEF Call
  <2>2. CASE ~Call(t)
    <3>1. Under(t)
      BY <2>2 DEF Step, Prepare, Call, TakeQuestion, Build, Hit, Insert, Measure, Pop, Touch,
             Read, Complete, RunBatch, NonFinite, Finish, Under, Ends, Failures
    <3> QED
      BY <1>1, <3>1 DEF Undisturbed
  <2> QED
    BY <2>1, <2>2
<1>4. at'[u] \in {"idle"} \cup (Ends \ {"KeyError"})
  BY <1>1, <1>2, <1>3 DEF Under, Undisturbed
<1> QED
  BY <1>4 DEF Undisturbed, Under, Ends, Failures

\* Every step leaves a call without company the entry it works with.
LEMMA AloneStep ==
  ASSUME CacheInv, AloneInv, [Next]_vars
  PROVE  AloneInv'
<1>1. ASSUME UNCHANGED vars PROVE AloneInv'
  BY <1>1 DEF AloneInv, Undisturbed, Under, Newest, Keys, Question, Questions, vars
<1>2. ASSUME NEW t \in Threads, Step(t) PROVE AloneInv'
  <2>1. ASSUME NEW u \in Threads \ {t}, alone'[u] PROVE Undisturbed(u)'
    BY <1>2, <2>1, OthersStep
  <2>2. ASSUME alone'[t], ~Call(t) PROVE Undisturbed(t)'
    <3>1. alone[t]
      BY <1>2, <2>2 DEF Step, Prepare, TakeQuestion, Build, Hit, Insert, Measure, Pop, Touch,
             Read, Complete, RunBatch, NonFinite, Finish, Own
    <3> QED
      BY <1>2, <2>2, <3>1, OwnStep DEF AloneInv
  <2>3. ASSUME alone'[t], Call(t) PROVE Undisturbed(t)'
    <3>1. at'[t] = "question" /\ \A u \in Threads \ {t} : at'[u] = at[u]
      BY <2>3 DEF Call, Goto, CacheInv, Types
    <3>2. \A u \in Threads \ {t} : ~Under(u)
      BY <2>3 DEF Call, CacheInv, Types
    <3> QED
      BY <3>1, <3>2 DEF Undisturbed, Under
  <2> QED
    BY <2>1, <2>2, <2>3 DEF AloneInv
<1> QED
  BY <1>1, <1>2 DEF Next, Rest

\* A call that no other call overlaps never loses the entry it works with: it does not
\* end with a KeyError, whatever the capacity and the requests.
THEOREM AloneNeverFails == Spec => []AloneIsSafe
<1>1. Init => AloneInv
  BY DEF Init, AloneInv, Undisturbed, Under
<1>2. CacheInv /\ AloneInv /\ [Next]_vars => AloneInv'
  BY AloneStep
<1>3. AloneInv => AloneIsSafe
  BY DEF AloneInv, Undisturbed, AloneIsSafe
<1> QED
  BY <1>1, <1>2, <1>3, CacheInvariant, PTL DEF Spec

----------------------------------------------------------------------------
\* Prompts and answers.

\* The answer that a question and a state make by themselves.
Right(q, state) == [type |-> q.type, labels |-> q.options, read |-> BuildSequence(q, state)]
Rights == {Right(x[1], x[2]) : x \in Pool \X {r.state : r \in Requests}}

ItemsDirect ==
  \A t \in Threads : \A i \in 1 .. Len(items[t]) :
    /\ items[t][i] = Item(Questions(t)[i], request[t].state)
    /\ Len(items[t][i].markers) = Len(Questions(t)[i].options)
AnswersRight ==
  /\ answers \in [Threads -> Seq(Rights)]
  /\ \A t \in Threads :
       /\ Len(answers[t]) <= Len(items[t])
       /\ \A i \in 1 .. Len(answers[t]) : answers[t][i] = Right(Questions(t)[i], request[t].state)
Counted ==
  \A t \in Threads :
    /\ at[t] \in {"batch", "returned"} => Len(items[t]) = Len(Questions(t))
    /\ at[t] = "returned" => Len(answers[t]) = Len(items[t])
AnswerInv == agent \in Runtimes /\ ItemsDirect /\ AnswersRight /\ Counted

\* The question of a prompt, and the state it was completed with.
LEMMA QuestionOfItem ==
  ASSUME CacheInv, NEW t \in Threads, NEW i \in 1 .. Len(Questions(t))
  PROVE  /\ Questions(t)[i] \in Pool /\ Questions(t)[i] \in QuestionForm
         /\ request[t].state \in {r.state : r \in Requests} /\ request[t].state \in Seq(Tokens)
         /\ Right(Questions(t)[i], request[t].state) \in Rights
<1>1. request[t] \in Requests
  BY DEF CacheInv, Types
<1>2. request[t].questions \in Seq(QuestionForm) /\ request[t].state \in Seq(Tokens)
  BY <1>1, RuntimeAssumption
<1> DEFINE qs == request[t].questions
           q == qs[i]
           state == request[t].state
<1>3. qs \in Seq(QuestionForm) /\ i \in 1 .. Len(qs) /\ Questions(t) = qs
  BY <1>2 DEF Questions
<1>4. q \in QuestionForm /\ q \in Pool
  <2> HIDE DEF qs
  <2>1. qs[i] \in QuestionForm /\ i \in DOMAIN qs
    BY <1>3
  <2> QED
    BY <1>1, <2>1 DEF Pool, qs
<1>5. state \in {r.state : r \in Requests}
  BY <1>1
<1>6. Right(q, state) \in Rights
  <2> HIDE DEF q, state
  <2> DEFINE x == <<q, state>>
  <2>1. x \in Pool \X {r.state : r \in Requests} /\ x[1] = q /\ x[2] = state
    BY <1>4, <1>5
  <2> HIDE DEF x
  <2>2. Right(x[1], x[2]) \in Rights
    BY <2>1 DEF Rights
  <2> QED
    BY <2>1, <2>2
<1> QED
  BY <1>2, <1>3, <1>4, <1>5, <1>6

\* A prompt that call t has prepared.
LEMMA ItemIsPrompt ==
  ASSUME CacheInv, ItemsDirect, NEW t \in Threads, NEW i \in 1 .. Len(items[t])
  PROVE  /\ IsPrompt(items[t][i], Len(Questions(t)[i].options), request[t].state)
         /\ Len(items[t][i].markers) = Len(Questions(t)[i].options)
         /\ Prompt(items[t][i])
         /\ [ids |-> items[t][i].ids, markers |-> items[t][i].markers] =
              BuildSequence(Questions(t)[i], request[t].state)
         /\ i \in 1 .. Len(Questions(t))
<1> DEFINE q == Questions(t)[i]
           state == request[t].state
           S == Sequence(BuildPrefix(q), state)
<1>1. i \in 1 .. Len(Questions(t))
  <2>1. Len(items[t]) <= Len(Questions(t)) /\ Len(items[t]) \in Nat
    BY DEF CacheInv, Cursor, Types
  <2>2. Len(Questions(t)) \in Nat
    BY RuntimeAssumption DEF CacheInv, Types, Questions
  <2> QED
    BY <2>1, <2>2
<1>2. q \in QuestionForm /\ state \in Seq(Tokens)
  BY <1>1, QuestionOfItem
<1>3. items[t][i] = Item(q, state) /\ Len(items[t][i].markers) = Len(q.options)
  BY DEF ItemsDirect
<1> HIDE DEF q, state
<1>4. items[t][i].ids = S.ids /\ items[t][i].markers = S.markers
  BY <1>3 DEF Item
<1>5. IsPrompt(S, Len(q.options), state)
  <2>1. IsPrefixOf(BuildPrefix(q), Len(q.options))
    BY <1>2, PrefixOfQuestion
  <2>2. Len(q.options) \in Nat
    BY <1>2 DEF QuestionForm
  <2> QED
    BY <1>2, <2>1, <2>2, PromptOfPrefix
<1>6. S = [ids |-> S.ids, markers |-> S.markers]
  BY DEF Sequence
<1>7. [ids |-> items[t][i].ids, markers |-> items[t][i].markers] = BuildSequence(q, state)
  <2> HIDE DEF S
  <2>1. [ids |-> items[t][i].ids, markers |-> items[t][i].markers] = S
    BY <1>4, <1>6, Zenon
  <2> QED
    BY <2>1 DEF S, BuildSequence
<1> HIDE DEF S
<1>8. IsPrompt(items[t][i], Len(q.options), state)
  BY <1>4, <1>5, Zenon DEF IsPrompt
<1>9. Prompt(items[t][i])
  BY <1>8 DEF IsPrompt, Prompt
<1> QED
  BY <1>1, <1>3, <1>7, <1>8, <1>9 DEF q, state

----------------------------------------------------------------------------
\* A step that neither prepares a prompt nor runs a batch.
LEMMA OtherSteps ==
  ASSUME CacheInv, AnswerInv, NEW t \in Threads, Step(t), ~Complete(t), ~RunBatch(t)
  PROVE  AnswerInv'
<1>1. UNCHANGED <<agent, request, items, answers>>
  BY DEF Step, Prepare, Call, TakeQuestion, Build, Hit, Insert, Measure, Pop, Touch, Read,
         NonFinite, Finish, Own
<1>2. \A u \in Threads \ {t} : at'[u] = at[u]
  BY DEF Step, Prepare, Call, TakeQuestion, Build, Hit, Insert, Measure, Pop, Touch, Read,
         NonFinite, Finish, Goto, CacheInv, Types
<1>3. /\ at'[t] \in {"batch", "returned"} => Len(items[t]) = Len(Questions(t))
      /\ at'[t] = "returned" => Len(answers[t]) = Len(items[t])
  <2>1. CASE TakeQuestion(t)
    BY <2>1 DEF TakeQuestion, Goto, CacheInv, Types
  <2>2. CASE Finish(t)
    BY <2>2 DEF Finish, Goto, CacheInv, Types, AnswerInv, Counted
  <2>3. CASE ~TakeQuestion(t) /\ ~Finish(t)
    <3>1. at'[t] \notin {"batch", "returned"}
      BY <2>3 DEF Step, Prepare, Call, Build, Hit, Insert, Measure, Pop, Touch, Read,
             NonFinite, Goto, CacheInv, Types
    <3> QED
      BY <3>1
  <2> QED
    BY <2>1, <2>2, <2>3
<1>4. Counted'
  <2> SUFFICES ASSUME NEW u \in Threads
               PROVE  /\ at'[u] \in {"batch", "returned"} => Len(items[u]) = Len(Questions(u))
                      /\ at'[u] = "returned" => Len(answers[u]) = Len(items[u])
    BY <1>1 DEF Counted, Questions
  <2>1. CASE u = t
    BY <1>3, <2>1
  <2>2. CASE u # t
    BY <1>2, <2>2 DEF AnswerInv, Counted
  <2> QED
    BY <2>1, <2>2
<1> QED
  BY <1>1, <1>4 DEF AnswerInv, ItemsDirect, AnswersRight, Questions

\* A prompt completed from the cached prefix is the one built from the question directly.
LEMMA CompleteStep ==
  ASSUME CacheInv, AnswerInv, NEW t \in Threads, Complete(t)
  PROVE  AnswerInv'
<1> DEFINE q == Question(t)
           state == request[t].state
           prompt == Sequence(prefix[t], state)
           n == Len(items[t])
<1>1. UNCHANGED <<agent, request, answers>> /\ at[t] = "sequence"
  BY DEF Complete, Own
<1>2. CASE ~Fits(prompt, q)
  <2>1. items' = items /\ Goto(t, "TokenBudgetExceeded")
    BY <1>2 DEF Complete
  <2>2. Counted'
    BY <1>1, <2>1 DEF AnswerInv, Counted, Goto, CacheInv, Types, Questions
  <2> QED
    BY <1>1, <2>1, <2>2 DEF AnswerInv, ItemsDirect, AnswersRight, Questions
<1>3. CASE Fits(prompt, q)
  <2>1. prefix[t] = BuildPrefix(q)
    BY <1>1 DEF CacheInv, Held, Holding
  <2> DEFINE item == Item(q, state)
  <2>2. items' = [items EXCEPT ![t] = Append(@, item)] /\ Goto(t, "question")
    BY <1>3, <2>1 DEF Complete, Item
  <2>3. Len(item.markers) = Len(q.options)
    BY <1>3, <2>1 DEF Fits, Item
  <2>4. items \in [Threads -> Seq(Items)] /\ items' \in [Threads -> Seq(Items)] /\ n \in Nat
    <3>1. CacheInv'
      BY CompleteKeeps
    <3> QED
      BY <3>1 DEF CacheInv, Types
  <2>5. q = Questions(t)[n + 1]
    BY DEF Question
  <2> HIDE DEF q, state, item
  <2>6. /\ Len(items'[t]) = n + 1 /\ items'[t][n + 1] = item
        /\ \A i \in 1 .. n : items'[t][i] = items[t][i]
        /\ \A u \in Threads \ {t} : items'[u] = items[u]
    <3>1. items'[t] = Append(items[t], item) /\ \A u \in Threads \ {t} : items'[u] = items[u]
      BY <2>2, <2>4
    <3>2. items[t] \in Seq(Items)
      BY <2>4
    <3> DEFINE old == items[t]
    <3> HIDE DEF old
    <3>3. /\ Len(Append(old, item)) = Len(old) + 1 /\ Append(old, item)[Len(old) + 1] = item
          /\ \A i \in 1 .. Len(old) : Append(old, item)[i] = old[i]
      BY <3>2 DEF old
    <3> QED
      BY <3>1, <3>3 DEF old
  <2>7. ItemsDirect'
    <3> SUFFICES ASSUME NEW u \in Threads, NEW i \in 1 .. Len(items'[u])
                 PROVE  /\ items'[u][i] = Item(Questions(u)[i], request[u].state)
                        /\ Len(items'[u][i].markers) = Len(Questions(u)[i].options)
      BY <1>1 DEF ItemsDirect, Questions
    <3>1. CASE u # t
      BY <2>6, <3>1 DEF AnswerInv, ItemsDirect
    <3>2. CASE u = t /\ i = n + 1
      BY <2>3, <2>5, <2>6, <3>2 DEF item, state
    <3>3. CASE u = t /\ i # n + 1
      <4>1. i \in 1 .. n
        BY <2>4, <2>6, <3>3
      <4> QED
        BY <2>6, <3>3, <4>1 DEF AnswerInv, ItemsDirect
    <3> QED
      BY <3>1, <3>2, <3>3
  <2>8. AnswersRight'
    <3>1. \A u \in Threads : Len(answers[u]) <= Len(items'[u])
      <4>1. Len(answers[t]) \in Nat /\ Len(answers[t]) <= n
        BY DEF AnswerInv, AnswersRight
      <4>2. Len(answers[t]) <= Len(items'[t])
        BY <2>4, <2>6, <4>1
      <4> QED
        BY <2>6, <4>2 DEF AnswerInv, AnswersRight
    <3> QED
      BY <1>1, <3>1 DEF AnswerInv, AnswersRight, Questions
  <2>9. Counted'
    <3> SUFFICES ASSUME NEW u \in Threads
                 PROVE  /\ at'[u] \in {"batch", "returned"} => Len(items'[u]) = Len(Questions(u))
                        /\ at'[u] = "returned" => Len(answers[u]) = Len(items'[u])
      BY <1>1 DEF Counted, Questions
    <3>1. CASE u = t
      BY <2>2, <3>1 DEF Goto, CacheInv, Types
    <3>2. CASE u # t
      <4>1. at'[u] = at[u] /\ items'[u] = items[u]
        BY <2>2, <2>6, <3>2 DEF Goto, CacheInv, Types
      <4> QED
        BY <4>1 DEF AnswerInv, Counted
    <3> QED
      BY <3>1, <3>2
  <2> QED
    BY <1>1, <2>7, <2>8, <2>9 DEF AnswerInv
<1> QED
  BY <1>2, <1>3

\* The answers of a batch are those of its questions.
LEMMA BatchStep ==
  ASSUME CacheInv, AnswerInv, NEW t \in Threads, RunBatch(t)
  PROVE  AnswerInv'
<1> DEFINE start == Len(answers[t])
           n == Len(items[t])
           end == Min({start + agent.batch, n})
           chunk == Chunk(t)
           k == end - start
           batch == Collate(chunk, PaddedLength(chunk, agent.multiple))
           new == [row \in DOMAIN batch |-> Answer(t, batch, row)]
           state == request[t].state
<1>1. /\ UNCHANGED <<agent, request, at, items>> /\ at[t] = "batch" /\ start < n
      /\ answers' = [answers EXCEPT ![t] = @ \o new]
  BY DEF RunBatch, Own
<1>2. agent.batch \in Nat \ {0} /\ agent.multiple \in Nat
  BY RuntimeAssumption DEF AnswerInv
<1>3. items[t] \in Seq(Items) /\ n \in Nat /\ answers[t] \in Seq(Rights) /\ start \in Nat
  BY DEF CacheInv, Types, AnswerInv, AnswersRight
<1>4. end \in start + 1 .. n /\ k \in Nat \ {0} /\ end \in Nat
  <2>1. start + agent.batch \in Int /\ n \in Int
    BY <1>2, <1>3
  <2>2. end = IF start + agent.batch <= n THEN start + agent.batch ELSE n
    BY <2>1, MinOfTwo
  <2> HIDE DEF end, start, n
  <2>3. start < n
    BY <1>1
  <2> QED
    BY <1>2, <1>3, <2>2, <2>3
<1>5. Len(chunk) = k /\ DOMAIN chunk = 1 .. k /\ \A r \in 1 .. k : chunk[r] = items[t][start + r]
  <2>1. chunk = SubSeq(items[t], start + 1, end)
    BY DEF Chunk
  <2> DEFINE s == items[t]
             m == start + 1
  <2>2. s \in Seq(Items) /\ m \in 1 .. Len(s) /\ end \in m .. Len(s) /\ chunk = SubSeq(s, m, end)
    <3>1. start + 1 \in 1 .. n /\ end \in start + 1 .. n
      <4>1. start < n
        BY <1>1
      <4> HIDE DEF start, n, end
      <4> QED
        BY <1>3, <1>4, <4>1
    <3> HIDE DEF chunk, end
    <3> QED
      BY <1>3, <2>1, <3>1
  <2>3. m = start + 1 /\ k = end - start
    OBVIOUS
  <2> HIDE DEF s, m, end, chunk, start, n, k
  <2>4. /\ chunk \in Seq(Items) /\ Len(chunk) = end - m + 1
        /\ \A r \in 1 .. end - m + 1 : chunk[r] = s[m + r - 1]
    BY <2>2
  <2>5. end - m + 1 = k /\ \A r \in 1 .. k : m + r - 1 = start + r
    BY <1>3, <1>4, <2>2, <2>3
  <2>6. Len(chunk) = k /\ DOMAIN chunk = 1 .. k
    BY <2>4, <2>5
  <2>7. \A r \in 1 .. k : chunk[r] = s[start + r]
    BY <2>4, <2>5
  <2> QED
    BY <2>6, <2>7 DEF s
<1>6. \A r \in 1 .. k : start + r \in 1 .. n
  <2> HIDE DEF end, start, n
  <2> QED
    BY <1>3, <1>4
<1>7. IsBatch(chunk)
  <2>1. \A r \in 1 .. k : Prompt(chunk[r])
    BY <1>5, <1>6, ItemIsPrompt DEF AnswerInv
  <2> HIDE DEF chunk, k
  <2> QED
    BY <1>4, <1>5, <2>1 DEF IsBatch
<1>8. DOMAIN batch = 1 .. k
  BY <1>5 DEF Collate
<1>9. ASSUME NEW r \in 1 .. k
      PROVE  /\ Answer(t, batch, r) = Right(Questions(t)[start + r], state)
             /\ Right(Questions(t)[start + r], state) \in Rights
  <2> DEFINE i == start + r
             q == Questions(t)[i]
  <2>1. i \in 1 .. n
    BY <1>6
  <2>2. /\ [ids |-> items[t][i].ids, markers |-> items[t][i].markers] = BuildSequence(q, state)
        /\ i \in 1 .. Len(Questions(t))
    BY <2>1, ItemIsPrompt DEF AnswerInv
  <2>3. r \in 1 .. Len(chunk) /\ chunk[r] = items[t][i]
    BY <1>5
  <2>4. RowSeen(batch[r]) = [ids |-> chunk[r].ids, markers |-> chunk[r].markers]
    <3> HIDE DEF chunk
    <3> QED
      BY <1>2, <1>7, <2>3, RowIsPrompt
  <2>5. RowSeen(batch[r]) = BuildSequence(q, state)
    BY <2>2, <2>3, <2>4, Zenon
  <2>6. Asked(t, r) = q
    BY DEF Asked
  <2>7. Right(q, state) \in Rights
    BY <2>2, QuestionOfItem
  <2> HIDE DEF batch, q, state
  <2>8. Answer(t, batch, r) = Right(q, state)
    BY <2>5, <2>6 DEF Answer, Right
  <2> QED
    BY <2>7, <2>8 DEF q, i
<1> HIDE DEF batch, chunk, k, state
<1>10. /\ new \in Seq(Rights) /\ Len(new) = k
       /\ \A r \in 1 .. k : new[r] = Right(Questions(t)[start + r], state)
  <2>1. /\ new \in [1 .. k -> Rights]
        /\ \A r \in 1 .. k : new[r] = Right(Questions(t)[start + r], state)
    BY <1>8, <1>9
  <2> HIDE DEF new
  <2> QED
    BY <1>4, <2>1
<1> HIDE DEF new
<1> DEFINE old == answers[t]
           all == old \o new
<1>11. /\ all \in Seq(Rights) /\ Len(all) = start + k
       /\ \A i \in 1 .. start : all[i] = old[i]
       /\ \A r \in 1 .. k : all[start + r] = new[r]
  <2>1. old \in Seq(Rights) /\ new \in Seq(Rights)
    BY <1>3, <1>10
  <2> HIDE DEF old
  <2>2. /\ all \in Seq(Rights) /\ Len(all) = Len(old) + Len(new)
        /\ \A i \in 1 .. Len(old) : all[i] = old[i]
        /\ \A r \in 1 .. Len(new) : all[Len(old) + r] = new[r]
    BY <2>1, Joins
  <2> QED
    BY <1>10, <2>2, Zenon DEF old
<1>12. \A i \in 1 .. start + k : all[i] = Right(Questions(t)[i], state)
  <2> SUFFICES ASSUME NEW i \in 1 .. start + k PROVE all[i] = Right(Questions(t)[i], state)
    OBVIOUS
  <2>1. CASE i \in 1 .. start
    <3>1. old[i] = Right(Questions(t)[i], state)
      BY <2>1 DEF AnswerInv, AnswersRight, state
    <3> QED
      BY <1>11, <2>1, <3>1, Zenon
  <2>2. CASE i \notin 1 .. start
    <3> HIDE DEF start, all
    <3>1. i - start \in 1 .. k /\ start + (i - start) = i
      BY <1>3, <1>4, <2>2
    <3>2. PICK r \in 1 .. k : start + r = i
      BY <3>1, Zenon
    <3>3. all[start + r] = Right(Questions(t)[start + r], state)
      BY <1>10, <1>11, Zenon
    <3> QED
      BY <3>2, <3>3, Zenon
  <2> QED
    BY <2>1, <2>2
<1>13. start + k <= n
  <2> HIDE DEF start, end, n
  <2> QED
    BY <1>3, <1>4 DEF k
<1>14. answers' = [answers EXCEPT ![t] = all] /\ answers \in [Threads -> Seq(Rights)]
  BY <1>1 DEF AnswerInv, AnswersRight
<1> HIDE DEF all
<1>15. /\ answers' \in [Threads -> Seq(Rights)] /\ answers'[t] = all
       /\ \A u \in Threads \ {t} : answers'[u] = answers[u]
  BY <1>11, <1>14
<1>16. AnswersRight'
  <2> SUFFICES ASSUME NEW u \in Threads
               PROVE  /\ Len(answers'[u]) <= Len(items[u])
                      /\ \A i \in 1 .. Len(answers'[u]) :
                           answers'[u][i] = Right(Questions(u)[i], request[u].state)
    BY <1>1, <1>15 DEF AnswersRight, Questions
  <2>1. CASE u = t
    BY <1>11, <1>12, <1>13, <1>15, <2>1 DEF state
  <2>2. CASE u # t
    BY <1>15, <2>2 DEF AnswerInv, AnswersRight
  <2> QED
    BY <2>1, <2>2
<1>17. Counted'
  <2> SUFFICES ASSUME NEW u \in Threads
               PROVE  /\ at[u] \in {"batch", "returned"} => Len(items[u]) = Len(Questions(u))
                      /\ at[u] = "returned" => Len(answers'[u]) = Len(items[u])
    BY <1>1 DEF Counted, Questions
  <2>1. CASE u = t
    BY <1>1, <2>1 DEF AnswerInv, Counted
  <2>2. CASE u # t
    BY <1>15, <2>2 DEF AnswerInv, Counted
  <2> QED
    BY <2>1, <2>2
<1> QED
  BY <1>1, <1>16, <1>17 DEF AnswerInv, ItemsDirect, Questions

\* Every step keeps prompts, answers and the size of the batch right.
LEMMA AnswerStep ==
  ASSUME CacheInv, AnswerInv, [Next]_vars
  PROVE  AnswerInv'
<1>1. ASSUME UNCHANGED vars PROVE AnswerInv'
  BY <1>1 DEF AnswerInv, ItemsDirect, AnswersRight, Counted, Questions, vars
<1>2. ASSUME NEW t \in Threads, Step(t) PROVE AnswerInv'
  BY <1>2, OtherSteps, CompleteStep, BatchStep
<1> QED
  BY <1>1, <1>2 DEF Next, Rest

\* Whatever the cache, the batches and the other threads do, the prompts and the answers
\* of a call are those of its questions and its state.
THEOREM AnswerInvariant == Spec => []AnswerInv
<1>1. Init => AnswerInv
  <2> SUFFICES ASSUME Init PROVE AnswerInv
    OBVIOUS
  <2>1. \A t \in Threads : items[t] = << >> /\ answers[t] = << >> /\ at[t] = "idle"
    BY DEF Init
  <2>2. answers \in [Threads -> Seq(Rights)]
    BY DEF Init
  <2>3. Len(<< >>) = 0
    OBVIOUS
  <2> QED
    BY <2>1, <2>2, <2>3 DEF Init, AnswerInv, ItemsDirect, AnswersRight, Counted
<1>2. CacheInv /\ AnswerInv /\ [Next]_vars => AnswerInv'
  BY AnswerStep
<1> QED
  BY <1>1, <1>2, CacheInvariant, PTL DEF Spec

\* What a call returns are answers to its own questions, in their order, each read from
\* the prompt the question and the state give without any cache, batch or padding:
\* predict_many in agent.py agrees with building every sequence anew.
THEOREM AnswersAreAlwaysDirect == Spec => []AnswersAreDirect
<1>1. CacheInv /\ AnswerInv => AnswersAreDirect
  <2> SUFFICES ASSUME CacheInv, AnswerInv, NEW t \in Threads, at[t] = "returned"
               PROVE  /\ Len(answers[t]) = Len(Questions(t))
                      /\ \A i \in DOMAIN answers[t] :
                           answers[t][i] = [type |-> Questions(t)[i].type,
                                            labels |-> Questions(t)[i].options,
                                            read |-> Direct(t, i)]
    BY DEF AnswersAreDirect
  <2>1. Len(answers[t]) = Len(Questions(t))
    BY DEF AnswerInv, Counted
  <2>2. DOMAIN answers[t] = 1 .. Len(answers[t])
    BY DEF AnswerInv, AnswersRight
  <2>3. \A i \in 1 .. Len(answers[t]) : answers[t][i] = Right(Questions(t)[i], request[t].state)
    BY DEF AnswerInv, AnswersRight
  <2> QED
    BY <2>1, <2>2, <2>3 DEF Right, Direct
<1> QED
  BY <1>1, AnswerInvariant, CacheInvariant, PTL

\* The markers of every prompt, from build_prefix through build_sequence's cut, are exactly
\* the positions of its mask tokens, in order and one for each option: no option, label or
\* state can bring a mask token of its own, and the cut loses no marker.
THEOREM MarkersAreAlwaysMasks == Spec => []MarkersAreMasks
<1>1. CacheInv /\ AnswerInv => MarkersAreMasks
  <2> SUFFICES ASSUME CacheInv, AnswerInv, NEW t \in Threads, NEW i \in DOMAIN items[t]
               PROVE  LET item == items[t][i]
                      IN  /\ Len(item.markers) = Len(Questions(t)[i].options)
                          /\ ToSet(item.markers) = {p \in DOMAIN item.ids : item.ids[p] = Mask}
                          /\ \A m \in 2 .. Len(item.markers) : item.markers[m - 1] < item.markers[m]
    BY DEF MarkersAreMasks
  <2>1. i \in 1 .. Len(items[t])
    BY DEF CacheInv, Types
  <2>2. /\ IsPrompt(items[t][i], Len(Questions(t)[i].options), request[t].state)
        /\ Len(items[t][i].markers) = Len(Questions(t)[i].options)
    BY <2>1, ItemIsPrompt DEF AnswerInv
  <2> QED
    BY <2>2, Zenon DEF IsPrompt
<1> QED
  BY <1>1, AnswerInvariant, CacheInvariant, PTL

\* A prompt has at most MaxLen tokens, and only one of exactly MaxLen lacks a part of the
\* state or the separator behind it.
THEOREM CutsOnlyWhenFull == Spec => []CutOnlyWhenFull
<1>1. CacheInv /\ AnswerInv => CutOnlyWhenFull
  <2> SUFFICES ASSUME CacheInv, AnswerInv, NEW t \in Threads, NEW i \in DOMAIN items[t]
               PROVE  LET ids == items[t][i].ids
                          ending == Clean(request[t].state) \o << Sep >>
                      IN  Len(ids) <= MaxLen /\ (Len(ids) = MaxLen \/ IsSuffix(ending, ids))
    BY DEF CutOnlyWhenFull
  <2>1. i \in 1 .. Len(items[t])
    BY DEF CacheInv, Types
  <2>2. IsPrompt(items[t][i], Len(Questions(t)[i].options), request[t].state)
    BY <2>1, ItemIsPrompt DEF AnswerInv
  <2> QED
    BY <2>2, Zenon DEF IsPrompt
<1> QED
  BY <1>1, AnswerInvariant, CacheInvariant, PTL
=============================================================================
