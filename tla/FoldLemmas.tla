------------------------------ MODULE FoldLemmas ------------------------------
(***************************************************************************)
(* What the proofs about prompts and about routing need of the community   *)
(* modules' operators: induction over the naturals, the largest and the    *)
(* least of some numbers, sequences joined, and sums over a finite set.    *)
(*                                                                         *)
(* FlattenSeq() and SumFunction() are recursive functions: that they are *)
(* defined is shown by induction first, and then what their values are.    *)
(***************************************************************************)
EXTENDS Integers, SequencesExt, FiniteSetsExt, FiniteSetTheorems, SequenceTheorems,
        WellFoundedInduction, TLAPS

----------------------------------------------------------------------------
\* Induction, and the largest of some numbers.

\* The order of the naturals as a relation, for the theorems on well-founded relations.
LEMMA LessPairs == \A m, n \in Nat : m < n => <<m, n>> \in OpToRel(<, Nat)
  BY Zenon DEF OpToRel

\* Every set of naturals has a least member: the induction of the lemmas below.
LEMMA Least == \A T \in SUBSET Nat : T # {} => \E n \in T : \A m \in T : n <= m
<1> SUFFICES ASSUME NEW T \in SUBSET Nat, T # {} PROVE \E n \in T : \A m \in T : n <= m
  OBVIOUS
<1>1. PICK n \in T : \A m \in T : ~(<<m, n>> \in OpToRel(<, Nat))
  BY NatLessThanWellFounded, WFMin, Zenon
<1>2. \A m \in T : ~(m < n)
  BY <1>1, LessPairs, Zenon
<1> QED
  BY <1>2

\* Induction on the naturals, for a property given as the set of those that have it.
LEMMA Induct ==
  \A P : 0 \in P /\ (\A n \in Nat : n \in P => n + 1 \in P) => Nat \subseteq P
<1> SUFFICES ASSUME NEW P, 0 \in P, \A n \in Nat : n \in P => n + 1 \in P, ~(Nat \subseteq P)
             PROVE  FALSE
  OBVIOUS
<1> DEFINE T == Nat \ P
<1>1. PICK n \in T : \A m \in T : n <= m
  BY Least
<1>2. n # 0 /\ n \in Nat /\ n - 1 \in Nat
  BY <1>1
<1>3. n - 1 \in P
  BY <1>1, <1>2
<1> QED
  BY <1>1, <1>2, <1>3

\* Max and Min of two integers.
LEMMA MaxOfTwo ==
  \A a, b \in Int : Max({a, b}) \in {a, b} /\ Max({a, b}) >= a /\ Max({a, b}) >= b
<1> SUFFICES ASSUME NEW a \in Int, NEW b \in Int
             PROVE  Max({a, b}) \in {a, b} /\ Max({a, b}) >= a /\ Max({a, b}) >= b
  OBVIOUS
<1>1. \E x \in {a, b} : \A y \in {a, b} : x >= y
  <2>1. CASE a >= b
    BY <2>1
  <2>2. CASE b >= a
    BY <2>2
  <2> QED
    BY <2>1, <2>2
<1>2. Max({a, b}) \in {a, b} /\ \A y \in {a, b} : Max({a, b}) >= y
  BY <1>1, Zenon DEF Max
<1> QED
  BY <1>2

\* Min of two integers is the smaller.
LEMMA MinOfTwo ==
  \A a, b \in Int : Min({a, b}) = IF a <= b THEN a ELSE b
<1> SUFFICES ASSUME NEW a \in Int, NEW b \in Int
             PROVE  Min({a, b}) = IF a <= b THEN a ELSE b
  OBVIOUS
<1>1. \E x \in {a, b} : \A y \in {a, b} : x <= y
  <2>1. CASE a >= b
    BY <2>1
  <2>2. CASE b >= a
    BY <2>2
  <2> QED
    BY <2>1, <2>2
<1>2. Min({a, b}) \in {a, b} /\ \A y \in {a, b} : Min({a, b}) <= y
  BY <1>1, Zenon DEF Min
<1> QED
  BY <1>2

\* The largest of the values of a sequence of naturals.
LEMMA LargestOfMany ==
  ASSUME NEW n \in Nat \ {0}, NEW f, \A i \in 1 .. n : f[i] \in Nat
  PROVE  /\ Max({f[i] : i \in 1 .. n}) \in Nat
         /\ \A i \in 1 .. n : f[i] <= Max({f[j] : j \in 1 .. n})
         /\ \E i \in 1 .. n : f[i] = Max({f[j] : j \in 1 .. n})
<1> DEFINE Good == {k \in Nat : k + 1 <= n => \E m \in 1 .. k + 1 : \A i \in 1 .. k + 1 : f[i] <= f[m]}
<1>1. 0 \in Good
  OBVIOUS
<1>2. ASSUME NEW k \in Nat, k \in Good
      PROVE  k + 1 \in Good
  <2> SUFFICES ASSUME k + 1 + 1 <= n
               PROVE  \E m \in 1 .. k + 1 + 1 : \A i \in 1 .. k + 1 + 1 : f[i] <= f[m]
    OBVIOUS
  <2>1. PICK m \in 1 .. k + 1 : \A i \in 1 .. k + 1 : f[i] <= f[m]
    BY <1>2
  <2>2. f[m] \in Nat /\ f[k + 1 + 1] \in Nat
    OBVIOUS
  <2>3. CASE f[k + 1 + 1] <= f[m]
    <3>1. \A i \in 1 .. k + 1 + 1 : f[i] <= f[m]
      BY <2>1, <2>3
    <3> QED
      BY <3>1
  <2>4. CASE f[m] < f[k + 1 + 1]
    <3>1. ASSUME NEW i \in 1 .. k + 1 + 1
          PROVE  f[i] <= f[k + 1 + 1]
      <4>1. CASE i = k + 1 + 1
        BY <4>1, <2>2
      <4>2. CASE i # k + 1 + 1
        <5>1. f[i] \in Nat /\ f[i] <= f[m]
          BY <2>1, <4>2
        <5> QED
          BY <5>1, <2>2, <2>4
      <4> QED
        BY <4>1, <4>2
    <3> QED
      BY <3>1
  <2> QED
    BY <2>2, <2>3, <2>4
<1> HIDE DEF Good
<1>3. n - 1 \in Good
  BY <1>1, <1>2, Induct
<1>4. PICK m \in 1 .. n : \A i \in 1 .. n : f[i] <= f[m]
  BY <1>3 DEF Good
<1> DEFINE F == {f[i] : i \in 1 .. n}
<1>5. f[m] \in F /\ \A y \in F : f[m] >= y
  BY <1>4
<1>6. Max(F) \in F /\ \A y \in F : Max(F) >= y
  BY <1>5, Zenon DEF Max
<1> QED
  BY <1>6

----------------------------------------------------------------------------
\* Sequences, one behind the other.

\* What a concatenation is made of.
LEMMA Joins ==
  \A S : \A s, t \in Seq(S) :
    /\ s \o t \in Seq(S)
    /\ Len(s \o t) = Len(s) + Len(t)
    /\ \A p \in 1 .. Len(s) : (s \o t)[p] = s[p]
    /\ \A p \in 1 .. Len(t) : (s \o t)[Len(s) + p] = t[p]
<1> SUFFICES ASSUME NEW S, NEW s \in Seq(S), NEW t \in Seq(S)
             PROVE  /\ s \o t \in Seq(S)
                    /\ Len(s \o t) = Len(s) + Len(t)
                    /\ \A p \in 1 .. Len(s) : (s \o t)[p] = s[p]
                    /\ \A p \in 1 .. Len(t) : (s \o t)[Len(s) + p] = t[p]
  OBVIOUS
<1> QED
  OBVIOUS

\* FlattenSeq() of the first n of some sequences.
Flat(s, n) == FlattenSeq(SubSeq(s, 1, n))

\* The recursive definition that FlattenSeq() is made with has a solution.
\* Joined() keeps the concatenation from the provers where it does not matter.
Joined(a, b) == a \o b
Solves(f, s, n) ==
  f = [i \in 1 .. n |-> IF i = 1 THEN s[i] ELSE Joined(f[i - 1], s[i])]

\* The recursion that joins n sequences has a solution, for every n.
LEMMA FlattenExists ==
  ASSUME NEW s
  PROVE  \A n \in Nat : \E f : Solves(f, s, n)
<1> DEFINE Good == {n \in Nat : \E f : Solves(f, s, n)}
<1>1. 0 \in Good
  <2>1. Solves([i \in 1 .. 0 |-> IF i = 1 THEN s[i] ELSE << >>], s, 0)
    BY DEF Solves
  <2> QED
    BY <2>1
<1>2. ASSUME NEW n \in Nat, n \in Good
      PROVE  n + 1 \in Good
  <2>1. PICK f : Solves(f, s, n)
    BY <1>2
  <2> DEFINE v == IF n + 1 = 1 THEN s[n + 1] ELSE Joined(f[n], s[n + 1])
             g == [i \in 1 .. n + 1 |-> IF i = n + 1 THEN v ELSE f[i]]
  <2>2. ASSUME NEW i \in 1 .. n + 1
        PROVE  g[i] = IF i = 1 THEN s[i] ELSE Joined(g[i - 1], s[i])
    <3>1. CASE i = n + 1
      BY <3>1
    <3>2. CASE i # n + 1
      <4>1. g[i] = f[i] /\ i \in 1 .. n
        BY <3>2
      <4>2. i # 1 => g[i - 1] = f[i - 1]
        BY <3>2
      <4> QED
        BY <2>1, <4>1, <4>2 DEF Solves
    <3> QED
      BY <3>1, <3>2
  <2>3. g = [i \in 1 .. n + 1 |-> g[i]]
    OBVIOUS
  <2> HIDE DEF g
  <2>4. Solves(g, s, n + 1)
    BY <2>2, <2>3 DEF Solves
  <2> QED
    BY <2>4
<1> HIDE DEF Good
<1>3. Nat \subseteq Good
  BY <1>1, <1>2, Induct
<1> QED
  BY <1>3 DEF Good

\* FlattenSeq() is the last value of such a solution.
LEMMA FlattenSolution ==
  ASSUME NEW s, Len(s) \in Nat \ {0}
  PROVE  \E f : Solves(f, s, Len(s)) /\ FlattenSeq(s) = f[Len(s)]
<1> DEFINE Flattened(f) == f = [i \in 1 .. Len(s) |-> IF i = 1 THEN s[i] ELSE Joined(f[i - 1], s[i])]
<1>1. FlattenSeq(s) = (CHOOSE f : Flattened(f))[Len(s)]
  BY Zenon DEF FlattenSeq, Joined
<1>2. \E f : Flattened(f)
  BY FlattenExists DEF Solves
<1> HIDE DEF Flattened
<1>3. Flattened(CHOOSE f : Flattened(f))
  BY <1>2, Zenon
<1> QED
  BY <1>1, <1>3, Zenon DEF Flattened, Solves

\* A solution starts with the first sequence and joins one more at each step.
LEMMA SolutionSteps ==
  \A f, s : \A n \in Nat : Solves(f, s, n) =>
         /\ n >= 1 => f[1] = s[1]
         /\ \A j \in 1 .. n - 1 : f[j + 1] = Joined(f[j], s[j + 1])
<1> SUFFICES ASSUME NEW f, NEW s, NEW n \in Nat, Solves(f, s, n)
             PROVE  /\ n >= 1 => f[1] = s[1]
                    /\ \A j \in 1 .. n - 1 : f[j + 1] = Joined(f[j], s[j + 1])
  BY Zenon
<1> DEFINE e(i) == IF i = 1 THEN s[i] ELSE Joined(f[i - 1], s[i])
<1>1. f = [i \in 1 .. n |-> e(i)]
  BY Zenon DEF Solves
<1>2. e(1) = s[1]
  OBVIOUS
<1>3. \A j \in 1 .. n - 1 : j + 1 \in 1 .. n /\ j + 1 # 1 /\ j + 1 - 1 = j
  OBVIOUS
<1>4. \A j \in 1 .. n - 1 : e(j + 1) = Joined(f[j], s[j + 1])
  <2>1. ASSUME NEW i, NEW j, i # 1, i - 1 = j
        PROVE  e(i) = Joined(f[j], s[i])
    BY <2>1, Zenon
  <2> HIDE DEF e
  <2> QED
    BY <1>3, <2>1
<1> HIDE DEF e
<1>5. \A i \in 1 .. n : f[i] = e(i)
  BY <1>1, Zenon
<1>6. n >= 1 => 1 \in 1 .. n
  OBVIOUS
<1> QED
  BY <1>2, <1>3, <1>4, <1>5, <1>6, Zenon

\* Solutions for two sequences agree as far as the sequences do.
LEMMA SolutionsAgree ==
  \A s, t, f, g : \A m, n \in Nat :
    Solves(f, s, m) /\ Solves(g, t, n) /\ m <= n /\ (\A i \in 1 .. m : s[i] = t[i])
      => \A i \in 1 .. m : f[i] = g[i]
<1> SUFFICES ASSUME NEW s, NEW t, NEW f, NEW g, NEW m \in Nat, NEW n \in Nat,
                    Solves(f, s, m), Solves(g, t, n), m <= n, \A i \in 1 .. m : s[i] = t[i]
             PROVE  \A i \in 1 .. m : f[i] = g[i]
  OBVIOUS
<1> DEFINE Good == {k \in Nat : k + 1 <= m => f[k + 1] = g[k + 1]}
<1>0. /\ m >= 1 => f[1] = s[1] /\ g[1] = t[1]
      /\ \A j \in 1 .. m - 1 : f[j + 1] = Joined(f[j], s[j + 1]) /\ g[j + 1] = Joined(g[j], t[j + 1])
  <2>1. /\ m >= 1 => f[1] = s[1]
        /\ \A j \in 1 .. m - 1 : f[j + 1] = Joined(f[j], s[j + 1])
    BY SolutionSteps
  <2>2. /\ n >= 1 => g[1] = t[1]
        /\ \A j \in 1 .. n - 1 : g[j + 1] = Joined(g[j], t[j + 1])
    BY SolutionSteps
  <2>3. \A j \in 1 .. m - 1 : j \in 1 .. n - 1
    OBVIOUS
  <2> QED
    BY <2>1, <2>2, <2>3
<1>1. 0 \in Good
  BY <1>0
<1>2. ASSUME NEW k \in Nat, k \in Good
      PROVE  k + 1 \in Good
  <2> SUFFICES ASSUME k + 1 + 1 <= m PROVE f[k + 1 + 1] = g[k + 1 + 1]
    OBVIOUS
  <2>1. k + 1 \in 1 .. m - 1 /\ k + 1 + 1 \in 1 .. m
    OBVIOUS
  <2>2. f[k + 1] = g[k + 1]
    BY <1>2, <2>1
  <2> QED
    BY <1>0, <2>1, <2>2
<1> HIDE DEF Good
<1>3. Nat \subseteq Good
  BY <1>1, <1>2, Induct
<1>4. \A i \in 1 .. m : i - 1 \in Nat /\ i - 1 + 1 = i
  OBVIOUS
<1> QED
  BY <1>3, <1>4 DEF Good

\* Nothing makes nothing.
LEMMA FlatNothing == \A s : Flat(s, 0) = << >>
<1> SUFFICES ASSUME NEW s PROVE Flat(s, 0) = << >>
  OBVIOUS
<1>1. SubSeq(s, 1, 0) = << >> /\ Len(<< >>) = 0
  BY SubSeqEmpty
<1>2. FlattenSeq(<< >>) = << >>
  BY <1>1, Zenon DEF FlattenSeq
<1> QED
  BY <1>1, <1>2 DEF Flat

\* One more sequence is appended to what the ones before it make.
LEMMA FlatStep ==
  ASSUME NEW S, NEW s \in Seq(Seq(S)), NEW k \in 0 .. Len(s) - 1, Flat(s, k) \in Seq(S)
  PROVE  Flat(s, k + 1) = Flat(s, k) \o s[k + 1]
<1> DEFINE a == SubSeq(s, 1, k)
           b == SubSeq(s, 1, k + 1)
<1>1. /\ Len(a) = k /\ Len(b) = k + 1 /\ b[k + 1] = s[k + 1] /\ s[k + 1] \in Seq(S)
      /\ \A i \in 1 .. k : a[i] = b[i]
  OBVIOUS
<1>2. k \in Nat /\ k + 1 \in Nat \ {0} /\ k + 1 \in Nat /\ k <= k + 1 /\ k + 1 \in 1 .. k + 1
  OBVIOUS
<1>3. Flat(s, k) = FlattenSeq(a) /\ Flat(s, k + 1) = FlattenSeq(b)
  BY DEF Flat
<1> HIDE DEF a, b
<1>4. PICK g : Solves(g, b, k + 1) /\ FlattenSeq(b) = g[k + 1]
  BY <1>1, <1>2, FlattenSolution
<1>5. g[1] = b[1] /\ \A j \in 1 .. k : g[j + 1] = Joined(g[j], b[j + 1])
  <2>1. \A n \in Nat : Solves(g, b, n) =>
          /\ n >= 1 => g[1] = b[1]
          /\ \A j \in 1 .. n - 1 : g[j + 1] = Joined(g[j], b[j + 1])
    BY SolutionSteps, Zenon
  <2>2. k + 1 >= 1 /\ k + 1 - 1 = k
    BY <1>2
  <2> QED
    BY <1>2, <1>4, <2>1, <2>2
<1>6. CASE k = 0
  <2>1. FlattenSeq(a) = << >>
    BY <1>6, FlatNothing DEF a, Flat
  <2>2. FlattenSeq(b) = s[k + 1]
    BY <1>1, <1>4, <1>5, <1>6
  <2> QED
    BY <1>1, <1>3, <2>1, <2>2, ConcatEmptySeq
<1>7. CASE k # 0
  <2>0. k \in 1 .. k
    BY <1>2, <1>7
  <2>1. PICK f : Solves(f, a, k) /\ FlattenSeq(a) = f[k]
    <3>1. Len(a) \in Nat \ {0}
      BY <1>1, <1>2, <1>7
    <3>2. \E f : Solves(f, a, Len(a)) /\ FlattenSeq(a) = f[Len(a)]
      BY <3>1, FlattenSolution, Zenon
    <3> QED
      BY <1>1, <3>2, Zenon
  <2>2. \A i \in 1 .. k : f[i] = g[i]
    <3>1. Solves(f, a, k) /\ Solves(g, b, k + 1) /\ \A i \in 1 .. k : a[i] = b[i]
      BY <1>1, <1>4, <2>1, Zenon
    <3>2. k \in Nat /\ k + 1 \in Nat /\ k <= k + 1
      BY <1>2, Zenon
    <3> QED
      BY <3>1, <3>2, SolutionsAgree, SMTT(30)
  <2>3. f[k] = g[k] /\ g[k + 1] = Joined(g[k], b[k + 1])
    BY <2>0, <2>2, <1>5, Zenon
  <2> QED
    BY <1>1, <1>3, <1>4, <2>1, <2>3, Zenon DEF Joined
<1> QED
  BY <1>6, <1>7

\* Sequences over S, joined, are a sequence over S.
LEMMA FlatType ==
  ASSUME NEW S, NEW s \in Seq(Seq(S))
  PROVE  \A n \in 0 .. Len(s) : Flat(s, n) \in Seq(S)
<1> DEFINE Good == {n \in Nat : n <= Len(s) => Flat(s, n) \in Seq(S)}
<1>1. 0 \in Good
  <2>1. << >> \in Seq(S) /\ Flat(s, 0) = << >>
    BY FlatNothing
  <2> QED
    BY <2>1
<1>2. ASSUME NEW n \in Nat, n \in Good
      PROVE  n + 1 \in Good
  <2> SUFFICES ASSUME n + 1 <= Len(s) PROVE Flat(s, n + 1) \in Seq(S)
    OBVIOUS
  <2>1. n \in 0 .. Len(s) - 1 /\ s[n + 1] \in Seq(S)
    OBVIOUS
  <2>2. Flat(s, n) \in Seq(S)
    BY <1>2
  <2>3. Flat(s, n + 1) = Flat(s, n) \o s[n + 1]
    BY <2>1, <2>2, FlatStep, Zenon
  <2> HIDE DEF Good
  <2>4. Flat(s, n) \o s[n + 1] \in Seq(S)
    BY <2>1, <2>2
  <2> QED
    BY <2>3, <2>4, Zenon
<1> HIDE DEF Good
<1>3. Nat \subseteq Good
  BY <1>1, <1>2, Induct
<1> QED
  BY <1>3 DEF Good

\* Joining a sequence of sequences is joining all of its prefixes up to the last.
LEMMA FlatWhole ==
  ASSUME NEW S, NEW s \in Seq(Seq(S))
  PROVE  FlattenSeq(s) = Flat(s, Len(s)) /\ FlattenSeq(s) \in Seq(S)
<1>1. SubSeq(s, 1, Len(s)) = s /\ Len(s) \in 0 .. Len(s)
  OBVIOUS
<1> QED
  BY <1>1, FlatType DEF Flat

----------------------------------------------------------------------------
\* Sums over a finite set, and the first that passes a test.

\* The recursive definition that SumFunction() is made with, of the values of g.
Some(T) == CHOOSE x \in T : TRUE
Sums(f, g, S) == f = [T \in SUBSET S |-> IF T = {} THEN 0 ELSE g[Some(T)] + f[T \ {Some(T)}]]

\* A set without one of its elements is smaller by one.
LEMMA OneLess ==
  \A T : IsFiniteSet(T) /\ T # {} =>
    /\ Some(T) \in T /\ IsFiniteSet(T \ {Some(T)})
    /\ Cardinality(T) \in Nat /\ Cardinality(T) # 0
    /\ Cardinality(T \ {Some(T)}) = Cardinality(T) - 1
<1> SUFFICES ASSUME NEW T, IsFiniteSet(T), T # {}
             PROVE  /\ Some(T) \in T /\ IsFiniteSet(T \ {Some(T)})
                    /\ Cardinality(T) \in Nat /\ Cardinality(T) # 0
                    /\ Cardinality(T \ {Some(T)}) = Cardinality(T) - 1
  OBVIOUS
<1>1. Some(T) \in T
  BY Zenon DEF Some
<1> QED
  BY <1>1, FS_EmptySet, FS_RemoveElement, FS_CardinalityType

\* It has a solution on the subsets of at most n elements, for every n, and so on all.
LEMMA SumsExist ==
  ASSUME NEW S, IsFiniteSet(S), NEW g
  PROVE  \E f : Sums(f, g, S)
<1> DEFINE Small(n) == {T \in SUBSET S : Cardinality(T) <= n}
           e(f, T) == IF T = {} THEN 0 ELSE g[Some(T)] + f[T \ {Some(T)}]
           Good == {n \in Nat : \E f : \A T \in Small(n) : f[T] = e(f, T)}
<1>0. \A T \in SUBSET S : IsFiniteSet(T) /\ Cardinality(T) \in Nat /\ Cardinality(T) <= Cardinality(S)
  BY FS_Subset, FS_CardinalityType
<1>1. 0 \in Good
  <2>1. ASSUME NEW T \in Small(0) PROVE T = {}
    <3>1. IsFiniteSet(T) /\ Cardinality(T) = 0
      BY <1>0
    <3> QED
      BY <3>1, FS_EmptySet
  <2> DEFINE f == [T \in SUBSET S |-> 0]
  <2>2. \A T \in Small(0) : T \in SUBSET S /\ f[T] = 0
    OBVIOUS
  <2>3. \A T \in Small(0) : f[T] = e(f, T)
    BY <2>1, <2>2
  <2> HIDE DEF f, e, Small
  <2> QED
    BY <2>3
<1>2. ASSUME NEW n \in Nat, n \in Good
      PROVE  n + 1 \in Good
  <2>1. PICK f : \A T \in Small(n) : f[T] = e(f, T)
    BY <1>2
  <2> DEFINE h == [T \in SUBSET S |-> IF T \in Small(n) THEN f[T] ELSE e(f, T)]
  <2>2. ASSUME NEW T \in Small(n + 1) PROVE h[T] = e(h, T)
    <3>1. CASE T = {}
      <4>1. T \in SUBSET S
        OBVIOUS
      <4>2. h[T] = 0
        BY <3>1, <4>1, <2>1
      <4> QED
        BY <3>1, <4>2
    <3>2. CASE T # {}
      <4> DEFINE U == T \ {Some(T)}
      <4>1. U \in Small(n)
        BY <1>0, <3>2, OneLess
      <4>2. U \in SUBSET S /\ T \in SUBSET S
        BY <4>1
      <4>3. h[U] = f[U]
        BY <4>1, <4>2
      <4>4. h[T] = e(f, T)
        BY <4>2, <2>1
      <4> QED
        BY <3>2, <4>3, <4>4
    <3> QED
      BY <3>1, <3>2
  <2> HIDE DEF h
  <2> QED
    BY <2>2
<1> HIDE DEF Good
<1>3. Cardinality(S) \in Good
  BY <1>0, <1>1, <1>2, Induct
<1>4. PICK f : \A T \in Small(Cardinality(S)) : f[T] = e(f, T)
  BY <1>3 DEF Good
<1>5. \A T \in SUBSET S : f[T] = e(f, T)
  BY <1>0, <1>4
<1> DEFINE h == [T \in SUBSET S |-> f[T]]
<1>6. ASSUME NEW T \in SUBSET S PROVE h[T] = e(h, T)
  <2>1. h[T] = f[T] /\ h[T \ {Some(T)}] = f[T \ {Some(T)}]
    OBVIOUS
  <2> QED
    BY <1>5, <2>1
<1>7. h = [T \in SUBSET S |-> h[T]]
  OBVIOUS
<1> HIDE DEF h
<1>8. h = [T \in SUBSET S |-> e(h, T)]
  BY <1>6, <1>7
<1> QED
  BY <1>8 DEF Sums

\* The sum of naturals is a natural.
LEMMA SumsNat ==
  ASSUME NEW S, IsFiniteSet(S), NEW g, \A x \in S : g[x] \in Nat, NEW f, Sums(f, g, S)
  PROVE  f[S] \in Nat
<1> DEFINE e(T) == IF T = {} THEN 0 ELSE g[Some(T)] + f[T \ {Some(T)}]
           Good == {n \in Nat : \A T \in SUBSET S : Cardinality(T) = n => f[T] \in Nat}
<1>0. \A T \in SUBSET S : IsFiniteSet(T) /\ Cardinality(T) \in Nat
  BY FS_Subset, FS_CardinalityType
<1>1. \A T \in SUBSET S : f[T] = e(T)
  <2>1. f = [T \in SUBSET S |-> e(T)]
    BY DEF Sums
  <2> HIDE DEF e
  <2> QED
    BY <2>1, Zenon
<1>2. 0 \in Good
  <2>1. \A T \in SUBSET S : Cardinality(T) = 0 => T = {}
    BY <1>0, FS_EmptySet
  <2>2. {} \in SUBSET S /\ e({}) = 0
    BY Zenon
  <2>3. f[{}] = 0
    BY <1>1, <2>2, Zenon
  <2> QED
    BY <2>1, <2>3
<1>3. ASSUME NEW n \in Nat, n \in Good
      PROVE  n + 1 \in Good
  <2> SUFFICES ASSUME NEW T \in SUBSET S, Cardinality(T) = n + 1 PROVE f[T] \in Nat
    OBVIOUS
  <2>1. T # {}
    BY FS_EmptySet
  <2> DEFINE U == T \ {Some(T)}
  <2>2. Some(T) \in S /\ U \in SUBSET S /\ Cardinality(U) = n
    BY <1>0, <2>1, OneLess
  <2>3. f[U] \in Nat /\ g[Some(T)] \in Nat
    BY <1>3, <2>2
  <2>4. f[T] = g[Some(T)] + f[U]
    BY <1>1, <2>1
  <2> HIDE DEF U
  <2> QED
    BY <2>3, <2>4
<1> HIDE DEF Good
<1>4. Cardinality(S) \in Good
  BY <1>0, <1>2, <1>3, Induct
<1> QED
  BY <1>4 DEF Good

\* SumFunction() is such a sum, of all the values of a function.
LEMMA SumNat ==
  ASSUME NEW g, IsFiniteSet(DOMAIN g), \A x \in DOMAIN g : g[x] \in Nat
  PROVE  SumFunction(g) \in Nat
<1> DEFINE S == DOMAIN g
           c == CHOOSE f : Sums(f, g, S)
<1>1. SumFunction(g) = c[S]
  BY Zenon DEF SumFunction, SumFunctionOnSet, FoldFunctionOnSet, MapThenFoldSet, Sums, Some
<1>2. Sums(c, g, S)
  BY SumsExist, Zenon
<1> HIDE DEF c
<1>3. c[S] \in Nat
  BY <1>2, SumsNat
<1> QED
  BY <1>1, <1>3, Zenon

\* The sum of nothing is 0.
LEMMA SumNothing ==
  ASSUME NEW g, DOMAIN g = {}
  PROVE  SumFunction(g) = 0
<1> DEFINE c == CHOOSE f : Sums(f, g, {})
<1>1. SumFunction(g) = c[{}]
  BY Zenon DEF SumFunction, SumFunctionOnSet, FoldFunctionOnSet, MapThenFoldSet, Sums, Some
<1>2. Sums(c, g, {})
  BY SumsExist, FS_EmptySet, Zenon
<1> HIDE DEF c
<1>3. {} \in SUBSET {}
  BY Zenon
<1>4. c[{}] = 0
  BY <1>2, <1>3, Zenon DEF Sums
<1> QED
  BY <1>1, <1>4, Zenon

\* The least of a set of naturals.
LEMMA MinOfMany ==
  \A T \in SUBSET Nat : T # {} => Min(T) \in T /\ \A m \in T : Min(T) <= m
<1> SUFFICES ASSUME NEW T \in SUBSET Nat, T # {} PROVE Min(T) \in T /\ \A m \in T : Min(T) <= m
  OBVIOUS
<1>1. \E n \in T : \A m \in T : n <= m
  BY Least
<1> QED
  BY <1>1, Zenon DEF Min

\* The largest of a set of naturals up to n.
LEMMA MaxOfBounded ==
  ASSUME NEW n \in Nat, NEW T \in SUBSET (0 .. n), T # {}
  PROVE  Max(T) \in T /\ \A m \in T : m <= Max(T)
<1> DEFINE U == {n - m : m \in T}
<1>1. U \in SUBSET Nat /\ U # {}
  <2>1. PICK m \in T : TRUE
    OBVIOUS
  <2>2. n - m \in U
    BY <2>1
  <2>3. U \in SUBSET Nat
    OBVIOUS
  <2> QED
    BY <2>2, <2>3
<1>2. PICK u \in U : \A v \in U : u <= v
  BY <1>1, Least
<1>3. PICK k \in T : u = n - k
  BY <1>2
<1>4. \A m \in T : k >= m
  <2> SUFFICES ASSUME NEW m \in T PROVE k >= m
    OBVIOUS
  <2>1. n - m \in U
    OBVIOUS
  <2>2. n - k <= n - m
    BY <1>2, <1>3, <2>1
  <2> QED
    BY <2>2
<1>5. Max(T) \in T /\ \A m \in T : Max(T) >= m
  BY <1>3, <1>4, Zenon DEF Max
<1> QED
  BY <1>5

\* Every element of some sequences is an element of the sequences joined.
LEMMA FlatElements ==
  ASSUME NEW S, NEW s \in Seq(Seq(S)), NEW k \in 1 .. Len(s), NEW j \in 1 .. Len(s[k])
  PROVE  \E p \in 1 .. Len(FlattenSeq(s)) : FlattenSeq(s)[p] = s[k][j]
<1> DEFINE x == s[k][j]
           In(n) == \E p \in 1 .. Len(Flat(s, n)) : Flat(s, n)[p] = x
           Good == {n \in Nat : k + n <= Len(s) => In(k + n)}
<1>1. ASSUME NEW n \in 0 .. Len(s) - 1
      PROVE  /\ Flat(s, n) \in Seq(S) /\ s[n + 1] \in Seq(S)
             /\ Flat(s, n + 1) \in Seq(S)
             /\ Len(Flat(s, n + 1)) = Len(Flat(s, n)) + Len(s[n + 1])
             /\ \A p \in 1 .. Len(Flat(s, n)) : Flat(s, n + 1)[p] = Flat(s, n)[p]
             /\ \A p \in 1 .. Len(s[n + 1]) : Flat(s, n + 1)[Len(Flat(s, n)) + p] = s[n + 1][p]
  <2>1. n \in 0 .. Len(s) /\ n + 1 \in 1 .. Len(s)
    OBVIOUS
  <2>2. Flat(s, n) \in Seq(S) /\ s[n + 1] \in Seq(S)
    BY <2>1, FlatType
  <2>3. Flat(s, n + 1) = Flat(s, n) \o s[n + 1]
    BY <2>2, FlatStep
  <2> DEFINE a == Flat(s, n)
             b == Flat(s, n + 1)
             c == s[n + 1]
  <2>4. a \in Seq(S) /\ c \in Seq(S) /\ b = a \o c
    BY <2>2, <2>3, Zenon
  <2> HIDE DEF a, b, c
  <2>5. /\ b \in Seq(S) /\ Len(b) = Len(a) + Len(c)
        /\ \A p \in 1 .. Len(a) : b[p] = a[p]
        /\ \A p \in 1 .. Len(c) : b[Len(a) + p] = c[p]
    BY <2>4, Joins
  <2> QED
    BY <2>4, <2>5, Zenon DEF a, b, c
<1>2. 0 \in Good
  <2>1. k - 1 \in 0 .. Len(s) - 1 /\ k - 1 + 1 = k /\ k + 0 = k
    OBVIOUS
  <2> DEFINE a == Flat(s, k - 1)
             b == Flat(s, k)
             c == s[k]
  <2>2. a \in Seq(S) /\ b \in Seq(S) /\ c \in Seq(S) /\ Len(b) = Len(a) + Len(c)
        /\ \A p \in 1 .. Len(c) : b[Len(a) + p] = c[p]
    BY <1>1, <2>1
  <2> HIDE DEF a, b, c
  <2>3. j \in 1 .. Len(c) /\ x = c[j]
    BY DEF c
  <2> HIDE DEF x
  <2>4. Len(a) + j \in 1 .. Len(b) /\ b[Len(a) + j] = x
    BY <2>2, <2>3
  <2> QED
    BY <2>1, <2>4 DEF b
<1>3. ASSUME NEW n \in Nat, n \in Good
      PROVE  n + 1 \in Good
  <2> SUFFICES ASSUME k + (n + 1) <= Len(s) PROVE In(k + (n + 1))
    OBVIOUS
  <2> DEFINE m == k + n
  <2>1. m \in 0 .. Len(s) - 1 /\ k + (n + 1) = m + 1
    OBVIOUS
  <2>2. In(m)
    BY <1>3
  <2> HIDE DEF m, x
  <2>3. PICK p \in 1 .. Len(Flat(s, m)) : Flat(s, m)[p] = x
    BY <2>2
  <2>4. /\ Flat(s, m) \in Seq(S) /\ s[m + 1] \in Seq(S)
        /\ Len(Flat(s, m + 1)) = Len(Flat(s, m)) + Len(s[m + 1])
        /\ Flat(s, m + 1)[p] = Flat(s, m)[p]
    BY <1>1, <2>1
  <2>5. p \in 1 .. Len(Flat(s, m + 1))
    BY <2>4
  <2> QED
    BY <2>1, <2>3, <2>4, <2>5
<1> HIDE DEF Good
<1>4. Len(s) - k \in Nat /\ k + (Len(s) - k) = Len(s)
  OBVIOUS
<1>5. In(Len(s))
  <2>1. Len(s) - k \in Good
    BY <1>2, <1>3, <1>4, Induct
  <2> HIDE DEF In
  <2> QED
    BY <1>4, <2>1 DEF Good
<1> QED
  BY <1>5, FlatWhole
=============================================================================
