-------------------------- MODULE ModelRouterProofs --------------------------
(***************************************************************************)
(* Proofs about ModelRouter, for any set of models, residency limit and    *)
(* length of preload(): the two views of the cache agree, the limit holds, *)
(* a preload() that starts among its own models makes all of them          *)
(* resident, and evictions follow the order of uses.                       *)
(*                                                                         *)
(* Then about RoutedPredict, for any requests: predict() does nothing to   *)
(* the cache that load() does not do, the checkpoint that answers is the   *)
(* one the request was routed to, and what script, language and names say  *)
(* of a request decides its checkpoint as lang.py and router.py tell.      *)
(***************************************************************************)
EXTENDS RoutedPredict, FoldLemmas

Distinct(s) == \A i, j \in DOMAIN s : s[i] = s[j] => i = j

----------------------------------------------------------------------------
(* The lists that the router's helpers return.                             *)

LEMMA DistinctCardinality ==
  ASSUME NEW s \in Seq(Names), Distinct(s)
  PROVE  IsFiniteSet(Elements(s)) /\ Cardinality(Elements(s)) = Len(s)
<1>1. Len(s) \in Nat /\ s \in [1 .. Len(s) -> Names] /\ DOMAIN s = 1 .. Len(s)
  BY LenProperties
<1>2. s \in Bijection(1 .. Len(s), Elements(s))
  BY <1>1 DEF Bijection, Injection, Surjection, IsInjective, Elements, Distinct
<1>3. ExistsBijection(1 .. Len(s), Elements(s))
  BY <1>2 DEF ExistsBijection
<1> QED
  BY <1>1, <1>3, FS_NatBijection, FS_CountingElements

LEMMA ElementsBound ==
  ASSUME NEW s \in Seq(Names)
  PROVE  IsFiniteSet(Elements(s)) /\ Cardinality(Elements(s)) <= Len(s)
<1>1. Len(s) \in Nat /\ s \in [1 .. Len(s) -> Names] /\ DOMAIN s = 1 .. Len(s)
  BY LenProperties
<1>2. s \in Surjection(1 .. Len(s), Elements(s))
  BY <1>1 DEF Surjection, Elements
<1>3. ExistsSurjection(1 .. Len(s), Elements(s))
  BY <1>2 DEF ExistsSurjection
<1> QED
  BY <1>1, <1>3, FS_NatSurjection, FS_SurjCardinalityBound

LEMMA AppendFacts ==
  ASSUME NEW s \in Seq(Names), Distinct(s), NEW name \in Names \ Elements(s)
  PROVE  /\ Append(s, name) \in Seq(Names)
         /\ Distinct(Append(s, name))
         /\ Elements(Append(s, name)) = Elements(s) \cup {name}
<1> DEFINE t == Append(s, name)
<1>1. /\ Len(s) \in Nat
      /\ DOMAIN s = 1 .. Len(s)
      /\ t \in Seq(Names)
      /\ Len(t) = Len(s) + 1
      /\ \A i \in 1 .. Len(s) : t[i] = s[i]
      /\ t[Len(s) + 1] = name
  BY LenProperties, AppendProperties
<1>2. DOMAIN t = 1 .. Len(s) + 1
  BY <1>1, LenProperties
<1>3. Distinct(t)
  <2> SUFFICES ASSUME NEW i \in 1 .. Len(s) + 1, NEW j \in 1 .. Len(s) + 1, t[i] = t[j]
               PROVE  i = j
    BY <1>2 DEF Distinct
  <2>1. \A k \in 1 .. Len(s) : t[k] # name
    BY <1>1 DEF Elements
  <2> QED
    BY <1>1, <2>1 DEF Distinct
<1>4. Elements(t) \subseteq Elements(s) \cup {name}
  BY <1>1, <1>2 DEF Elements
<1>5. Elements(s) \subseteq Elements(t)
  BY <1>1, <1>2 DEF Elements
<1>6. name \in Elements(t)
  BY <1>1, <1>2 DEF Elements
<1> QED
  BY <1>1, <1>3, <1>4, <1>5, <1>6

\* remove() of a name that occurs at i, and there only.
LEMMA WithoutShape ==
  ASSUME NEW s \in Seq(Names), Distinct(s), NEW name \in Elements(s)
  PROVE  \E i \in 1 .. Len(s) :
           /\ s[i] = name
           /\ Without(s, name) \in Seq(Names)
           /\ Len(Without(s, name)) = Len(s) - 1
           /\ \A k \in 1 .. Len(s) - 1 :
                Without(s, name)[k] = IF k < i THEN s[k] ELSE s[k + 1]
<1> DEFINE First(k) == s[k] = name /\ \A j \in 1 .. k - 1 : s[j] # name
           i == CHOOSE k \in DOMAIN s : First(k)
           u == SubSeq(s, 1, i - 1)
           v == SubSeq(s, i + 1, Len(s))
<1>1. Len(s) \in Nat /\ DOMAIN s = 1 .. Len(s) /\ \A k \in 1 .. Len(s) : s[k] \in Names
  BY LenProperties
<1>2. \E k \in DOMAIN s : First(k)
  <2>1. PICK k \in DOMAIN s : s[k] = name
    BY DEF Elements
  <2>2. \A j \in 1 .. k - 1 : j \in DOMAIN s /\ j # k
    BY <1>1
  <2> QED
    BY <2>1, <2>2 DEF Distinct
<1>3. i \in 1 .. Len(s) /\ s[i] = name
  BY <1>1, <1>2
<1>4. Without(s, name) = u \o v
  BY DEF Without
<1> HIDE DEF i
<1>5. u \in Seq(Names) /\ Len(u) = i - 1 /\ \A k \in 1 .. i - 1 : u[k] = s[k]
  BY <1>1, <1>3, SubSeqProperties
<1>6. /\ v \in Seq(Names)
      /\ Len(v) = Len(s) - i
      /\ \A k \in 1 .. Len(s) - i : v[k] = s[k + i]
  <2>0. Len(s) \in Nat /\ i \in Nat /\ i <= Len(s)
    BY <1>1, <1>3
  <2>1. /\ Len(s) - (i + 1) + 1 = Len(s) - i
        /\ i + 1 <= Len(s) \/ Len(s) - i = 0
    BY <2>0
  <2>2. \A k \in i + 1 .. Len(s) : s[k] \in Names
    BY <1>1, <1>3
  <2>3. /\ v \in Seq(Names)
        /\ Len(v) = IF i + 1 <= Len(s) THEN Len(s) - (i + 1) + 1 ELSE 0
        /\ \A k \in 1 .. Len(s) - (i + 1) + 1 : v[k] = s[(i + 1) + k - 1]
    BY <2>0, <2>2, SubSeqProperties
  <2>4. \A k \in 1 .. Len(s) - i : (i + 1) + k - 1 = k + i
    BY <2>0
  <2> HIDE DEF v
  <2>5. Len(v) = Len(s) - i
    <3>1. CASE i + 1 <= Len(s)
      BY <2>1, <2>3, <3>1
    <3>2. CASE ~(i + 1 <= Len(s))
      BY <2>1, <2>3, <3>2
    <3> QED
      BY <3>1, <3>2
  <2> QED
    BY <2>1, <2>3, <2>4, <2>5
<1> HIDE DEF u, v
<1> DEFINE t == u \o v
<1>7. /\ t \in Seq(Names)
      /\ Len(t) = Len(s) - 1
      /\ \A k \in 1 .. Len(s) - 1 : t[k] = IF k < i THEN s[k] ELSE s[k + 1]
  <2>1. /\ t \in Seq(Names)
        /\ Len(t) = Len(u) + Len(v)
        /\ \A k \in 1 .. Len(u) + Len(v) : t[k] = IF k <= Len(u) THEN u[k] ELSE v[k - Len(u)]
    BY <1>5, <1>6, ConcatProperties
  <2>2. ASSUME NEW k \in 1 .. Len(s) - 1 PROVE t[k] = IF k < i THEN s[k] ELSE s[k + 1]
    <3>1. CASE k < i
      BY <1>1, <1>3, <1>5, <1>6, <2>1, <3>1
    <3>2. CASE ~(k < i)
      <4>1. k - Len(u) \in 1 .. Len(s) - i /\ (k - Len(u)) + i = k + 1
        BY <1>1, <1>3, <1>5, <3>2
      <4>2. t[k] = v[k - Len(u)]
        BY <1>1, <1>3, <1>5, <1>6, <2>1, <3>2
      <4> QED
        BY <1>6, <3>2, <4>1, <4>2
    <3> QED
      BY <3>1, <3>2
  <2> QED
    BY <1>1, <1>3, <1>5, <1>6, <2>1, <2>2
<1> QED
  BY <1>3, <1>4, <1>7 DEF t

LEMMA WithoutFacts ==
  ASSUME NEW s \in Seq(Names), Distinct(s), NEW name \in Names
  PROVE  /\ Without(s, name) \in Seq(Names)
         /\ Distinct(Without(s, name))
         /\ Elements(Without(s, name)) = Elements(s) \ {name}
<1>1. CASE name \notin Elements(s)
  BY <1>1 DEF Without
<1>2. CASE name \in Elements(s)
  <2> DEFINE t == Without(s, name)
  <2>1. Len(s) \in Nat /\ DOMAIN s = 1 .. Len(s) /\ \A k \in 1 .. Len(s) : s[k] \in Names
    BY LenProperties
  <2>2. PICK i \in 1 .. Len(s) :
          /\ s[i] = name
          /\ t \in Seq(Names)
          /\ Len(t) = Len(s) - 1
          /\ \A k \in 1 .. Len(s) - 1 : t[k] = IF k < i THEN s[k] ELSE s[k + 1]
    BY <1>2, WithoutShape
  <2> HIDE DEF t
  <2>3. DOMAIN t = 1 .. Len(s) - 1
    BY <2>2, LenProperties
  <2>4. Distinct(t)
    <3> SUFFICES ASSUME NEW k \in 1 .. Len(s) - 1, NEW l \in 1 .. Len(s) - 1, t[k] = t[l]
                 PROVE  k = l
      BY <2>3 DEF Distinct
    <3>1. /\ k \in DOMAIN s /\ k + 1 \in DOMAIN s
          /\ l \in DOMAIN s /\ l + 1 \in DOMAIN s
      BY <2>1
    <3> QED
      BY <2>1, <2>2, <3>1 DEF Distinct
  <2>5. Elements(t) \subseteq Elements(s) \ {name}
    <3> SUFFICES ASSUME NEW k \in 1 .. Len(s) - 1 PROVE t[k] \in Elements(s) \ {name}
      BY <2>3 DEF Elements
    <3>1. k \in DOMAIN s /\ k + 1 \in DOMAIN s /\ i \in DOMAIN s
      BY <2>1, <2>2
    <3> QED
      BY <2>1, <2>2, <3>1 DEF Distinct, Elements
  <2>6. Elements(s) \ {name} \subseteq Elements(t)
    <3> SUFFICES ASSUME NEW k \in 1 .. Len(s), s[k] # name PROVE s[k] \in Elements(t)
      BY <2>1 DEF Elements
    <3>1. CASE k < i
      BY <2>1, <2>2, <2>3, <3>1 DEF Elements
    <3>2. CASE k > i
      <4>1. k - 1 \in 1 .. Len(s) - 1 /\ ~(k - 1 < i) /\ (k - 1) + 1 = k
        BY <2>1, <2>2, <3>2
      <4> QED
        BY <2>2, <2>3, <4>1 DEF Elements
    <3> QED
      BY <2>1, <2>2, <3>1, <3>2
  <2> QED
    BY <2>2, <2>4, <2>5, <2>6 DEF t
<1> QED
  BY <1>1, <1>2

LEMMA TouchFacts ==
  ASSUME NEW s \in Seq(Names), Distinct(s), NEW name \in Names
  PROVE  /\ Touch(s, name) \in Seq(Names)
         /\ Distinct(Touch(s, name))
         /\ Elements(Touch(s, name)) = Elements(s) \cup {name}
<1>1. /\ Without(s, name) \in Seq(Names)
      /\ Distinct(Without(s, name))
      /\ Elements(Without(s, name)) = Elements(s) \ {name}
  BY WithoutFacts
<1> QED
  BY <1>1, AppendFacts DEF Touch

LEMMA EvictFacts ==
  ASSUME NEW s \in Seq(Names), Distinct(s), maxLoaded \in Nat \ {0}
  PROVE  /\ Evict(s) \in Seq(Names)
         /\ Distinct(Evict(s))
         /\ Elements(Evict(s)) \subseteq Elements(s)
         /\ Len(Evict(s)) <= maxLoaded
         /\ Len(s) <= maxLoaded => Evict(s) = s
         /\ Keep(Elements(s), s) = Elements(Evict(s))
<1> DEFINE n == Len(s) - maxLoaded
           e == SubSeq(s, n + 1, Len(s))
<1>1. Len(s) \in Nat /\ DOMAIN s = 1 .. Len(s) /\ \A k \in 1 .. Len(s) : s[k] \in Names
  BY LenProperties
<1>2. /\ Evict(s) \in Seq(Names)
      /\ Distinct(Evict(s))
      /\ Elements(Evict(s)) \subseteq Elements(s)
      /\ Len(Evict(s)) <= maxLoaded
      /\ Len(s) <= maxLoaded => Evict(s) = s
  <2>1. CASE Len(s) <= maxLoaded
    BY <1>1, <2>1 DEF Evict
  <2>2. CASE Len(s) > maxLoaded
    <3>1. Evict(s) = e
      BY <2>2 DEF Evict
    <3>2. n \in Nat /\ n + maxLoaded = Len(s) /\ n + 1 <= Len(s) /\ Len(s) - (n + 1) + 1 = maxLoaded
      BY <1>1, <2>2
    <3> HIDE DEF n
    <3>3. /\ e \in Seq(Names)
          /\ Len(e) = maxLoaded
          /\ \A k \in 1 .. maxLoaded : e[k] = s[k + n]
      <4>1. \A k \in n + 1 .. Len(s) : s[k] \in Names
        BY <1>1, <3>2
      <4>2. /\ e \in Seq(Names)
            /\ Len(e) = IF n + 1 <= Len(s) THEN Len(s) - (n + 1) + 1 ELSE 0
            /\ \A k \in 1 .. Len(s) - (n + 1) + 1 : e[k] = s[(n + 1) + k - 1]
        BY <1>1, <3>2, <4>1, SubSeqProperties
      <4>3. \A k \in 1 .. maxLoaded : (n + 1) + k - 1 = k + n
        BY <3>2
      <4> HIDE DEF e
      <4> QED
        BY <3>2, <4>2, <4>3
    <3> HIDE DEF e
    <3>4. DOMAIN e = 1 .. maxLoaded
      BY <3>3, LenProperties
    <3>5. \A k \in 1 .. maxLoaded : k + n \in DOMAIN s
      BY <1>1, <3>2
    <3>6. Distinct(e)
      <4> SUFFICES ASSUME NEW k \in 1 .. maxLoaded, NEW l \in 1 .. maxLoaded, e[k] = e[l]
                   PROVE  k = l
        BY <3>4 DEF Distinct
      <4>1. k + n = l + n
        BY <3>3, <3>5 DEF Distinct
      <4> QED
        BY <3>2, <4>1
    <3>7. Elements(e) \subseteq Elements(s)
      BY <3>3, <3>4, <3>5 DEF Elements
    <3> QED
      BY <1>1, <2>2, <3>1, <3>3, <3>6, <3>7
  <2> QED
    BY <1>1, <2>1, <2>2
<1>3. Keep(Elements(s), s) = Elements(Evict(s))
  BY <1>2 DEF Keep
<1> QED
  BY <1>2, <1>3

----------------------------------------------------------------------------
(* The cache.  Keeping the limit needs more than the limit: order has as   *)
(* many entries as there are models only because it repeats none.          *)

CacheInv == TypeOK /\ ViewsAgree /\ Len(order) <= maxLoaded /\ Distinct(recent)

LEMMA CacheStart == Init => CacheInv
<1> SUFFICES ASSUME Init PROVE CacheInv
  OBVIOUS
<1>1. << >> \in Seq(Names) /\ Len(<< >>) = 0
  BY EmptySeq
<1>2. DOMAIN << >> = {}
  OBVIOUS
<1>3. TypeOK
  BY <1>1, RouterAssumption DEF Init, TypeOK
<1>4. ViewsAgree /\ Distinct(recent)
  BY <1>2 DEF Init, ViewsAgree, Elements, Distinct
<1>5. Len(order) <= maxLoaded
  BY <1>1, RouterAssumption DEF Init
<1> QED
  BY <1>3, <1>4, <1>5 DEF CacheInv

LEMMA CacheCardinality ==
  ASSUME CacheInv
  PROVE  IsFiniteSet(agents) /\ Cardinality(agents) = Len(order)
  BY DistinctCardinality DEF CacheInv, TypeOK, ViewsAgree, Distinct

\* The part of the invariant that speaks of the cache alone.
Consistent ==
  /\ agents \subseteq Names
  /\ order \in Seq(Names)
  /\ maxLoaded \in Nat \ {0}
  /\ Elements(order) = agents
  /\ Distinct(order)
  /\ Len(order) <= maxLoaded

LEMMA HitKeeps ==
  ASSUME CacheInv, NEW name \in Names, Hit(name)
  PROVE  Consistent'
<1>1. /\ order \in Seq(Names) /\ Distinct(order) /\ Elements(order) = agents
      /\ Len(order) <= maxLoaded /\ maxLoaded \in Nat \ {0} /\ agents \subseteq Names
  BY DEF CacheInv, TypeOK, ViewsAgree, Distinct
<1>2. /\ order' \in Seq(Names) /\ Distinct(order') /\ Elements(order') = agents
      /\ agents' = agents /\ maxLoaded' = maxLoaded
  <2>1. order' = Touch(order, name) /\ name \in agents /\ agents' = agents /\ maxLoaded' = maxLoaded
    BY DEF Hit
  <2>2. /\ Touch(order, name) \in Seq(Names) /\ Distinct(Touch(order, name))
        /\ Elements(Touch(order, name)) = agents \cup {name}
    BY <1>1, TouchFacts
  <2>3. agents \cup {name} = agents
    BY <2>1
  <2> QED
    BY <2>1, <2>2, <2>3
<1>3. Len(order') = Len(order)
  BY <1>1, <1>2, DistinctCardinality
<1> QED
  BY <1>1, <1>2, <1>3 DEF Consistent, Distinct, Elements

LEMMA BuildKeeps ==
  ASSUME CacheInv, NEW name \in Names, Build(name)
  PROVE  Consistent'
<1> DEFINE s == Append(order, name)
<1>1. /\ order \in Seq(Names) /\ Distinct(order) /\ Elements(order) = agents
      /\ maxLoaded \in Nat \ {0} /\ agents \subseteq Names
  BY DEF CacheInv, TypeOK, ViewsAgree, Distinct
<1>2. name \in Names \ Elements(order)
  BY <1>1 DEF Build
<1>3. s \in Seq(Names) /\ Distinct(s) /\ Elements(s) = agents \cup {name}
  BY <1>1, <1>2, AppendFacts
<1>4. order' = Evict(s) /\ agents' = Keep(agents \cup {name}, s) /\ maxLoaded' = maxLoaded
  BY DEF Build
<1> HIDE DEF s
<1>5. /\ order' \in Seq(Names) /\ Distinct(order') /\ Elements(order') = agents'
      /\ Len(order') <= maxLoaded /\ Elements(order') \subseteq Elements(s)
  BY <1>1, <1>3, <1>4, EvictFacts
<1> QED
  BY <1>1, <1>3, <1>4, <1>5 DEF Consistent, Distinct, Elements

LEMMA AttachKeeps ==
  ASSUME CacheInv, NEW name \in Names, Attach(name)
  PROVE  Consistent'
<1>1. /\ order \in Seq(Names) /\ Distinct(order) /\ Elements(order) = agents
      /\ maxLoaded \in Nat \ {0} /\ agents \subseteq Names
  BY DEF CacheInv, TypeOK, ViewsAgree, Distinct
<1>2. /\ order' \in Seq(Names) /\ Distinct(order') /\ Elements(order') = agents'
      /\ agents' = agents \cup {name}
  BY <1>1, TouchFacts DEF Attach
<1>3. Cardinality(agents') = Len(order') /\ Len(order') \in Nat
  BY <1>2, DistinctCardinality, LenProperties
<1>4. maxLoaded' \in Nat \ {0} /\ Len(order') <= maxLoaded'
  BY <1>1, <1>3 DEF Attach, LimitRaised
<1> QED
  BY <1>1, <1>2, <1>4 DEF Consistent, Distinct, Elements

LEMMA UnloadKeeps ==
  ASSUME CacheInv, NEW name \in Names, Unload(name)
  PROVE  Consistent'
<1>1. /\ order \in Seq(Names) /\ Distinct(order) /\ Elements(order) = agents
      /\ Len(order) <= maxLoaded /\ maxLoaded \in Nat \ {0} /\ agents \subseteq Names
  BY DEF CacheInv, TypeOK, ViewsAgree, Distinct
<1>2. /\ order' \in Seq(Names) /\ Distinct(order') /\ Elements(order') = agents'
      /\ agents' = agents \ {name} /\ maxLoaded' = maxLoaded
  BY <1>1, WithoutFacts DEF Unload, UnloadFromOrder
<1>3. Len(order') <= Len(order)
  <2>1. IsFiniteSet(agents) /\ Cardinality(agents) = Len(order) /\ Len(order) \in Nat
    BY <1>1, DistinctCardinality, LenProperties
  <2>2. Cardinality(agents') <= Cardinality(agents)
    BY <1>2, <2>1, FS_Subset
  <2>3. Cardinality(agents') = Len(order') /\ Len(order') \in Nat
    BY <1>2, DistinctCardinality, LenProperties
  <2> QED
    BY <2>1, <2>2, <2>3
<1>4. Len(order') <= maxLoaded
  <2>1. Len(order') \in Nat /\ Len(order) \in Nat
    BY <1>1, <1>2, LenProperties
  <2> QED
    BY <1>1, <1>3, <2>1
<1> QED
  BY <1>1, <1>2, <1>4 DEF Consistent, Distinct, Elements

\* The limit that preload() sets is the largest of the three.
LEMMA RoomFacts ==
  ASSUME CacheInv, NEW names \in Seq(Names), Room(names)
  PROVE  /\ maxLoaded' \in Nat \ {0}
         /\ maxLoaded <= maxLoaded'
         /\ Len(names) <= maxLoaded'
<1> DEFINE Candidates == {maxLoaded, Len(names), Cardinality(agents)}
           Largest(m) == m >= maxLoaded /\ m >= Len(names) /\ m >= Cardinality(agents)
<1>1. maxLoaded \in Nat \ {0} /\ Len(names) \in Nat /\ Cardinality(agents) \in Nat
  BY CacheCardinality, LenProperties DEF CacheInv, TypeOK
<1>2. \E m \in Candidates : Largest(m)
  BY <1>1
<1>3. maxLoaded' = CHOOSE m \in Candidates : Largest(m)
  BY DEF Room
<1>4. maxLoaded' \in Candidates /\ Largest(maxLoaded')
  BY <1>2, <1>3
<1> QED
  BY <1>1, <1>4

LEMMA CacheStep == CacheInv /\ [Next]_vars => CacheInv'
<1> SUFFICES ASSUME CacheInv, [Next]_vars PROVE CacheInv'
  OBVIOUS
<1>1. /\ Consistent
      /\ todo \in Seq(Names) /\ passed \subseteq Names /\ foreign \in BOOLEAN
      /\ recent \in Seq(Names) /\ Distinct(recent)
  BY DEF CacheInv, TypeOK, ViewsAgree, Consistent, Distinct
<1>2. ASSUME Consistent',
             todo' \in Seq(Names), passed' \subseteq Names, foreign' \in BOOLEAN,
             recent' \in Seq(Names), Distinct(recent')
      PROVE  CacheInv'
  BY <1>2 DEF CacheInv, TypeOK, ViewsAgree, Consistent, Distinct
<1>3. ASSUME Forget
      PROVE  todo' \in Seq(Names) /\ passed' \subseteq Names /\ foreign' \in BOOLEAN
  <2>1. << >> \in Seq(Names)
    BY EmptySeq
  <2> QED
    BY <1>3, <2>1 DEF Forget
<1>4. ASSUME NEW name \in Names, Used(name)
      PROVE  recent' \in Seq(Names) /\ Distinct(recent')
  <2>1. recent' = Touch(recent, name)
    BY <1>4 DEF Used, Touch
  <2> QED
    BY <1>1, <2>1, TouchFacts
<1>5. ASSUME NEW name \in Names, Refuse(name)
      PROVE  Consistent' /\ recent' \in Seq(Names) /\ Distinct(recent')
  BY <1>1, <1>5 DEF Refuse, Consistent, Distinct, Elements
<1>6. ASSUME NEW name \in Names, Load(name) PROVE CacheInv'
  <2>1. Consistent' /\ recent' \in Seq(Names) /\ Distinct(recent')
    <3>1. CASE Hit(name)
      BY <1>4, <3>1, HitKeeps DEF Hit
    <3>2. CASE Build(name)
      BY <1>4, <3>2, BuildKeeps DEF Build
    <3>3. CASE Refuse(name)
      BY <1>5, <3>3
    <3> QED
      BY <1>6, <3>1, <3>2, <3>3 DEF Load
  <2> QED
    BY <1>2, <1>3, <1>6, <2>1 DEF Load
<1>7. ASSUME NEW name \in Names, Attach(name) PROVE CacheInv'
  BY <1>2, <1>3, <1>4, <1>7, AttachKeeps DEF Attach
<1>8. ASSUME NEW name \in Names, Unload(name) PROVE CacheInv'
  <2>1. recent' \in Seq(Names) /\ Distinct(recent')
    BY <1>1, <1>8, WithoutFacts DEF Unload
  <2> QED
    BY <1>2, <1>3, <1>8, <2>1, UnloadKeeps DEF Unload
<1>9. ASSUME UnloadAll PROVE CacheInv'
  <2>1. << >> \in Seq(Names) /\ Len(<< >>) = 0 /\ DOMAIN << >> = {}
    BY EmptySeq
  <2>2. Distinct(<< >>) /\ Elements(<< >>) = {}
    BY <2>1 DEF Distinct, Elements
  <2>3. /\ order' = << >> /\ recent' = << >> /\ agents' = {} /\ maxLoaded' = maxLoaded
        /\ Forget
    BY <1>9 DEF UnloadAll
  <2>4. Consistent'
    <3>1. Elements(order') = {} /\ Distinct(order') /\ Len(order') = 0
      BY <2>1, <2>2, <2>3
    <3> QED
      BY <1>1, <2>1, <2>3, <3>1 DEF Consistent, Elements, Distinct
  <2>5. recent' \in Seq(Names) /\ Distinct(recent')
    BY <2>1, <2>2, <2>3
  <2> QED
    BY <1>2, <1>3, <2>3, <2>4, <2>5
<1>10. ASSUME NEW n \in 1 .. MaxPreload, NEW names \in [1 .. n -> Names], Preload(names)
       PROVE  CacheInv'
  <2>1. names \in Seq(Names)
    BY <1>10, SeqDef, RouterAssumption
  <2>2. Consistent'
    <3>1. maxLoaded' \in Nat \ {0} /\ maxLoaded <= maxLoaded'
      BY <1>10, <2>1, RoomFacts DEF Preload
    <3>2. Len(order) \in Nat /\ maxLoaded \in Nat
      BY <1>1, LenProperties DEF Consistent
    <3>3. Len(order) <= maxLoaded'
      BY <1>1, <3>1, <3>2 DEF Consistent
    <3> QED
      BY <1>1, <1>10, <3>1, <3>3 DEF Preload, Consistent, Distinct, Elements
  <2>3. passed' \subseteq Names
    BY <1>10 DEF Preload
  <2> QED
    BY <1>1, <1>2, <1>10, <2>1, <2>2, <2>3 DEF Preload, Distinct
<1>11. ASSUME ~Idle PROVE Head(todo) \in Names /\ Tail(todo) \in Seq(Names)
  BY <1>1, <1>11, HeadTailProperties DEF Idle
<1>12. ASSUME Skip PROVE CacheInv'
  <2>1. Consistent'
    BY <1>1, <1>12 DEF Skip, Consistent, Distinct, Elements
  <2>2. passed' \subseteq Names
    BY <1>1, <1>11, <1>12 DEF Skip
  <2> QED
    BY <1>1, <1>2, <1>11, <1>12, <2>1, <2>2 DEF Skip, Distinct
<1>13. ASSUME PreloadOne PROVE CacheInv'
  <2>1. Head(todo) \in Names /\ Tail(todo) \in Seq(Names) /\ Build(Head(todo))
    BY <1>11, <1>13 DEF PreloadOne
  <2>2. Consistent'
    BY <2>1, BuildKeeps
  <2>3. recent' \in Seq(Names) /\ Distinct(recent')
    BY <1>4, <2>1 DEF Build
  <2>4. passed' \subseteq Names
    BY <1>1, <1>13, <2>1 DEF PreloadOne
  <2> QED
    BY <1>1, <1>2, <1>13, <2>1, <2>2, <2>3, <2>4 DEF PreloadOne
<1>14. ASSUME PreloadFails PROVE CacheInv'
  <2>1. Head(todo) \in Names /\ << >> \in Seq(Names)
    BY <1>11, <1>14, EmptySeq DEF PreloadFails
  <2> QED
    BY <1>1, <1>2, <1>5, <1>14, <2>1 DEF PreloadFails
<1>15. ASSUME UNCHANGED vars PROVE CacheInv'
  BY <1>1, <1>2, <1>15 DEF vars, Consistent, Distinct, Elements
<1> QED
  BY <1>6, <1>7, <1>8, <1>9, <1>10, <1>12, <1>13, <1>14, <1>15 DEF Next

\* The dictionary of Agents and the eviction order always hold the same models.
THEOREM RouterViewsAgree == Spec => []ViewsAgree
<1>1. CacheInv => ViewsAgree
  BY DEF CacheInv
<1> QED
  BY <1>1, CacheStart, CacheStep, PTL DEF Spec

\* Whatever is loaded, attached, preloaded or unloaded, and whichever preload()
\* fails half-way, the models in memory are never more than the limit in force.
THEOREM RouterWithinLimit == Spec => []WithinLimit
<1>1. CacheInv => WithinLimit
  BY CacheCardinality DEF CacheInv, WithinLimit
<1> QED
  BY <1>1, CacheStart, CacheStep, PTL DEF Spec

----------------------------------------------------------------------------
(* preload() among its own models.  While it is under way, its list is what *)
(* it has passed and what it still looks at, nothing else is resident, and *)
(* the limit has room for the list: no load of its own evicts anything.    *)

List == passed \cup Elements(todo)

PreloadInv ==
  /\ ~foreign => passed \subseteq agents
  /\ ~Idle =>
       /\ IsFiniteSet(List) /\ Cardinality(List) <= maxLoaded
       /\ ~foreign => agents \subseteq List

LEMMA ForgetIsFine == Forget => PreloadInv'
BY DEF Forget, PreloadInv, Idle

LEMMA TodoFacts ==
  ASSUME CacheInv, ~Idle
  PROVE  /\ Head(todo) \in Names
         /\ Elements(todo) = {Head(todo)} \cup Elements(Tail(todo))
<1>1. todo \in Seq(Names) /\ todo # << >>
  BY DEF CacheInv, TypeOK, Idle
<1>2. /\ Len(todo) \in Nat \ {0} /\ DOMAIN todo = 1 .. Len(todo)
      /\ Head(todo) \in Names /\ Tail(todo) \in Seq(Names)
      /\ Len(Tail(todo)) = Len(todo) - 1
      /\ \A i \in 1 .. Len(todo) - 1 : Tail(todo)[i] = todo[i + 1]
  BY <1>1, LenProperties, EmptySeq, HeadTailProperties
<1>3. DOMAIN Tail(todo) = 1 .. Len(todo) - 1
  BY <1>2, LenProperties
<1>4. Head(todo) = todo[1]
  BY <1>1
<1>5. Elements(todo) \subseteq {Head(todo)} \cup Elements(Tail(todo))
  <2> SUFFICES ASSUME NEW i \in 1 .. Len(todo), i # 1 PROVE todo[i] \in Elements(Tail(todo))
    BY <1>2, <1>4 DEF Elements
  <2>1. i - 1 \in 1 .. Len(todo) - 1 /\ (i - 1) + 1 = i
    BY <1>2
  <2> QED
    BY <1>2, <1>3, <2>1 DEF Elements
<1>6. Elements(Tail(todo)) \subseteq Elements(todo)
  BY <1>2, <1>3 DEF Elements
<1>7. Head(todo) \in Elements(todo)
  BY <1>2, <1>4 DEF Elements
<1> QED
  BY <1>2, <1>5, <1>6, <1>7

LEMMA PreloadStep == CacheInv /\ PreloadInv /\ [Next]_vars => PreloadInv'
<1> SUFFICES ASSUME CacheInv, PreloadInv, [Next]_vars PROVE PreloadInv'
  OBVIOUS
<1>1. ASSUME NEW name \in Names, Load(name) \/ Attach(name) \/ Unload(name)
      PROVE  PreloadInv'
  BY <1>1, ForgetIsFine DEF Load, Attach, Unload
<1>2. ASSUME UnloadAll PROVE PreloadInv'
  BY <1>2, ForgetIsFine DEF UnloadAll
<1>7. ASSUME PreloadFails PROVE PreloadInv'
  BY <1>7 DEF PreloadFails, Refuse, PreloadInv, Idle
<1>3. ASSUME NEW n \in 1 .. MaxPreload, NEW names \in [1 .. n -> Names], Preload(names)
      PROVE  PreloadInv'
  <2>1. names \in Seq(Names)
    BY <1>3, SeqDef, RouterAssumption
  <2>2. /\ IsFiniteSet(Elements(names)) /\ Cardinality(Elements(names)) <= Len(names)
        /\ Cardinality(Elements(names)) \in Nat /\ Len(names) \in Nat
    BY <2>1, ElementsBound, LenProperties, FS_CardinalityType
  <2>3. maxLoaded' \in Nat \ {0} /\ Len(names) <= maxLoaded'
    BY <1>3, <2>1, RoomFacts DEF Preload
  <2>4. Cardinality(Elements(names)) <= maxLoaded'
    BY <2>2, <2>3
  <2>5. /\ todo' = names /\ passed' = {} /\ agents' = agents
        /\ foreign' = ~(agents \subseteq Elements(names))
    BY <1>3 DEF Preload
  <2>6. Elements(todo)' = Elements(names) /\ List' = Elements(names)
    BY <2>5 DEF List, Elements
  <2> QED
    BY <2>2, <2>4, <2>5, <2>6 DEF PreloadInv
<1>4. ASSUME Skip PROVE PreloadInv'
  <2>1. /\ ~Idle /\ Head(todo) \in agents /\ todo' = Tail(todo) /\ agents' = agents
        /\ maxLoaded' = maxLoaded /\ passed' = passed \cup {Head(todo)} /\ foreign' = foreign
    BY <1>4 DEF Skip
  <2>2. Elements(todo)' = Elements(Tail(todo))
    BY <2>1 DEF Elements
  <2>3. List' = List
    BY <2>1, <2>2, TodoFacts DEF List
  <2> QED
    BY <2>1, <2>3 DEF PreloadInv
<1>5. ASSUME PreloadOne PROVE PreloadInv'
  <2> DEFINE name == Head(todo)
             s == Append(order, name)
  <2>1. /\ ~Idle /\ Build(name) /\ todo' = Tail(todo)
        /\ maxLoaded' = maxLoaded /\ passed' = passed \cup {name} /\ foreign' = foreign
    BY <1>5 DEF PreloadOne, Build
  <2>2. name \in Names /\ name \in List /\ List' = List
    <3>1. Elements(todo)' = Elements(Tail(todo))
      BY <2>1 DEF Elements
    <3> QED
      BY <2>1, <3>1, TodoFacts DEF List
  <2>3. ASSUME ~foreign PROVE agents' = agents \cup {name}
    <3>1. /\ order \in Seq(Names) /\ Distinct(order) /\ Elements(order) = agents
          /\ maxLoaded \in Nat \ {0}
      BY DEF CacheInv, TypeOK, ViewsAgree, Distinct
    <3>2. s \in Seq(Names) /\ Distinct(s) /\ Elements(s) = agents \cup {name}
      BY <2>1, <2>2, <3>1, AppendFacts DEF Build
    <3> HIDE DEF s
    <3>3. Cardinality(agents \cup {name}) = Len(s) /\ Len(s) \in Nat
      BY <3>2, DistinctCardinality, LenProperties
    <3>4. IsFiniteSet(List) /\ agents \cup {name} \subseteq List
      BY <2>1, <2>2, <2>3 DEF PreloadInv
    <3>5. Cardinality(agents \cup {name}) <= Cardinality(List)
      BY <3>4, FS_Subset
    <3>6. Cardinality(List) \in Nat /\ Cardinality(List) <= maxLoaded
      BY <2>1, <3>4, FS_CardinalityType DEF PreloadInv
    <3>7. Len(s) <= maxLoaded
      BY <3>1, <3>3, <3>5, <3>6
    <3>8. Evict(s) = s /\ Keep(Elements(s), s) = Elements(Evict(s))
      BY <3>1, <3>2, <3>7, EvictFacts
    <3>9. agents' = Keep(agents \cup {name}, s)
      BY <2>1 DEF Build, s
    <3> QED
      BY <3>2, <3>8, <3>9
  <2> QED
    BY <2>1, <2>2, <2>3 DEF PreloadInv
<1>6. ASSUME UNCHANGED vars PROVE PreloadInv'
  BY <1>6 DEF vars, PreloadInv, Idle, List, Elements
<1> QED
  BY <1>1, <1>2, <1>3, <1>4, <1>5, <1>6, <1>7 DEF Next

\* preload() keeps all it has passed, through later loads and failures, when it starts
\* among models of its list only, whatever the limit was and whichever were resident.
THEOREM RouterPreloadsItsOwn == Spec => []PreloadFromOwn
<1>1. Init => PreloadInv
  BY DEF Init, PreloadInv, Idle
<1>2. PreloadInv => PreloadFromOwn
  BY DEF PreloadInv, PreloadFromOwn
<1> QED
  BY <1>1, <1>2, CacheStart, CacheStep, PreloadStep, PTL DEF Spec

----------------------------------------------------------------------------
(* Eviction.  The list of the router is what is left of the history of uses *)
(* when evicted models are struck out: names that both contain stand in    *)
(* the same order in both.                                                 *)

Before(s, a, b) == \E i, j \in DOMAIN s : i < j /\ s[i] = a /\ s[j] = b

LEMMA BeforeIsPosition ==
  ASSUME NEW s \in Seq(Names), Distinct(s), NEW a, NEW b, Before(s, a, b)
  PROVE  Position(s, a) < Position(s, b)
<1>1. PICK i \in DOMAIN s, j \in DOMAIN s : i < j /\ s[i] = a /\ s[j] = b
  BY DEF Before
<1>2. Position(s, a) = i /\ Position(s, b) = j
  BY <1>1 DEF Position, Distinct
<1> QED
  BY <1>1, <1>2

LEMMA AppendOrder ==
  ASSUME NEW s \in Seq(Names), NEW name \in Names, NEW a, NEW b
  PROVE  Before(Append(s, name), a, b) <=> Before(s, a, b) \/ (b = name /\ a \in Elements(s))
<1> DEFINE t == Append(s, name)
<1>1. /\ Len(s) \in Nat
      /\ DOMAIN s = 1 .. Len(s)
      /\ t \in Seq(Names)
      /\ Len(t) = Len(s) + 1
      /\ \A i \in 1 .. Len(s) : t[i] = s[i]
      /\ t[Len(s) + 1] = name
  BY LenProperties, AppendProperties
<1>2. DOMAIN t = 1 .. Len(s) + 1
  BY <1>1, LenProperties
<1> HIDE DEF t
<1>3. ASSUME Before(t, a, b) PROVE Before(s, a, b) \/ (b = name /\ a \in Elements(s))
  <2>1. PICK i \in 1 .. Len(s) + 1, j \in 1 .. Len(s) + 1 : i < j /\ t[i] = a /\ t[j] = b
    BY <1>2, <1>3 DEF Before
  <2>2. i \in 1 .. Len(s) /\ s[i] = a
    BY <1>1, <2>1
  <2>3. CASE j = Len(s) + 1
    BY <1>1, <2>1, <2>2, <2>3 DEF Elements
  <2>4. CASE j # Len(s) + 1
    <3>1. j \in 1 .. Len(s) /\ s[j] = b
      BY <1>1, <2>1, <2>4
    <3> QED
      BY <1>1, <2>1, <2>2, <3>1 DEF Before
  <2> QED
    BY <2>3, <2>4
<1>4. ASSUME Before(s, a, b) PROVE Before(t, a, b)
  <2>1. PICK i \in 1 .. Len(s), j \in 1 .. Len(s) : i < j /\ s[i] = a /\ s[j] = b
    BY <1>1, <1>4 DEF Before
  <2>2. i \in DOMAIN t /\ j \in DOMAIN t /\ t[i] = a /\ t[j] = b
    BY <1>1, <1>2, <2>1
  <2> QED
    BY <2>1, <2>2 DEF Before
<1>5. ASSUME b = name, a \in Elements(s) PROVE Before(t, a, b)
  <2>1. PICK i \in 1 .. Len(s) : s[i] = a
    BY <1>1, <1>5 DEF Elements
  <2>2. /\ i \in DOMAIN t /\ Len(s) + 1 \in DOMAIN t /\ i < Len(s) + 1
        /\ t[i] = a /\ t[Len(s) + 1] = b
    BY <1>1, <1>2, <1>5, <2>1
  <2> QED
    BY <2>2 DEF Before
<1> QED
  BY <1>3, <1>4, <1>5 DEF t

LEMMA WithoutOrder ==
  ASSUME NEW s \in Seq(Names), Distinct(s), NEW name \in Names, NEW a, NEW b
  PROVE  Before(Without(s, name), a, b) <=> Before(s, a, b) /\ a # name /\ b # name
<1>1. CASE name \notin Elements(s)
  BY <1>1 DEF Without, Before, Elements
<1>2. CASE name \in Elements(s)
  <2> DEFINE t == Without(s, name)
  <2>1. Len(s) \in Nat /\ DOMAIN s = 1 .. Len(s)
    BY LenProperties
  <2>2. PICK i \in 1 .. Len(s) :
          /\ s[i] = name
          /\ t \in Seq(Names)
          /\ Len(t) = Len(s) - 1
          /\ \A k \in 1 .. Len(s) - 1 : t[k] = IF k < i THEN s[k] ELSE s[k + 1]
    BY <1>2, WithoutShape
  <2>3. DOMAIN t = 1 .. Len(s) - 1
    BY <2>2, LenProperties
  <2>4. name \notin Elements(t)
    BY WithoutFacts
  <2> HIDE DEF t
  <2> DEFINE Source(k) == IF k < i THEN k ELSE k + 1
             Target(k) == IF k < i THEN k ELSE k - 1
  <2>5. ASSUME Before(t, a, b) PROVE Before(s, a, b) /\ a # name /\ b # name
    <3>1. PICK k \in 1 .. Len(s) - 1, l \in 1 .. Len(s) - 1 : k < l /\ t[k] = a /\ t[l] = b
      BY <2>3, <2>5 DEF Before
    <3>2. /\ Source(k) \in DOMAIN s /\ Source(l) \in DOMAIN s /\ Source(k) < Source(l)
          /\ s[Source(k)] = a /\ s[Source(l)] = b
      BY <2>1, <2>2, <3>1
    <3>3. a # name /\ b # name
      BY <2>3, <2>4, <3>1 DEF Elements
    <3> HIDE DEF Source
    <3> QED
      BY <3>2, <3>3 DEF Before
  <2>6. ASSUME Before(s, a, b), a # name, b # name PROVE Before(t, a, b)
    <3>1. PICK k \in 1 .. Len(s), l \in 1 .. Len(s) : k < l /\ s[k] = a /\ s[l] = b
      BY <2>1, <2>6 DEF Before
    <3>2. k # i /\ l # i
      BY <2>2, <2>6, <3>1
    <3>3. /\ Target(k) \in 1 .. Len(s) - 1 /\ Target(l) \in 1 .. Len(s) - 1
          /\ Target(k) < Target(l)
          /\ t[Target(k)] = a /\ t[Target(l)] = b
      BY <2>1, <2>2, <3>1, <3>2
    <3> HIDE DEF Target
    <3> QED
      BY <2>3, <3>3 DEF Before
  <2> QED
    BY <2>5, <2>6 DEF t
<1> QED
  BY <1>1, <1>2

LEMMA TouchOrder ==
  ASSUME NEW s \in Seq(Names), Distinct(s), NEW name \in Names, NEW a, NEW b
  PROVE  Before(Touch(s, name), a, b) <=>
           /\ a # name
           /\ IF b = name THEN a \in Elements(s) ELSE Before(s, a, b)
<1>1. /\ Without(s, name) \in Seq(Names)
      /\ Elements(Without(s, name)) = Elements(s) \ {name}
  BY WithoutFacts
<1>2. Before(Touch(s, name), a, b) <=>
        Before(Without(s, name), a, b) \/ (b = name /\ a \in Elements(s) \ {name})
  BY <1>1, AppendOrder DEF Touch
<1> QED
  BY <1>2, WithoutOrder

LEMMA EvictOrder ==
  ASSUME NEW s \in Seq(Names), Distinct(s), maxLoaded \in Nat \ {0}, NEW a, NEW b
  PROVE  /\ Before(Evict(s), a, b) => Before(s, a, b)
         /\ a \in Elements(s) \ Elements(Evict(s)) /\ b \in Elements(Evict(s)) => Before(s, a, b)
<1>1. Len(s) \in Nat /\ DOMAIN s = 1 .. Len(s) /\ \A k \in 1 .. Len(s) : s[k] \in Names
  BY LenProperties
<1>2. CASE Len(s) <= maxLoaded
  BY <1>1, <1>2 DEF Evict
<1>3. CASE Len(s) > maxLoaded
  <2>0. Len(s) - maxLoaded \in Nat
    BY <1>1, <1>3
  <2>1. PICK n \in Nat : n = Len(s) - maxLoaded
    BY <2>0
  <2> DEFINE e == SubSeq(s, n + 1, Len(s))
  <2>2. n + maxLoaded = Len(s) /\ n + 1 <= Len(s) /\ Len(s) - (n + 1) + 1 = maxLoaded
    BY <1>1, <2>1
  <2>3. Evict(s) = e
    BY <1>3, <2>1 DEF Evict
  <2>4. DOMAIN e = 1 .. maxLoaded /\ \A k \in 1 .. maxLoaded : e[k] = s[k + n]
    <3>1. \A k \in n + 1 .. Len(s) : s[k] \in Names
      BY <1>1, <2>2
    <3>2. /\ e \in Seq(Names)
          /\ Len(e) = IF n + 1 <= Len(s) THEN Len(s) - (n + 1) + 1 ELSE 0
          /\ \A k \in 1 .. Len(s) - (n + 1) + 1 : e[k] = s[(n + 1) + k - 1]
      BY <1>1, <2>2, <3>1, SubSeqProperties
    <3>3. \A k \in 1 .. maxLoaded : (n + 1) + k - 1 = k + n
      BY <2>2
    <3> HIDE DEF e
    <3> QED
      BY <2>2, <3>2, <3>3, LenProperties
  <2> HIDE DEF e
  <2>5. \A k \in 1 .. maxLoaded : k + n \in DOMAIN s
    BY <1>1, <2>2
  <2>6. ASSUME Before(e, a, b) PROVE Before(s, a, b)
    <3>1. PICK k \in 1 .. maxLoaded, l \in 1 .. maxLoaded : k < l /\ e[k] = a /\ e[l] = b
      BY <2>4, <2>6 DEF Before
    <3>2. k + n \in DOMAIN s /\ l + n \in DOMAIN s /\ k + n < l + n
      BY <2>5, <3>1
    <3> QED
      BY <2>4, <3>1, <3>2 DEF Before
  <2>7. ASSUME a \in Elements(s) \ Elements(e), b \in Elements(e) PROVE Before(s, a, b)
    <3>1. PICK k \in 1 .. Len(s) : s[k] = a
      BY <1>1, <2>7 DEF Elements
    <3>2. PICK l \in 1 .. maxLoaded : s[l + n] = b
      BY <2>4, <2>7 DEF Elements
    <3>3. k <= n
      <4> SUFFICES ASSUME k > n PROVE FALSE
        BY <2>1
      <4>1. k - n \in 1 .. maxLoaded /\ (k - n) + n = k
        BY <1>1, <2>1, <2>2
      <4> QED
        BY <2>4, <2>7, <3>1, <4>1 DEF Elements
    <3>4. k \in DOMAIN s /\ l + n \in DOMAIN s /\ k < l + n
      BY <1>1, <2>5, <3>2, <3>3
    <3> QED
      BY <3>1, <3>2, <3>4 DEF Before
  <2> QED
    BY <2>3, <2>6, <2>7
<1> QED
  BY <1>1, <1>2, <1>3

OrderInv ==
  /\ agents \subseteq Elements(recent)
  /\ \A a, b \in Names : Before(order, a, b) => Before(recent, a, b)

\* A model is used: it goes to the end of both lists.
LEMMA UseKeepsOrder ==
  ASSUME CacheInv, OrderInv, NEW name \in Names,
         order' = Touch(order, name), Used(name), agents' \subseteq agents \cup {name}
  PROVE  OrderInv'
<1>1. /\ order \in Seq(Names) /\ Distinct(order) /\ Elements(order) = agents
      /\ recent \in Seq(Names) /\ Distinct(recent)
  BY DEF CacheInv, TypeOK, ViewsAgree, Distinct
<1>2. recent' = Touch(recent, name)
  BY DEF Used, Touch
<1>3. agents' \subseteq Elements(recent')
  BY <1>1, <1>2, TouchFacts DEF OrderInv
<1>4. ASSUME NEW a \in Names, NEW b \in Names, Before(order', a, b) PROVE Before(recent', a, b)
  <2>1. a # name /\ IF b = name THEN a \in agents ELSE Before(order, a, b)
    BY <1>1, <1>4, TouchOrder
  <2>2. a # name /\ IF b = name THEN a \in Elements(recent) ELSE Before(recent, a, b)
    BY <2>1 DEF OrderInv
  <2> QED
    BY <1>1, <1>2, <2>2, TouchOrder
<1> QED
  BY <1>3, <1>4 DEF OrderInv, Before, Elements

\* A model is built: what _evict() strikes out of the list was used before what stays.
LEMMA BuildOrder ==
  ASSUME CacheInv, OrderInv, NEW name \in Names, Build(name)
  PROVE  /\ OrderInv'
         /\ \A gone \in agents \ agents', kept \in agents' : Before(recent', gone, kept)
<1> DEFINE s == Append(order, name)
<1>1. /\ order \in Seq(Names) /\ Distinct(order) /\ Elements(order) = agents
      /\ recent \in Seq(Names) /\ Distinct(recent)
      /\ maxLoaded \in Nat \ {0} /\ agents \subseteq Names
  BY DEF CacheInv, TypeOK, ViewsAgree, Distinct
<1>2. name \notin agents /\ order' = Evict(s) /\ agents' = Keep(agents \cup {name}, s)
  BY DEF Build
<1>3. s \in Seq(Names) /\ Distinct(s) /\ Elements(s) = agents \cup {name}
  BY <1>1, <1>2, AppendFacts
<1>4. \A a, b : Before(s, a, b) => a \in agents /\ (Before(order, a, b) \/ b = name)
  <2> SUFFICES ASSUME NEW a, NEW b, Before(s, a, b)
               PROVE  a \in agents /\ (Before(order, a, b) \/ b = name)
    OBVIOUS
  <2>1. Before(order, a, b) \/ (b = name /\ a \in Elements(order))
    BY <1>1, AppendOrder
  <2>2. Before(order, a, b) => a \in Elements(order)
    BY DEF Before, Elements
  <2> QED
    BY <1>1, <2>1, <2>2
<1>5. \A b : Before(order, name, b) \/ Before(order, b, name) => FALSE
  BY <1>1, <1>2 DEF Before, Elements
<1> HIDE DEF s
<1>6. Elements(order') = agents' /\ agents' \subseteq agents \cup {name}
  <2>1. /\ Keep(Elements(s), s) = Elements(Evict(s))
        /\ Elements(Evict(s)) \subseteq Elements(s)
    BY <1>1, <1>3, EvictFacts
  <2>2. Elements(order') = Elements(Evict(s))
    BY <1>2
  <2> QED
    BY <1>2, <1>3, <2>1, <2>2
<1>7. recent' = Touch(recent, name)
  BY DEF Build, Used, Touch
<1>8. ASSUME NEW a \in Names, NEW b \in Names, Before(s, a, b) PROVE Before(recent', a, b)
  <2>1. a \in agents /\ a # name /\ (Before(order, a, b) \/ b = name)
    BY <1>2, <1>4, <1>8
  <2>2. IF b = name THEN a \in Elements(recent) ELSE Before(recent, a, b)
    BY <2>1 DEF OrderInv
  <2> QED
    BY <1>1, <1>7, <2>1, <2>2, TouchOrder
<1>9. OrderInv'
  <2>1. agents' \subseteq Elements(recent')
    BY <1>1, <1>6, <1>7, TouchFacts DEF OrderInv
  <2>2. ASSUME NEW a \in Names, NEW b \in Names, Before(order', a, b) PROVE Before(recent', a, b)
    <3>1. Before(s, a, b)
      BY <1>1, <1>2, <1>3, <2>2, EvictOrder
    <3> QED
      BY <1>8, <3>1
  <2> QED
    BY <2>1, <2>2 DEF OrderInv, Before, Elements
<1>10. ASSUME NEW gone \in agents \ agents', NEW kept \in agents' PROVE Before(recent', gone, kept)
  <2>1. gone \in Elements(s) \ Elements(order') /\ kept \in Elements(order')
    BY <1>3, <1>6
  <2>2. Before(s, gone, kept)
    BY <1>1, <1>2, <1>3, <2>1, EvictOrder
  <2> QED
    BY <1>1, <1>6, <1>8, <2>2
<1> QED
  BY <1>9, <1>10

LEMMA OrderStart == Init => OrderInv
<1>1. DOMAIN << >> = {}
  OBVIOUS
<1> QED
  BY <1>1 DEF Init, OrderInv, Before

LEMMA OrderStep == CacheInv /\ OrderInv /\ [Next]_vars => OrderInv'
<1> SUFFICES ASSUME CacheInv, OrderInv, [Next]_vars PROVE OrderInv'
  OBVIOUS
<1>1. ASSUME UNCHANGED <<agents, order, recent>> PROVE OrderInv'
  BY <1>1 DEF OrderInv, Before, Elements
<1>2. ASSUME NEW name \in Names, Load(name) PROVE OrderInv'
  <2>1. CASE Hit(name)
    BY <2>1, UseKeepsOrder DEF Hit
  <2>2. CASE Build(name)
    BY <2>2, BuildOrder
  <2>3. CASE Refuse(name)
    BY <1>1, <2>3 DEF Refuse
  <2> QED
    BY <1>2, <2>1, <2>2, <2>3 DEF Load
<1>3. ASSUME NEW name \in Names, Attach(name) PROVE OrderInv'
  BY <1>3, UseKeepsOrder DEF Attach
<1>4. ASSUME NEW name \in Names, Unload(name) PROVE OrderInv'
  <2>1. /\ order \in Seq(Names) /\ Distinct(order)
        /\ recent \in Seq(Names) /\ Distinct(recent)
    BY DEF CacheInv, TypeOK, ViewsAgree, Distinct
  <2>2. order' = Without(order, name) /\ recent' = Without(recent, name) /\ agents' = agents \ {name}
    BY <1>4 DEF Unload, UnloadFromOrder
  <2>3. agents' \subseteq Elements(recent')
    BY <2>1, <2>2, WithoutFacts DEF OrderInv
  <2>4. ASSUME NEW a \in Names, NEW b \in Names, Before(order', a, b) PROVE Before(recent', a, b)
    BY <2>1, <2>2, <2>4, WithoutOrder DEF OrderInv
  <2> QED
    BY <2>3, <2>4 DEF OrderInv, Before, Elements
<1>5. ASSUME UnloadAll PROVE OrderInv'
  <2>1. DOMAIN << >> = {}
    OBVIOUS
  <2>2. order' = << >> /\ agents' = {}
    BY <1>5 DEF UnloadAll
  <2>3. \A a, b \in Names : ~Before(order', a, b)
    BY <2>1, <2>2 DEF Before
  <2> QED
    BY <2>2, <2>3 DEF OrderInv, Before, Elements
<1>6. ASSUME PreloadOne PROVE OrderInv'
  BY <1>6, TodoFacts, BuildOrder DEF PreloadOne
<1>7. ASSUME PreloadFails PROVE OrderInv'
  BY <1>1, <1>7 DEF PreloadFails, Refuse
<1>8. ASSUME NEW names, Preload(names) PROVE OrderInv'
  BY <1>1, <1>8 DEF Preload
<1>9. ASSUME Skip \/ UNCHANGED vars PROVE OrderInv'
  BY <1>1, <1>9 DEF Skip, vars
<1> QED
  BY <1>2, <1>3, <1>4, <1>5, <1>6, <1>7, <1>8, <1>9 DEF Next

\* Each model that a load pushes out was used less recently than every model
\* that stays: the eviction order is the order of uses, through every hit,
\* attachment and unload in between.
THEOREM RouterEvictsLeastRecent == Spec => EvictsLeastRecent
<1> DEFINE Fair == \A gone \in agents \ agents' : \A kept \in agents' :
                     gone \in Elements(recent') => Position(recent', gone) < Position(recent', kept)
<1>1. ASSUME CacheInv, CacheInv', OrderInv, Next PROVE Fair
  <2> SUFFICES ASSUME NEW gone \in agents \ agents', NEW kept \in agents', gone \in Elements(recent')
               PROVE  Position(recent', gone) < Position(recent', kept)
    OBVIOUS
  <2>1. recent' \in Seq(Names) /\ Distinct(recent')
    BY <1>1 DEF CacheInv, TypeOK, Distinct
  <2>2. ASSUME NEW name \in Names, Build(name) PROVE Before(recent', gone, kept)
    BY <1>1, <2>2, BuildOrder
  <2>3. CASE \E name \in Names : Load(name)
    BY <2>1, <2>2, <2>3, BeforeIsPosition DEF Load, Hit, Refuse
  <2>4. CASE \E name \in Names : Attach(name)
    BY <2>4 DEF Attach
  <2>5. CASE \E name \in Names : Unload(name)
    <3>1. PICK name \in Names : Unload(name)
      BY <2>5
    <3>2. gone = name /\ recent' = Without(recent, name)
      BY <3>1 DEF Unload
    <3>3. name \notin Elements(recent')
      BY <1>1, <3>2, WithoutFacts DEF CacheInv, TypeOK
    <3> QED
      BY <3>2, <3>3
  <2>6. CASE UnloadAll
    BY <2>6 DEF UnloadAll
  <2>7. CASE \E n \in 1 .. MaxPreload : \E names \in [1 .. n -> Names] : Preload(names)
    BY <2>7 DEF Preload
  <2>8. CASE Skip
    BY <2>8 DEF Skip
  <2>9. CASE PreloadOne
    <3>1. Head(todo) \in Names /\ Build(Head(todo))
      BY <1>1, <2>9, TodoFacts DEF PreloadOne
    <3> QED
      BY <2>1, <2>2, <3>1, BeforeIsPosition
  <2>10. CASE PreloadFails
    BY <2>10 DEF PreloadFails, Refuse
  <2> QED
    BY <1>1, <2>3, <2>4, <2>5, <2>6, <2>7, <2>8, <2>9, <2>10 DEF Next
<1>2. CacheInv /\ CacheInv' /\ OrderInv /\ [Next]_vars => [Fair]_vars
  BY <1>1
<1>3. EvictsLeastRecent <=> [][Fair]_vars
  BY DEF EvictsLeastRecent
<1> HIDE DEF Fair
<1> QED
  BY <1>2, <1>3, CacheStart, CacheStep, OrderStart, OrderStep, PTL DEF Spec

----------------------------------------------------------------------------
(* predict(): its steps are steps of the cache, and the checkpoint that it *)
(* has used is the newest.                                                 *)

\* Eviction keeps the newest.
LEMMA EvictKeepsLast ==
  ASSUME NEW s \in Seq(Names), Distinct(s), s # << >>, maxLoaded \in Nat \ {0}
  PROVE  /\ Evict(s)[Len(Evict(s))] = s[Len(s)]
         /\ s[Len(s)] \in Elements(Evict(s))
<1>1. Len(s) \in Nat \ {0} /\ Evict(s) \in Seq(Names)
  BY EvictFacts
<1>2. Len(Evict(s)) \in 1 .. Len(Evict(s)) /\ Evict(s)[Len(Evict(s))] = s[Len(s)]
  BY <1>1 DEF Evict
<1>3. DOMAIN Evict(s) = 1 .. Len(Evict(s))
  BY <1>1
<1> QED
  BY <1>2, <1>3, Zenon DEF Elements

\* What holds of a Router between two calls: predict() leaves it in a state of the cache,
\* and decides from the request and from what it read of the state alone.
Settled ==
  /\ Idle
  /\ asked \in Requests /\ text = StateText(asked.state)
  /\ decision \in {Unrouted, Route(router, asked, text)}
NewestAnswered ==
  outcome \in Names =>
    /\ outcome = decision.model
    /\ outcome \in agents
    /\ order[Len(order)] = outcome

\* No outcome that is not a checkpoint is the name of one.
LEMMA OutcomeNames == Names \cap {None, "ValueError", "load failed"} = {}
  BY RoutedAssumption DEF ModelNames, None

\* A step of predict(), or of the other calls, is a step of the cache or none of it.
LEMMA RoutedIsCache ==
  ASSUME CacheInv, Idle, [RoutedNext]_routedVars
  PROVE  [Next]_vars
<1>1. CASE Predict
  <2> DEFINE name == decision'.model
  <2>1. CASE UNCHANGED vars
    BY <2>1
  <2>2. CASE (Hit(name) \/ Build(name)) /\ Forget
    <3>1. name \in Names
      BY <2>2, RouterAssumption DEF Hit, Build, CacheInv, TypeOK
    <3> QED
      BY <2>2, <3>1 DEF Next, Load
  <2>3. CASE Refuse(name) /\ name \in Names /\ Forget
    BY <2>3 DEF Next, Load
  <2> QED
    BY <1>1, <2>1, <2>2, <2>3 DEF Predict
<1>2. CASE Manage
  BY <1>2 DEF Manage, Next
<1>3. CASE UNCHANGED routedVars
  BY <1>3 DEF routedVars
<1> QED
  BY <1>1, <1>2, <1>3 DEF RoutedNext

\* Every step leaves the Router settled.
LEMMA SettledStep ==
  ASSUME Settled, [RoutedNext]_routedVars
  PROVE  Settled'
<1>1. CASE Predict
  BY <1>1 DEF Settled, Predict, Idle, Forget, vars
<1>2. CASE Manage
  BY <1>2 DEF Settled, Manage, Idle, Load, Attach, Unload, UnloadAll, Forget
<1>3. CASE UNCHANGED routedVars
  BY <1>3 DEF routedVars, vars, Settled, Idle
<1> QED
  BY <1>1, <1>2, <1>3 DEF RoutedNext

\* Every step leaves the checkpoint that has answered resident and the newest.
LEMMA NewestStep ==
  ASSUME CacheInv, NewestAnswered, [RoutedNext]_routedVars
  PROVE  NewestAnswered'
<1>0. /\ order \in Seq(Names) /\ Distinct(order) /\ Elements(order) = agents
      /\ maxLoaded \in Nat \ {0} /\ agents \subseteq Names
  BY DEF CacheInv, TypeOK, ViewsAgree, Distinct
<1>1. CASE Predict
  <2> DEFINE name == decision'.model
  <2>1. CASE outcome' \in {"ValueError", "load failed"}
    BY <2>1, OutcomeNames DEF NewestAnswered
  <2>2. CASE Hit(name) /\ outcome' = name
    <3>1. name \in agents /\ order' = Append(Without(order, name), name) /\ agents' = agents
      BY <2>2 DEF Hit, Touch
    <3>2. Without(order, name) \in Seq(Names) /\ name \in Names
      BY <1>0, <3>1, WithoutFacts
    <3> DEFINE w == Without(order, name)
    <3> HIDE DEF w, name
    <3>3. Append(w, name)[Len(Append(w, name))] = name
      BY <3>2 DEF w
    <3> QED
      BY <2>2, <3>1, <3>3 DEF NewestAnswered, w, name
  <2>3. CASE Build(name) /\ outcome' = name
    <3> DEFINE s == Append(order, name)
    <3>1. /\ name \in Names \ agents /\ order' = Evict(s)
          /\ agents' = Keep(agents \cup {name}, s)
      BY <2>3, RouterAssumption DEF Build
    <3>2. s \in Seq(Names) /\ Distinct(s) /\ Elements(s) = agents \cup {name}
      BY <1>0, <3>1, AppendFacts
    <3>3. s # << >> /\ s[Len(s)] = name
      BY <1>0, <3>1
    <3> HIDE DEF s, name
    <3>4. /\ Evict(s)[Len(Evict(s))] = name /\ name \in Elements(Evict(s))
          /\ Keep(Elements(s), s) = Elements(Evict(s))
      BY <1>0, <3>2, <3>3, EvictKeepsLast, EvictFacts
    <3> QED
      BY <2>3, <3>1, <3>2, <3>4 DEF NewestAnswered, name
  <2> QED
    BY <1>1, <2>1, <2>2, <2>3 DEF Predict
<1>2. CASE Manage
  BY <1>2, OutcomeNames DEF Manage, NewestAnswered
<1>3. CASE UNCHANGED routedVars
  BY <1>3 DEF routedVars, vars, NewestAnswered
<1> QED
  BY <1>1, <1>2, <1>3 DEF RoutedNext

\* Together, with the invariant of the cache.
RoutedInv == CacheInv /\ Settled /\ NewestAnswered

\* predict() and the other calls keep it.
LEMMA RoutedInvariant == RoutedSpec => []RoutedInv
<1>1. RoutedInit => RoutedInv
  <2>1. RoutedInit => Settled /\ NewestAnswered
    BY OutcomeNames DEF RoutedInit, Init, Settled, NewestAnswered, Idle
  <2> QED
    BY <2>1, CacheStart DEF RoutedInit, RoutedInv
<1>2. RoutedInv /\ [RoutedNext]_routedVars => RoutedInv'
  <2> SUFFICES ASSUME RoutedInv, [RoutedNext]_routedVars PROVE RoutedInv'
    OBVIOUS
  <2>1. CacheInv /\ Settled /\ NewestAnswered
    BY DEF RoutedInv
  <2>2. CacheInv'
    BY <2>1, RoutedIsCache, CacheStep DEF Settled
  <2> QED
    BY <2>1, <2>2, SettledStep, NewestStep DEF RoutedInv
<1> QED
  BY <1>1, <1>2, PTL DEF RoutedSpec

\* A Router that is asked to predict is the cache of ModelRouter all the time: what is
\* proved of load(), attach() and unload() holds of every series of predictions.
THEOREM PredictRefinesTheCache == RoutedSpec => Spec
<1>1. RoutedInit => Init
  BY DEF RoutedInit
<1>2. RoutedInv /\ [RoutedNext]_routedVars => [Next]_vars
  BY RoutedIsCache DEF RoutedInv, Settled
<1> QED
  BY <1>1, <1>2, RoutedInvariant, PTL DEF RoutedSpec, Spec

\* The checkpoint that has answered is the one that the request was routed to; it is
\* resident, and the last that the Router would evict, whatever was loaded before.
THEOREM RoutedIsAlwaysResident == RoutedSpec => []RoutedIsResident
<1>1. RoutedInv => RoutedIsResident
  BY DEF RoutedInv, NewestAnswered, RoutedIsResident
<1> QED
  BY <1>1, RoutedInvariant, PTL

\* The typed-decisions checkpoint comes in by name, by a workflow that a Router told to
\* look finds, or as the default: detection alone never chooses it.
THEOREM TypedOnlyEverWhenAsked == RoutedSpec => []TypedOnlyWhenAsked
<1>1. Settled => TypedOnlyWhenAsked
  <2> SUFFICES ASSUME Settled, decision.model = "typed-decisions"
               PROVE  \/ \E given \in {asked.model, asked.task} : NormaliseName(given) = "typed-decisions"
                      \/ router.auto /\ \E wf \in DOMAIN Workflows : Workflows[wf] = asked.ids
                      \/ router.default = "typed-decisions" /\ Analyse(text).script = "unknown"
    BY DEF TypedOnlyWhenAsked
  <2>1. decision = Route(router, asked, text)
    BY DEF Settled, Unrouted, None
  <2>2. CASE asked.model # None
    BY <2>1, <2>2 DEF Route
  <2>3. CASE asked.model = None /\ asked.task # None
    <3>1. TaskName(asked.task) = "typed-decisions"
      BY <2>1, <2>3 DEF Route
    <3>2. NormaliseName("typed-decisions") = "typed-decisions"
      <4>1. Called("typed-decisions") = {"typed-decisions"}
        BY DEF Called, Aliases, ModelNames
      <4> QED
        BY <4>1 DEF NormaliseName
    <3> QED
      BY <3>1, <3>2 DEF TaskName
  <2>4. CASE asked.model = None /\ asked.task = None /\ MatchWorkflow(asked.ids) /\ router.auto
    BY <2>4 DEF MatchWorkflow
  <2>5. CASE /\ asked.model = None /\ asked.task = None /\ ~(MatchWorkflow(asked.ids) /\ router.auto)
             /\ asked.lang # None
    BY <2>1, <2>5 DEF Route
  <2>6. CASE /\ asked.model = None /\ asked.task = None /\ ~(MatchWorkflow(asked.ids) /\ router.auto)
             /\ asked.lang = None
    <3>1. Detected(router.default, text) = "typed-decisions"
      BY <2>1, <2>6 DEF Route
    <3> QED
      BY <3>1 DEF Detected
  <2> QED
    BY <2>2, <2>3, <2>4, <2>5, <2>6
<1> QED
  BY <1>1, RoutedInvariant, PTL DEF RoutedInv

----------------------------------------------------------------------------
(* What detection makes of a text: its words are words, sums over them are *)
(* naturals, and the first of the largest counts is found.                 *)

\* The letters of a script, and the words that a language lists, are counted.
LEMMA CountsNat ==
  ASSUME NEW words \in Seq(Word)
  PROVE  /\ DOMAIN words = 1 .. Len(words) /\ IsFiniteSet(DOMAIN words)
         /\ \A s : Letters(words, s) \in Nat
         /\ \A l : Score(words, l) \in Nat
         /\ SumFunction([i \in DOMAIN words |-> words[i].letters]) \in Nat
<1>1. /\ DOMAIN words = 1 .. Len(words) /\ Len(words) \in Nat
      /\ \A i \in DOMAIN words : words[i].letters \in Nat
  <2>1. /\ DOMAIN words = 1 .. Len(words) /\ Len(words) \in Nat
        /\ \A i \in DOMAIN words : words[i] \in Word
    OBVIOUS
  <2>2. \A w \in Word : w.letters \in Nat
    BY DEF Word
  <2> QED
    BY <2>1, <2>2
<1>2. IsFiniteSet(DOMAIN words)
  BY <1>1, FS_Interval
<1>3. ASSUME NEW s PROVE Letters(words, s) \in Nat
  <2> DEFINE g == [i \in DOMAIN words |-> IF words[i].script = s THEN words[i].letters ELSE 0]
  <2>1. IsFiniteSet(DOMAIN g) /\ \A x \in DOMAIN g : g[x] \in Nat
    BY <1>1, <1>2
  <2>2. SumFunction(g) \in Nat
    <3> HIDE DEF g
    <3> QED
      BY <2>1, SumNat
  <2> QED
    BY <2>2 DEF Letters
<1>4. ASSUME NEW l PROVE Score(words, l) \in Nat
  <2> DEFINE g == [i \in DOMAIN words |-> IF l \in words[i].lists THEN 1 ELSE 0]
  <2>1. IsFiniteSet(DOMAIN g) /\ \A x \in DOMAIN g : g[x] \in Nat
    BY <1>2
  <2>2. SumFunction(g) \in Nat
    <3> HIDE DEF g
    <3> QED
      BY <2>1, SumNat
  <2> QED
    BY <2>2 DEF Score
<1>5. SumFunction([i \in DOMAIN words |-> words[i].letters]) \in Nat
  <2> DEFINE g == [i \in DOMAIN words |-> words[i].letters]
  <2>1. IsFiniteSet(DOMAIN g) /\ \A x \in DOMAIN g : g[x] \in Nat
    BY <1>1, <1>2
  <2> HIDE DEF g
  <2>2. SumFunction(g) \in Nat
    BY <2>1, SumNat
  <2> QED
    BY <2>2 DEF g
<1> QED
  BY <1>1, <1>2, <1>3, <1>4, <1>5

\* The width of a text, and of none.
LEMMA WidthFacts ==
  /\ \A words \in Seq(Word) : Width(words) \in Nat
  /\ Width(<< >>) = 0
<1>1. ASSUME NEW words \in Seq(Word) PROVE Width(words) \in Nat
  <2>1. SumFunction([i \in DOMAIN words |-> words[i].letters]) \in Nat
    BY <1>1, CountsNat
  <2> DEFINE m == Len(words) - 1
  <2>2. m \in Int /\ 0 \in Int
    OBVIOUS
  <2> HIDE DEF m
  <2>3. Max({0, m}) \in {0, m} /\ Max({0, m}) >= 0
    BY <2>2, MaxOfTwo, Zenon
  <2> QED
    BY <2>1, <2>2, <2>3 DEF Width, m
<1>2. Width(<< >>) = 0
  <2> DEFINE g == [i \in DOMAIN << >> |-> << >>[i].letters]
             none == << >>
  <2>1. DOMAIN g = {}
    OBVIOUS
  <2> HIDE DEF g
  <2>2. SumFunction(g) = 0
    BY <2>1, SumNothing
  <2>3. Max({0, Len(none) - 1}) = 0
    <3>1. Len(none) - 1 = -1 /\ 0 \in Int /\ -1 \in Int
      OBVIOUS
    <3>2. Max({0, -1}) \in {0, -1} /\ Max({0, -1}) >= 0
      BY <3>1, MaxOfTwo
    <3> QED
      BY <3>1, <3>2
  <2> QED
    BY <2>2, <2>3 DEF Width, g
<1> QED
  BY <1>1, <1>2

\* state_text() makes a sequence of words of a state, the last of them cut.
LEMMA StateTextType ==
  ASSUME NEW state \in State
  PROVE  StateText(state) \in Seq(Word)
<1> DEFINE words == Collected(state)
           Fits == {n \in 0 .. Len(words) : Width(SubSeq(words, 1, n)) <= MaxChars}
           whole == Max(Fits)
           left == MaxChars - Width(SubSeq(words, 1, whole)) - (IF whole = 0 THEN 0 ELSE 1)
           cut == IF whole < Len(words) /\ left > 0 THEN << CutWord(words[whole + 1], left) >> ELSE << >>
<1>0. MaxDepth \in Nat /\ MaxChars \in Nat
  BY LanguageAssumption
<1>1. words \in Seq(Word)
  <2> DEFINE e(i) == IF state[i].depth <= MaxDepth THEN state[i].words ELSE << >>
             n == Len(state)
             f == [i \in 1 .. n |-> e(i)]
  <2>1. n \in Nat /\ DOMAIN state = 1 .. n /\ \A i \in 1 .. n : state[i].words \in Seq(Word)
    <3> DEFINE R == [depth : Nat, words : Seq(Word)]
    <3>1. state \in Seq(R)
      BY Zenon DEF State
    <3>2. \A x \in R : x.words \in Seq(Word)
      OBVIOUS
    <3> HIDE DEF R
    <3>3. n \in Nat /\ DOMAIN state = 1 .. n /\ \A i \in 1 .. n : state[i] \in R
      BY <3>1
    <3> QED
      BY <3>2, <3>3
  <2>2. << >> \in Seq(Word)
    OBVIOUS
  <2>3. \A i \in 1 .. n : e(i) \in Seq(Word)
    BY <2>1, <2>2
  <2>4. words = FlattenSeq(f)
    BY <2>1 DEF Collected
  <2> HIDE DEF e, n
  <2>5. f \in [1 .. n -> Seq(Word)]
    BY <2>3
  <2> HIDE DEF f
  <2>6. f \in Seq(Seq(Word))
    BY <2>1, <2>5
  <2> QED
    BY <2>4, <2>6, FlatWhole
<1> HIDE DEF words
<1>2. Len(words) \in Nat /\ \A n \in 0 .. Len(words) : SubSeq(words, 1, n) \in Seq(Word)
  BY <1>1
<1>3. whole \in 0 .. Len(words)
  <2>1. SubSeq(words, 1, 0) = << >> /\ 0 \in 0 .. Len(words)
    BY <1>2, SubSeqEmpty
  <2>2. 0 \in Fits
    <3>1. Width(SubSeq(words, 1, 0)) = 0
      BY <2>1, WidthFacts, Zenon
    <3> QED
      BY <1>0, <2>1, <3>1
  <2>3. Fits \in SUBSET (0 .. Len(words)) /\ Fits # {}
    BY <2>2
  <2> HIDE DEF Fits
  <2>4. Max(Fits) \in Fits
    BY <1>2, <2>3, MaxOfBounded
  <2> QED
    BY <2>3, <2>4
<1> HIDE DEF whole, Fits
<1>4. left \in Int
  <2>1. Width(SubSeq(words, 1, whole)) \in Nat
    BY <1>2, <1>3, WidthFacts
  <2> QED
    BY <1>0, <2>1
<1> HIDE DEF left
<1>5. cut \in Seq(Word)
  <2>1. CASE whole < Len(words) /\ left > 0
    <3> DEFINE w == words[whole + 1]
               c == CutWord(w, left)
    <3>1. w \in Word /\ left \in Nat
      BY <1>1, <1>3, <1>4, <2>1
    <3> HIDE DEF w
    <3>2. Min({w.accents, left}) \in Nat
      <4>1. w.accents \in Int /\ left \in Int /\ w.accents \in Nat
        BY <1>4, <3>1 DEF Word
      <4>2. Min({w.accents, left}) = IF w.accents <= left THEN w.accents ELSE left
        BY <4>1, MinOfTwo
      <4> QED
        BY <3>1, <4>1, <4>2
    <3>3. {} \in FunctionWords
      BY DEF FunctionWords
    <3>4. c \in Word
      BY <3>1, <3>2, <3>3 DEF CutWord, Word
    <3> HIDE DEF c
    <3>5. << c >> \in Seq(Word)
      BY <3>4
    <3> QED
      BY <2>1, <3>5 DEF c, w
  <2>2. CASE ~(whole < Len(words) /\ left > 0)
    BY <2>2
  <2> QED
    BY <2>1, <2>2
<1>6. StateText(state) = SubSeq(words, 1, whole) \o cut
  BY DEF StateText, words, whole, left, Fits
<1> HIDE DEF cut
<1>7. SubSeq(words, 1, whole) \in Seq(Word)
  BY <1>2, <1>3
<1> DEFINE start == SubSeq(words, 1, whole)
<1> HIDE DEF start
<1>8. start \o cut \in Seq(Word)
  <2>1. start \in Seq(Word) /\ cut \in Seq(Word)
    BY <1>5, <1>7 DEF start
  <2> QED
    BY <2>1, Joins
<1> QED
  BY <1>6, <1>8, Zenon DEF start

\* The other scripts of a text in their order: each of them is there.
LEMMA OthersFound ==
  ASSUME NEW words \in Seq(Word)
  PROVE  /\ OthersInOrder(words) \in Seq(OtherScripts)
         /\ \A i \in DOMAIN words : words[i].script \in OtherScripts =>
              \E p \in 1 .. Len(OthersInOrder(words)) : OthersInOrder(words)[p] = words[i].script
<1> DEFINE n == Len(words)
           e(i) == IF words[i].script \in OtherScripts THEN << words[i].script >> ELSE << >>
           f == [i \in 1 .. n |-> e(i)]
<1>1. n \in Nat /\ DOMAIN words = 1 .. n
  OBVIOUS
<1>2. OthersInOrder(words) = FlattenSeq(f)
  BY <1>1 DEF OthersInOrder
<1>3. \A i \in 1 .. n : e(i) \in Seq(OtherScripts)
  <2>1. ASSUME NEW i \in 1 .. n PROVE e(i) \in Seq(OtherScripts)
    <3> DEFINE x == words[i].script
    <3> HIDE DEF x
    <3>1. x \in OtherScripts => << x >> \in Seq(OtherScripts)
      OBVIOUS
    <3>2. << >> \in Seq(OtherScripts)
      OBVIOUS
    <3> QED
      BY <3>1, <3>2, Zenon DEF x
  <2> QED
    BY <2>1
<1>4. \A i \in 1 .. n : words[i].script \in OtherScripts =>
        Len(e(i)) = 1 /\ e(i)[1] = words[i].script
  OBVIOUS
<1> HIDE DEF e, n
<1>5. f \in Seq(Seq(OtherScripts)) /\ Len(f) = n /\ \A i \in 1 .. n : f[i] = e(i)
  <2>1. f \in [1 .. n -> Seq(OtherScripts)] /\ \A i \in 1 .. n : f[i] = e(i)
    BY <1>3
  <2> HIDE DEF f
  <2> QED
    BY <1>1, <2>1
<1> HIDE DEF f
<1>6. FlattenSeq(f) \in Seq(OtherScripts)
  BY <1>5, FlatWhole
<1>7. ASSUME NEW i \in 1 .. n, words[i].script \in OtherScripts
      PROVE  \E p \in 1 .. Len(FlattenSeq(f)) : FlattenSeq(f)[p] = words[i].script
  <2>1. i \in 1 .. Len(f) /\ 1 \in 1 .. Len(f[i]) /\ f[i][1] = words[i].script
    BY <1>4, <1>5, <1>7
  <2>2. \E p \in 1 .. Len(FlattenSeq(f)) : FlattenSeq(f)[p] = f[i][1]
    BY <1>5, <2>1, FlatElements
  <2> QED
    BY <2>1, <2>2
<1> QED
  BY <1>1, <1>2, <1>6, <1>7

\* The first of the largest counts: if another script reaches Latin's count, it is found,
\* or one that comes before it, because Latin is counted last.
LEMMA OtherScriptDetected ==
  ASSUME NEW words \in Seq(Word), NEW i \in DOMAIN words, NEW s \in OtherScripts,
         s = words[i].script, Letters(words, s) > 0, Letters(words, s) >= Letters(words, "latin")
  PROVE  DetectScript(words) \in OtherScripts
<1> DEFINE others == OthersInOrder(words)
           m == Len(others)
           latin == << "latin" >>
           keys == others \o latin
           f == [q \in 1 .. m + 1 |-> Letters(words, keys[q])]
           largest == Max({f[q] : q \in 1 .. m + 1})
           I == {q \in 1 .. m + 1 : Letters(words, keys[q]) = largest}
<1>1. others \in Seq(OtherScripts) /\ m \in Nat
  BY OthersFound
<1>2. PICK p \in 1 .. m : others[p] = s
  BY OthersFound
<1> HIDE DEF others
<1>3. /\ Len(keys) = m + 1 /\ DOMAIN keys = 1 .. m + 1
      /\ \A q \in 1 .. m : keys[q] = others[q] /\ keys[q] \in OtherScripts
      /\ keys[m + 1] = "latin"
  <2> DEFINE T == OtherScripts \cup {"latin"}
  <2>1. others \in Seq(T) /\ latin \in Seq(T) /\ Len(latin) = 1 /\ latin[1] = "latin"
    BY <1>1
  <2> HIDE DEF T, latin
  <2>2. /\ keys \in Seq(T) /\ Len(keys) = m + 1
        /\ \A q \in 1 .. m : keys[q] = others[q]
        /\ keys[m + 1] = "latin"
    <3>1. /\ keys \in Seq(T) /\ Len(keys) = Len(others) + Len(latin)
          /\ \A q \in 1 .. Len(others) : keys[q] = others[q]
          /\ \A q \in 1 .. Len(latin) : keys[Len(others) + q] = latin[q]
      <4>1. others \in Seq(T) /\ latin \in Seq(T)
        BY <2>1
      <4> QED
        BY <4>1, Joins
    <3> HIDE DEF keys
    <3>2. Len(latin) = 1 /\ 1 \in 1 .. Len(latin) /\ latin[1] = "latin"
      BY <2>1
    <3>3. keys[Len(others) + 1] = "latin"
      BY <3>1, <3>2, Zenon
    <3> QED
      BY <3>1, <3>2, <3>3, Zenon
  <2> HIDE DEF keys
  <2>3. \A q \in 1 .. m : others[q] \in OtherScripts
    BY <1>1
  <2> QED
    BY <2>2, <2>3
<1> HIDE DEF m, keys
<1>4. \A q \in 1 .. m + 1 : f[q] \in Nat /\ f[q] = Letters(words, keys[q])
  BY CountsNat
<1>5. /\ largest \in Nat /\ \A q \in 1 .. m + 1 : f[q] <= largest
      /\ \E q \in 1 .. m + 1 : f[q] = largest
  <2>1. m + 1 \in Nat \ {0}
    BY <1>1
  <2> HIDE DEF f
  <2> QED
    BY <1>4, <2>1, LargestOfMany
<1>6. {Letters(words, k) : k \in ToSet(keys)} = {f[q] : q \in 1 .. m + 1}
  <2>1. ToSet(keys) = {keys[q] : q \in 1 .. m + 1}
    BY <1>3 DEF ToSet
  <2> HIDE DEF f
  <2> QED
    BY <1>4, <2>1
<1>7. f[p] = Letters(words, s) /\ p \in 1 .. m + 1 /\ f[m + 1] = Letters(words, "latin") /\ m + 1 \in 1 .. m + 1
  BY <1>1, <1>2, <1>3, <1>4
<1> HIDE DEF f
<1>8. Min(I) \in I /\ \A q \in I : Min(I) <= q
  <2>1. I \in SUBSET Nat /\ I # {}
    <3> HIDE DEF largest
    <3>1. PICK q \in 1 .. m + 1 : f[q] = largest
      BY <1>5
    <3>2. q \in I
      BY <1>4, <3>1
    <3>3. I \in SUBSET Nat
      BY <1>1
    <3> QED
      BY <3>2, <3>3
  <2> HIDE DEF I
  <2> QED
    BY <2>1, MinOfMany
<1>9. Min(I) \in 1 .. m
  <2>1. Min(I) \in 1 .. m + 1 /\ Letters(words, keys[Min(I)]) = largest
    BY <1>8
  <2>2. CASE Min(I) = m + 1
    <3>1. Letters(words, s) = largest
      <4>1. Letters(words, "latin") = largest
        BY <1>3, <2>1, <2>2
      <4>2. Letters(words, s) \in Nat /\ Letters(words, s) <= largest /\ Letters(words, s) >= largest
        BY <1>4, <1>5, <1>7, <4>1
      <4> HIDE DEF largest
      <4> QED
        BY <1>5, <4>2
    <3>2. p \in I
      BY <1>2, <1>3, <1>7, <3>1
    <3>3. ~(m + 1 <= p)
      BY <1>1
    <3> QED
      BY <1>8, <2>2, <3>2, <3>3, Zenon
  <2> QED
    BY <1>1, <2>1, <2>2
<1>10. largest # 0
  <2> HIDE DEF largest
  <2>1. f[p] \in Nat /\ f[p] > 0 /\ f[p] <= largest
    BY <1>4, <1>5, <1>7
  <2> QED
    BY <1>5, <2>1
<1>11. DetectScript(words) = keys[Min(I)]
  <2> DEFINE K == CountsInOrder(words)
             L == Max({Letters(words, k) : k \in ToSet(K)})
             J == {q \in 1 .. Len(K) : Letters(words, K[q]) = L}
  <2>1. DetectScript(words) = IF L = 0 THEN "unknown" ELSE K[IF J # {} THEN Min(J) ELSE 0]
    BY Zenon DEF DetectScript, SelectInSeq
  <2>2. K = keys
    BY Zenon DEF CountsInOrder, keys, others
  <2> HIDE DEF K
  <2>3. L = largest
    BY <1>6, <2>2, Zenon
  <2> HIDE DEF L, largest
  <2>4. J = I
    BY <1>3, <2>2, <2>3, Zenon
  <2> HIDE DEF J, I
  <2> QED
    BY <1>8, <1>10, <2>1, <2>2, <2>3, <2>4, Zenon
<1> QED
  BY <1>3, <1>9, <1>11

\* A text in which another script has as many letters as Latin is never left to the
\* English checkpoint by detection.
THEOREM UnreadableIsAvoided == RoutedSpec => []UnreadableAvoided
<1>1. Settled => UnreadableAvoided
  <2> SUFFICES ASSUME Settled, Looked, NEW s \in Others,
                      Letters(text, s) > 0, Letters(text, s) >= Letters(text, "latin")
               PROVE  decision.model = "multilingual"
    BY DEF UnreadableAvoided
  <2>1. decision = Route(router, asked, text)
    BY DEF Settled, Unrouted, None, Looked
  <2>2. text \in Seq(Word)
    BY StateTextType, RoutedAssumption DEF Settled
  <2>3. PICK i \in DOMAIN text : s = text[i].script /\ s \in OtherScripts
    BY DEF Others
  <2>4. DetectScript(text) \in OtherScripts
    BY <2>2, <2>3, OtherScriptDetected
  <2>5. DetectScript(text) # "unknown" /\ DetectScript(text) # "latin"
    BY <2>4, LanguageAssumption
  <2>6. Analyse(text).script = DetectScript(text)
    BY DEF Analyse
  <2>7. Detected(router.default, text) = "multilingual"
    BY <2>5, <2>6 DEF Detected
  <2>8. decision.model = Detected(router.default, text)
    BY <2>1 DEF Route, Looked
  <2> QED
    BY <2>7, <2>8
<1> QED
  BY <1>1, RoutedInvariant, PTL DEF RoutedInv

\* The languages other than English, and the one that most words of a text are listed for.
LEMMA BestFacts ==
  ASSUME NEW words \in Seq(Word)
  PROVE  /\ Best(words) \in ToSet(OtherLanguages)
         /\ \A i \in DOMAIN OtherLanguages : Score(words, OtherLanguages[i]) <= Score(words, Best(words))
<1> DEFINE L == OtherLanguages
           f == [i \in 1 .. 6 |-> Score(words, L[i])]
           most == Max({f[i] : i \in 1 .. 6})
           I == {i \in 1 .. 6 : Score(words, L[i]) = most}
<1>1. Len(L) = 6 /\ DOMAIN L = 1 .. 6
  BY DEF OtherLanguages
<1> HIDE DEF L
<1>2. \A i \in 1 .. 6 : f[i] \in Nat /\ f[i] = Score(words, L[i])
  BY CountsNat
<1>3. {Score(words, l) : l \in ToSet(L)} = {f[i] : i \in 1 .. 6}
  <2>1. ToSet(L) = {L[i] : i \in 1 .. 6}
    BY <1>1 DEF ToSet
  <2>2. {Score(words, l) : l \in ToSet(L)} = {Score(words, L[i]) : i \in 1 .. 6}
    BY <2>1, Zenon
  <2> HIDE DEF f
  <2> QED
    BY <1>2, <2>2
<1> HIDE DEF f
<1>4. /\ \A i \in 1 .. 6 : f[i] <= most
      /\ \E i \in 1 .. 6 : f[i] = most
  <2>1. 6 \in Nat \ {0}
    OBVIOUS
  <2> QED
    BY <1>2, <2>1, LargestOfMany, Zenon
<1> HIDE DEF most
<1>5. Min(I) \in I /\ I # {}
  <2>1. PICK i \in 1 .. 6 : f[i] = most
    BY <1>4
  <2>2. i \in I
    BY <1>2, <2>1
  <2>3. I \in SUBSET Nat /\ I # {}
    BY <2>2
  <2> HIDE DEF I
  <2> QED
    BY <2>3, MinOfMany
<1>6. Best(words) = L[Min(I)]
  <2> DEFINE M == Max({Score(words, l) : l \in ToSet(L)})
             J == {i \in 1 .. Len(L) : Score(words, L[i]) = M}
  <2>1. Best(words) = L[IF J # {} THEN Min(J) ELSE 0]
    BY Zenon DEF Best, SelectInSeq, L
  <2>2. M = most
    BY <1>3, Zenon DEF most
  <2> HIDE DEF M
  <2>3. J = I
    BY <1>1, <2>2, Zenon
  <2> HIDE DEF I, J
  <2> QED
    BY <1>5, <2>1, <2>3, Zenon
<1>7. Min(I) \in 1 .. 6 /\ Score(words, L[Min(I)]) = most
  BY <1>5
<1> HIDE DEF I
<1>8. Best(words) \in ToSet(L)
  BY <1>1, <1>6, <1>7 DEF ToSet
<1>9. \A i \in DOMAIN L : Score(words, L[i]) <= Score(words, Best(words))
  BY <1>1, <1>2, <1>4, <1>6, <1>7
<1> QED
  BY <1>8, <1>9 DEF L

\* None of them is English.
LEMMA OthersAreOther == "en" \notin ToSet(OtherLanguages) /\ "undecided" \notin ToSet(OtherLanguages)
  BY DEF ToSet, OtherLanguages

\* What guess_latin_language() makes of the scores: without a clear lead or many accents it
\* names no other language, and with a clear lead in four words it does.
LEMMA LatinGuess ==
  ASSUME NEW words \in Seq(Word)
  PROVE  LET best == Score(words, Best(words))
             en == Score(words, "en")
             guess == GuessLatinLanguage(words)
             lettered == {i \in DOMAIN words : words[i].script # NoLetters}
         IN  /\ best < en + 2 /\ ~AccentsReach(words, 4) => guess \in {"undecided", "en"}
             /\ best >= en + 2 /\ Cardinality(lettered) >= 4 => guess \notin {"undecided", "en"}
<1> DEFINE B == Best(words)
           best == Score(words, B)
           en == Score(words, "en")
           guess == GuessLatinLanguage(words)
           lettered == {i \in DOMAIN words : words[i].script # NoLetters}
           otherwise == IF en > 0 THEN "en" ELSE "undecided"
           few == Cardinality(lettered) < 4
           lead == Leads(best, en) \/ (AccentsReach(words, 4) /\ best >= en)
           none == best = 0 /\ ~AccentsReach(words, 2)
<1>1. guess = IF few THEN "undecided" ELSE IF none THEN otherwise ELSE IF lead THEN B ELSE otherwise
  BY Zenon DEF GuessLatinLanguage
<1>2. best \in Nat /\ en \in Nat /\ Cardinality(lettered) \in Nat
  <2>1. IsFiniteSet(lettered)
    BY CountsNat, FS_Subset
  <2> HIDE DEF lettered
  <2> QED
    BY <2>1, CountsNat, FS_CardinalityType
<1>3. B \notin {"undecided", "en"}
  BY BestFacts, OthersAreOther
<1> HIDE DEF best, en, guess, lettered, B
<1>4. Leads(best, en) <=> best >= 2 /\ best >= en + 2
  <2>1. en + 2 \in Int /\ 2 \in Int
    BY <1>2
  <2>2. Max({2, en + 2}) \in {2, en + 2} /\ Max({2, en + 2}) >= 2 /\ Max({2, en + 2}) >= en + 2
    BY <2>1, MaxOfTwo, Zenon
  <2> QED
    BY <1>2, <2>2 DEF Leads
<1>5. otherwise \in {"undecided", "en"}
  OBVIOUS
<1>6. ASSUME best < en + 2, ~AccentsReach(words, 4) PROVE guess \in {"undecided", "en"}
  <2>1. ~lead
    BY <1>2, <1>4, <1>6
  <2> HIDE DEF lead, none, few, otherwise
  <2> QED
    BY <1>1, <1>5, <2>1, Zenon
<1>7. ASSUME best >= en + 2, Cardinality(lettered) >= 4 PROVE guess \notin {"undecided", "en"}
  <2>1. ~few /\ best # 0 /\ best >= 2
    BY <1>2, <1>7
  <2>2. lead /\ ~none
    BY <1>4, <1>7, <2>1
  <2> HIDE DEF lead, none, few, otherwise
  <2> QED
    BY <1>1, <1>3, <2>1, <2>2, Zenon
<1> QED
  BY <1>6, <1>7 DEF best, en, guess, lettered, B

\* Latin text is taken from the English checkpoint when, in four words or more, another
\* language leads clearly, and without a lead and accents never.
THEOREM MarginAlwaysDecides == RoutedSpec => []MarginDecides
<1>1. Settled => MarginDecides
  <2> SUFFICES ASSUME Settled, Looked, Analyse(text).script = "latin"
               PROVE  LET ClearLead == \E i \in DOMAIN OtherLanguages :
                                         Score(text, OtherLanguages[i]) >= Score(text, "en") + 2
                          lettered == {i \in DOMAIN text : text[i].script # NoLetters}
                      IN  /\ ~ClearLead /\ ~AccentsReach(text, 4) => decision.model = "english"
                          /\ ClearLead /\ Cardinality(lettered) >= 4 => decision.model = "multilingual"
    BY DEF MarginDecides
  <2> DEFINE ClearLead == \E i \in DOMAIN OtherLanguages :
                            Score(text, OtherLanguages[i]) >= Score(text, "en") + 2
             best == Score(text, Best(text))
             en == Score(text, "en")
             guess == GuessLatinLanguage(text)
  <2>1. decision = Route(router, asked, text)
    BY DEF Settled, Unrouted, None, Looked
  <2>2. text \in Seq(Word)
    BY StateTextType, RoutedAssumption DEF Settled
  <2>3. decision.model = Detected(router.default, text)
    BY <2>1 DEF Route, Looked
  <2>4. decision.model = IF guess \in {"undecided", "en"} THEN "english" ELSE "multilingual"
    BY <2>3 DEF Analyse, Detected
  <2>5. ClearLead <=> best >= en + 2
    <3>1. best \in Nat /\ en \in Nat /\ \A l : Score(text, l) \in Nat
      BY <2>2, CountsNat
    <3>2. PICK b \in DOMAIN OtherLanguages : Best(text) = OtherLanguages[b]
      BY <2>2, BestFacts DEF ToSet
    <3>3. \A i \in DOMAIN OtherLanguages : Score(text, OtherLanguages[i]) <= best
      BY <2>2, BestFacts
    <3>4. best = Score(text, OtherLanguages[b])
      BY <3>2
    <3> HIDE DEF best, en
    <3>5. ASSUME ClearLead PROVE best >= en + 2
      <4>1. PICK i \in DOMAIN OtherLanguages : Score(text, OtherLanguages[i]) >= en + 2
        BY <3>5, Zenon DEF en
      <4>2. Score(text, OtherLanguages[i]) <= best /\ Score(text, OtherLanguages[i]) \in Nat
        BY <3>1, <3>3
      <4> QED
        BY <3>1, <4>1, <4>2
    <3>6. ASSUME best >= en + 2 PROVE ClearLead
      BY <3>2, <3>4, <3>6, Zenon DEF en
    <3> QED
      BY <3>5, <3>6
  <2>6. best \in Nat /\ en \in Nat
    BY <2>2, CountsNat
  <2>7. /\ best < en + 2 /\ ~AccentsReach(text, 4) => guess \in {"undecided", "en"}
        /\ best >= en + 2 /\ Cardinality({i \in DOMAIN text : text[i].script # NoLetters}) >= 4 =>
             guess \notin {"undecided", "en"}
    BY <2>2, LatinGuess, Zenon
  <2> HIDE DEF best, en, guess, ClearLead
  <2>8. ~ClearLead => best < en + 2
    BY <2>5, <2>6
  <2>9. /\ ~ClearLead /\ ~AccentsReach(text, 4) => decision.model = "english"
        /\ ClearLead /\ Cardinality({i \in DOMAIN text : text[i].script # NoLetters}) >= 4 =>
             decision.model = "multilingual"
    BY <2>4, <2>5, <2>7, <2>8, Zenon
  <2> QED
    BY <2>9, Zenon DEF ClearLead
<1> QED
  BY <1>1, RoutedInvariant, PTL DEF RoutedInv
=============================================================================
