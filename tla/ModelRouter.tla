----------------------------- MODULE ModelRouter -----------------------------
(***************************************************************************)
(* Which checkpoints a Router keeps in memory (router.py): load() builds   *)
(* an Agent on first use and evicts the least recently used one above      *)
(* max_loaded, attach() registers an Agent built elsewhere, preload()      *)
(* builds several up front, unload() frees them.                           *)
(*                                                                         *)
(* A Router is used by one thread.  An action is one call, but for         *)
(* preload(), which takes a step per model, each of which may fail.        *)
(***************************************************************************)
EXTENDS Integers, Sequences, FiniteSets

CONSTANTS
  Names,        \* MODEL_NAMES
  Configured,   \* the names whose path was given: the others map to None
  InitialMax,   \* the max_loaded the Router was created with, at least 1
  MaxPreload    \* bound: names passed to one preload()

ASSUME RouterAssumption ==
  /\ IsFiniteSet(Names)
  /\ Configured \subseteq Names
  /\ InitialMax \in Nat \ {0}
  /\ MaxPreload \in Nat

VARIABLES
  agents,     \* the keys of self._agents
  order,      \* self._order, least recently used first
  maxLoaded,  \* self.max_loaded
  todo,       \* names that the preload() under way has still to look at
  passed,     \* names that the last preload() has passed, while no other call has followed
  foreign,    \* whether that preload() found other models resident
  recent      \* history: the models used since they were last unloaded, in that order

vars == <<agents, order, maxLoaded, todo, passed, foreign, recent>>

Elements(s) == {s[i] : i \in DOMAIN s}

TypeOK ==
  /\ agents \subseteq Names
  /\ order \in Seq(Names)
  /\ maxLoaded \in Nat \ {0}
  /\ todo \in Seq(Names)
  /\ passed \subseteq Names
  /\ foreign \in BOOLEAN
  /\ recent \in Seq(Names)

Init ==
  /\ agents = {}
  /\ order = << >>
  /\ maxLoaded = InitialMax
  /\ todo = << >>
  /\ passed = {}
  /\ foreign = FALSE
  /\ recent = << >>

----------------------------------------------------------------------------
\* list.remove(): without the first occurrence, if there is one.
Without(s, name) ==
  IF name \in Elements(s)
  THEN LET i == CHOOSE i \in DOMAIN s : s[i] = name /\ \A j \in 1 .. i - 1 : s[j] # name
       IN  SubSeq(s, 1, i - 1) \o SubSeq(s, i + 1, Len(s))
  ELSE s

\* _touch().
TouchAppends(s, name) == IF name \in Elements(s) THEN s ELSE Append(s, name)   \* mutant
Touch(s, name) == Append(Without(s, name), name)

\* _evict(): pop(0) until the limit is met; then what the two views do not share.
Evict(s) ==
  IF Len(s) > maxLoaded THEN SubSeq(s, Len(s) - maxLoaded + 1, Len(s)) ELSE s

Keep(built, s) ==
  LET popped == built \ (Elements(s) \ Elements(Evict(s)))
  IN  IF Len(Evict(s)) < Cardinality(popped) THEN popped \cap Elements(Evict(s)) ELSE popped

\* load(): resident,
Used(name) == recent' = Append(Without(recent, name), name)

Hit(name) ==
  /\ name \in agents
  /\ order' = Touch(order, name)
  /\ Used(name)
  /\ UNCHANGED <<agents, maxLoaded>>

\* built,
Build(name) ==
  /\ name \in Configured \ agents
  /\ order' = Evict(Append(order, name))
  /\ agents' = Keep(agents \cup {name}, Append(order, name))
  /\ Used(name)
  /\ UNCHANGED maxLoaded

\* or refused: no path is configured, or the constructor of Agent raises.
Refuse(name) ==
  /\ name \notin agents
  /\ UNCHANGED <<agents, order, maxLoaded, recent>>

Idle == todo = << >>
Forget == todo' = << >> /\ passed' = {} /\ foreign' = FALSE

\* predict() routes to a name, loads it and runs it.
Load(name) ==
  /\ Idle
  /\ Hit(name) \/ Build(name) \/ Refuse(name)
  /\ Forget

\* attach() evicts nothing: it raises the limit instead.
LimitRaised == maxLoaded' = IF Cardinality(agents') > maxLoaded THEN Cardinality(agents') ELSE maxLoaded

Attach(name) ==
  /\ Idle
  /\ agents' = agents \cup {name}
  /\ order' = Touch(order, name)
  /\ LimitRaised
  /\ Used(name)
  /\ Forget

\* unload() of one name, or of all.
UnloadKeepingOrder(name) == UNCHANGED order       \* mutant: _order is forgotten
UnloadFromOrder(name) == order' = Without(order, name)

Unload(name) ==
  /\ Idle
  /\ agents' = agents \ {name}
  /\ UnloadFromOrder(name)
  /\ recent' = Without(recent, name)
  /\ UNCHANGED maxLoaded
  /\ Forget

UnloadAll ==
  /\ Idle
  /\ agents' = {}
  /\ order' = << >>
  /\ recent' = << >>
  /\ UNCHANGED maxLoaded
  /\ Forget

----------------------------------------------------------------------------
\* preload(): the limit is raised for the names and for what is resident ...
NoRoom(names) == UNCHANGED maxLoaded    \* mutant: the limit is not raised
Room(names) ==
  maxLoaded' = CHOOSE m \in {maxLoaded, Len(names), Cardinality(agents)} :
                 m >= maxLoaded /\ m >= Len(names) /\ m >= Cardinality(agents)

Preload(names) ==
  /\ Idle
  /\ Room(names)
  /\ todo' = names
  /\ passed' = {}
  /\ foreign' = ~(agents \subseteq Elements(names))
  /\ UNCHANGED <<agents, order, recent>>

\* ... the names that are resident are passed over, without a touch ...
Skip ==
  /\ ~Idle
  /\ Head(todo) \in agents
  /\ todo' = Tail(todo)
  /\ passed' = passed \cup {Head(todo)}
  /\ UNCHANGED <<agents, order, maxLoaded, foreign, recent>>

\* ... and the others are loaded; the first that fails ends the call, and what it has
\* loaded stays.
PreloadOne ==
  /\ ~Idle
  /\ Build(Head(todo))
  /\ todo' = Tail(todo)
  /\ passed' = passed \cup {Head(todo)}
  /\ UNCHANGED foreign

PreloadFails ==
  /\ ~Idle
  /\ Refuse(Head(todo))
  /\ todo' = << >>
  /\ UNCHANGED <<passed, foreign>>

Next ==
  \/ \E name \in Names : Load(name) \/ Attach(name) \/ Unload(name)
  \/ UnloadAll
  \/ \E n \in 1 .. MaxPreload : \E names \in [1 .. n -> Names] : Preload(names)
  \/ Skip
  \/ PreloadOne
  \/ PreloadFails

Spec == Init /\ [][Next]_vars

----------------------------------------------------------------------------
\* The two views of the cache agree after every call, and during preload().
ViewsAgree ==
  /\ Elements(order) = agents
  /\ \A i, j \in DOMAIN order : order[i] = order[j] => i = j

\* No sequence of loads, attachments, failed preloads and unloads leaves more
\* models in memory than the limit in force.
WithinLimit == Cardinality(agents) <= maxLoaded

\* Whatever makes a model leave memory, short of unloading it, every model that
\* stays has been used more recently.
Position(s, name) == CHOOSE i \in DOMAIN s : s[i] = name

EvictsLeastRecent ==
  [][\A gone \in agents \ agents' : \A kept \in agents' :
       gone \in Elements(recent') =>
         Position(recent', gone) < Position(recent', kept)]_vars

\* A preload() that started among models of its own list only keeps whatever it has
\* passed, found or built: its later loads push out none of it, and when one of them
\* fails, what was built before stays (router.py:198).
PreloadFromOwn == ~foreign => passed \subseteq agents

\* What router.py:199 says of preload(): no request for its models pays a load.
\* TLC refutes it as an invariant of MCModelRouter.cfg (see PreloadFromOwn for what holds).
PreloadedResident == Idle => passed \subseteq agents
=============================================================================
