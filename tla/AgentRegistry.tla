---------------------------- MODULE AgentRegistry ----------------------------
(***************************************************************************)
(* The AgentRegistry of server/queue.py: get() loads the Agent of an alias *)
(* on first use, inside the pool thread that calls it, and hands the same  *)
(* Agent to every later call.  One lock guards all aliases.                *)
(*                                                                         *)
(* An action is one step of a thread.  get() of an alias that has no path  *)
(* raises KeyError before it touches any state; the server asks `in` first *)
(* (app.py:152), so every call here names a configured alias.              *)
(***************************************************************************)
EXTENDS Integers, FiniteSets

CONSTANTS
  Calls,     \* the calls of get()
  NoCall,    \* nobody holds the lock
  Aliases,   \* the configured aliases: self._paths
  AliasOf    \* the alias each call names

ASSUME RegistryAssumption ==
  /\ IsFiniteSet(Calls)
  /\ NoCall \notin Calls
  /\ AliasOf \in [Calls -> Aliases]

VARIABLES
  lock,      \* self._lock: the call inside the with block
  agents,    \* self._agents: which load of the alias is resident, 0 for none
  loads,     \* history: how many loads of each alias have begun
  get,       \* where each call is
  got        \* the load of its alias that a call makes or was handed, 0 for none

registryVars == <<lock, agents, loads, get, got>>

CallStates == {"idle", "blocked", "loading", "returned", "raised"}

RegistryTypeOK ==
  /\ lock \in Calls \cup {NoCall}
  /\ agents \in [Aliases -> Nat]
  /\ loads \in [Aliases -> Nat]
  /\ get \in [Calls -> CallStates]
  /\ got \in [Calls -> Nat]

RegistryInit ==
  /\ lock = NoCall
  /\ agents = [a \in Aliases |-> 0]
  /\ loads = [a \in Aliases |-> 0]
  /\ get = [c \in Calls |-> "idle"]
  /\ got = [c \in Calls |-> 0]

----------------------------------------------------------------------------
\* The call reaches `with self._lock`.
Enter(c) ==
  /\ get[c] = "idle"
  /\ get' = [get EXCEPT ![c] = "blocked"]
  /\ UNCHANGED <<lock, agents, loads, got>>

LockUnneeded == TRUE                      \* mutant: no lock around the test
LockFree == lock = NoCall

\* The alias is resident: the with block is entered and left in one step.
Hit(c) ==
  /\ get[c] = "blocked"
  /\ LockFree
  /\ agents[AliasOf[c]] # 0
  /\ got' = [got EXCEPT ![c] = agents[AliasOf[c]]]
  /\ get' = [get EXCEPT ![c] = "returned"]
  /\ UNCHANGED <<lock, agents, loads>>

\* It is not: the constructor of Agent runs with the lock held ...
BeginLoad(c) ==
  /\ get[c] = "blocked"
  /\ LockFree
  /\ agents[AliasOf[c]] = 0
  /\ lock' = c
  /\ loads' = [loads EXCEPT ![AliasOf[c]] = @ + 1]
  /\ got' = [got EXCEPT ![c] = loads'[AliasOf[c]]]
  /\ get' = [get EXCEPT ![c] = "loading"]
  /\ UNCHANGED agents

\* ... and returns,
StoreNothing(c) == UNCHANGED agents       \* mutant: the Agent is not kept
Store(c) == agents' = [agents EXCEPT ![AliasOf[c]] = got[c]]

FinishLoad(c) ==
  /\ get[c] = "loading"
  /\ Store(c)
  /\ lock' = NoCall
  /\ get' = [get EXCEPT ![c] = "returned"]
  /\ UNCHANGED <<loads, got>>

\* or raises: nothing is stored, the with block frees the lock, and the next
\* call tries again.
FailHoldingLock(c) ==                     \* mutant: acquire and release without `with`
  /\ get[c] = "loading"
  /\ got' = [got EXCEPT ![c] = 0]
  /\ get' = [get EXCEPT ![c] = "raised"]
  /\ UNCHANGED <<lock, agents, loads>>
FailLoad(c) ==
  /\ get[c] = "loading"
  /\ lock' = NoCall
  /\ got' = [got EXCEPT ![c] = 0]
  /\ get' = [get EXCEPT ![c] = "raised"]
  /\ UNCHANGED <<agents, loads>>

Ended(c) == get[c] \in {"returned", "raised"}

\* Every call has ended: the registry may rest.
RegistryRest ==
  /\ \A c \in Calls : Ended(c)
  /\ UNCHANGED registryVars

RegistryNext ==
  \/ \E c \in Calls : Enter(c) \/ Hit(c) \/ BeginLoad(c) \/ FinishLoad(c) \/ FailLoad(c)
  \/ RegistryRest

\* A thread takes a lock that stays free, and the constructor of Agent ends.
RegistryFairness ==
  \A c \in Calls :
    /\ WF_registryVars(Hit(c) \/ BeginLoad(c))
    /\ WF_registryVars(FinishLoad(c) \/ FailLoad(c))

RegistrySpec == RegistryInit /\ [][RegistryNext]_registryVars
FairRegistrySpec == RegistrySpec /\ RegistryFairness

----------------------------------------------------------------------------
Failed(a) == {c \in Calls : get[c] = "raised" /\ AliasOf[c] = a}
Loading(a) == {c \in Calls : get[c] = "loading" /\ AliasOf[c] = a}

\* Never more than one model copy of an alias, counting one under construction.
OneCopyPerAlias ==
  \A a \in Aliases : \A c, d \in Loading(a) : c = d /\ agents[a] = 0

\* All calls are handed the same Agent, the resident one.
SharedAgent ==
  \A c \in Calls : get[c] = "returned" => got[c] # 0 /\ got[c] = agents[AliasOf[c]]

\* If constructors end, so does every call: a load that fails strands nobody on
\* the lock, whatever alias the others ask for.
EveryCallEnds == \A c \in Calls : (get[c] = "blocked") ~> Ended(c)

\* A load is begun again only after one that failed: a deadline that passes
\* during a load does not make the next request load the model a second time.
NoNeedlessLoad ==
  \A a \in Aliases :
    loads[a] <= 1 + Cardinality(Failed(a))
=============================================================================
