-------------------------- MODULE ServiceRegistry --------------------------
(***************************************************************************)
(* The registry of services and the choice of one of them for a request.   *)
(* Every operation holds registryMutex, but selectBestService takes it     *)
(* twice: once to list the available services, once to choose among the    *)
(* ids it listed, which may no longer be registered by then.               *)
(*                                                                         *)
(* Two operations call another one with the mutex held, and registryMutex  *)
(* is no recursive one: to register a known id again, and to remove an     *)
(* unhealthy service, locks the registry for good (Gateway has what this   *)
(* does to the requests).                                                  *)
(*                                                                         *)
(* The indexes are multimaps without an order the code relies on; the      *)
(* candidates are a set, and round robin and random choose any of them.    *)
(***************************************************************************)
EXTENDS Naturals, FiniteSets

CONSTANTS Services,      \* service ids
          Capabilities,
          MaxConcurrent, \* maxConcurrent of every service
          Times,         \* response times, in milliseconds
          MaxRequests,   \* bound: response times recorded per registration
          Selectors      \* threads in selectBestService

ASSUME ServiceRegistryAssumption ==
  MaxConcurrent \in Nat \ {0} /\ Times \subseteq Nat /\ MaxRequests \in Nat

VARIABLES identities,       \* the registered services
          capabilityIndex,  \* pairs <<capability, service>>
          held,             \* registryMutex is held by a thread that waits for it
          selector          \* the selection each thread is in

tableVars == <<identities, capabilityIndex>>
registryVars == <<tableVars, held, selector>>

Absent == [caps |-> {}, load |-> 0, avg |-> 0, requests |-> 0, healthy |-> FALSE]
NewIdentity(caps) == [caps |-> caps, load |-> 0, avg |-> 0, requests |-> 0, healthy |-> TRUE]
Registered(s) == identities[s] # Absent
Strategy == {"round_robin", "least_loaded", "fastest_response", "random"}
NoSelection == [strategy |-> "none", from |-> {}, best |-> "none"]

\* The index is what the identities say, after every operation.
RegistryTypeOK ==
  /\ \A s \in Services :
       /\ identities[s].caps \subseteq Capabilities /\ identities[s].load \in 0..MaxConcurrent
       /\ identities[s].avg \in Nat /\ identities[s].requests \in 0..MaxRequests
  /\ capabilityIndex = {e \in Capabilities \X Services : e[1] \in identities[e[2]].caps}
  /\ held \in BOOLEAN
  /\ \A t \in Selectors : selector[t].from \subseteq Services

RegistryInit ==
  /\ identities = [s \in Services |-> Absent]
  /\ capabilityIndex = {} /\ held = FALSE
  /\ selector = [t \in Selectors |-> NoSelection]

-----------------------------------------------------------------------------
\* The scoped_lock of an operation, and the second one of the operation it calls.
Locked == ~held /\ UNCHANGED <<held, selector>>
LocksTwice == ~held /\ held' = TRUE /\ UNCHANGED <<tableVars, selector>>

addToIndexes(index, s, caps) == index \cup {<<c, s>> : c \in caps}

\* mutant: the break after the first entry that is erased leaves the outer loop
removeFromIndexes_First(index, s, caps) == index \ {<<CHOOSE c \in caps : TRUE, s>>}

removeFromIndexes(index, s, caps) == index \ {<<c, s>> : c \in caps}

registerService(s, caps) ==
  /\ ~Registered(s) /\ Locked
  /\ identities' = [identities EXCEPT ![s] = NewIdentity(caps)]
  /\ capabilityIndex' = addToIndexes(capabilityIndex, s, caps)

\* registerService calls updateService for an id it knows.
updateService(s) == Registered(s) /\ LocksTwice

unregisterService(s) ==
  /\ Registered(s) /\ Locked
  /\ identities' = [identities EXCEPT ![s] = Absent]
  /\ capabilityIndex' = removeFromIndexes(capabilityIndex, s, identities[s].caps)

\* Time passes without a ping.
PingsStop(s) ==
  /\ Registered(s) /\ identities[s].healthy
  /\ identities' = [identities EXCEPT ![s].healthy = FALSE]
  /\ UNCHANGED <<capabilityIndex, held, selector>>

pingService(s) ==
  /\ Registered(s) /\ Locked
  /\ identities' = [identities EXCEPT ![s].healthy = TRUE]
  /\ UNCHANGED capabilityIndex

\* The cleanup of services that do not ping calls unregisterService.
removeUnhealthyServices ==
  (\E s \in Services : Registered(s) /\ ~identities[s].healthy) /\ LocksTwice

updateCurrentLoad(s, load) ==
  /\ Registered(s) /\ Locked
  /\ identities' = [identities EXCEPT ![s].load = load]
  /\ UNCHANGED capabilityIndex

\* The first time, then a weighted mean, truncated to milliseconds.
Mean(avg, ms) == (9 * avg + ms) \div 10

recordResponseTime(s, ms) ==
  /\ Registered(s) /\ identities[s].requests < MaxRequests /\ Locked
  /\ identities' = [identities EXCEPT
        ![s].requests = @ + 1,
        ![s].avg = IF identities[s].requests = 0 THEN ms ELSE Mean(@, ms)]
  /\ UNCHANGED capabilityIndex

-----------------------------------------------------------------------------
isOverloaded(s) == identities[s].load >= MaxConcurrent

findAvailableServices(c) ==
  {s \in Services : <<c, s>> \in capabilityIndex /\ identities[s].healthy /\ ~isOverloaded(s)}

SelectBegins(t, c, strategy) ==
  /\ selector[t].from = {} /\ ~held
  /\ findAvailableServices(c) # {}
  /\ selector' = [selector EXCEPT ![t] =
        [strategy |-> strategy, from |-> findAvailableServices(c), best |-> "none"]]
  /\ UNCHANGED <<tableVars, held>>

\* The candidates the second lock still finds, and of these the least loaded
\* below 100 % and the fastest.
Found(from) == {s \in from : Registered(s)}
Below(from) == {s \in Found(from) : ~isOverloaded(s)}

\* mutant: the candidates are not looked up again, and an erased one counts as idle
LeastLoaded_NoFind(from) == {s \in from : \A r \in from : identities[s].load <= identities[r].load}

LeastLoaded(from) == {s \in Below(from) : \A r \in Below(from) : identities[s].load <= identities[r].load}

Fastest(from) == {s \in Found(from) : \A r \in Found(from) : identities[s].avg <= identities[r].avg}

\* Without a best one the first candidate is returned, whatever became of it.
Best(strategy, from) ==
  CASE strategy = "least_loaded" /\ LeastLoaded(from) # {} -> LeastLoaded(from)
    [] strategy = "fastest_response" /\ Fastest(from) # {} -> Fastest(from)
    [] OTHER -> from

SelectEnds(t, s) ==
  /\ selector[t].from # {} /\ ~held
  /\ s \in Best(selector[t].strategy, selector[t].from)
  /\ selector' = [selector EXCEPT ![t] = [NoSelection EXCEPT !.best = s]]
  /\ UNCHANGED <<tableVars, held>>

RegistryNext ==
  \/ \E s \in Services :
       \/ \E caps \in SUBSET Capabilities \ {{}} : registerService(s, caps)
       \/ updateService(s)
       \/ unregisterService(s)
       \/ PingsStop(s)
       \/ pingService(s)
       \/ \E load \in 0..MaxConcurrent : updateCurrentLoad(s, load)
       \/ \E ms \in Times : recordResponseTime(s, ms)
       \/ \E t \in Selectors : SelectEnds(t, s)
  \/ removeUnhealthyServices
  \/ \E t \in Selectors, c \in Capabilities, strategy \in Strategy : SelectBegins(t, c, strategy)

RegistrySpec == RegistryInit /\ [][RegistryNext]_registryVars

-----------------------------------------------------------------------------
\* A selection by load or by response time returns a service that is gone only
\* when it must: no candidate it listed is still registered (and, by load, has
\* room), however registrations and loads change between its two locks
\* (ServiceRegistry::selectBestService).
SelectsLive ==
  [][\A t \in Selectors :
        LET from == selector[t].from IN
        from # {} /\ selector'[t].from = {} =>
          \/ Registered(selector'[t].best)
          \/ selector[t].strategy \in {"round_robin", "random"}
          \/ selector[t].strategy = "least_loaded" /\ Below(from) = {}
          \/ Found(from) = {} ]_registryVars
=============================================================================
