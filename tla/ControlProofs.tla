--------------------------- MODULE ControlProofs ---------------------------
(***************************************************************************)
(* What MCControl checks on an instance, for every value of the constants: *)
(* the registry and its choice of a service, the routing table and its     *)
(* file, the conversion of units; and, with ConfigProofs and DevicesProofs,*)
(* that each component keeps its promises in the specification that        *)
(* composes them.                                                          *)
(***************************************************************************)
EXTENDS MCControl, ConfigProofs, DevicesProofs, FiniteSetTheorems, SequenceTheorems

-----------------------------------------------------------------------------
(* The least element of a set of numbers.  The theorems of the library take *)
(* an order that is a set of pairs.                                         *)

NatLess == {p \in Nat \X Nat : p[1] < p[2]}

\* The order of the natural numbers, as a relation, has no infinite descent.
LEMMA NatLessIsWellFounded == IsWellFoundedOn(NatLess, Nat)
  BY NatLessThanWellFounded, Zenon DEF OpToRel, NatLess

\* Every set of natural numbers that is not empty has a least element.
LEMMA LeastNumber ==
  ASSUME NEW T \in SUBSET Nat, T # {}
  PROVE  \E x \in T : \A y \in T : x <= y
<1>1. PICK x \in T : \A y \in T : ~ (<<y, x>> \in NatLess)
  BY NatLessIsWellFounded, WFMin
<1>2. \A y \in T : ~(y < x)
  BY <1>1 DEF NatLess
<1> QED
  BY <1>2

-----------------------------------------------------------------------------
(* ServiceRegistry *)

Identities == [caps : SUBSET Capabilities, load : 0..MaxConcurrent, avg : Nat,
               requests : 0..MaxRequests, healthy : BOOLEAN]
Selections == [strategy : Strategy \cup {"none"}, from : SUBSET Services,
               best : Services \cup {"none"}]

\* A thread that chooses among candidates has been given a strategy.
RegistryInv ==
  /\ identities \in [Services -> Identities]
  /\ capabilityIndex = {e \in Capabilities \X Services : e[1] \in identities[e[2]].caps}
  /\ held \in BOOLEAN
  /\ selector \in [Selectors -> Selections]
  /\ \A t \in Selectors : selector[t].from # {} => selector[t].strategy \in Strategy

\* Registering, unregistering and what is recorded of a service.
LEMMA IdentitiesStep ==
  ASSUME RegistryInv, NEW s \in Services,
         \/ \E caps \in SUBSET Capabilities \ {{}} : registerService(s, caps)
         \/ unregisterService(s)
  PROVE  RegistryInv'
<1> USE ServiceRegistryAssumption DEF RegistryInv, Locked
<1>1. CASE \E caps \in SUBSET Capabilities \ {{}} : registerService(s, caps)
  <2> PICK caps \in SUBSET Capabilities \ {{}} : registerService(s, caps)
    BY <1>1
  <2>1. NewIdentity(caps) \in Identities /\ NewIdentity(caps).caps = caps
    BY DEF NewIdentity, Identities
  <2>2. identities' = [identities EXCEPT ![s] = NewIdentity(caps)]
    BY DEF registerService
  <2>3. identities[s].caps = {}
    BY DEF registerService, Registered, Absent
  <2>4. capabilityIndex' = {e \in Capabilities \X Services : e[1] \in identities'[e[2]].caps}
    BY <2>1, <2>2, <2>3 DEF registerService, addToIndexes
  <2> QED
    BY <2>1, <2>2, <2>4 DEF registerService
<1>2. CASE unregisterService(s)
  <2>1. Absent \in Identities /\ Absent.caps = {}
    BY DEF Absent, Identities
  <2>2. identities' = [identities EXCEPT ![s] = Absent]
    BY <1>2 DEF unregisterService
  <2>3. capabilityIndex' = {e \in Capabilities \X Services : e[1] \in identities'[e[2]].caps}
    BY <1>2, <2>1, <2>2 DEF unregisterService, removeFromIndexes
  <2> QED
    BY <1>2, <2>1, <2>2, <2>3 DEF unregisterService
<1> QED
  BY <1>1, <1>2

\* The other operations under registryMutex, and time that passes.
LEMMA RecordsStep ==
  ASSUME RegistryInv, NEW s \in Services,
         \/ updateService(s) \/ PingsStop(s) \/ pingService(s)
         \/ \E load \in 0..MaxConcurrent : updateCurrentLoad(s, load)
         \/ \E ms \in Times : recordResponseTime(s, ms)
         \/ removeUnhealthyServices
  PROVE  RegistryInv'
<1> USE ServiceRegistryAssumption DEF RegistryInv
<1>1. ASSUME NEW r \in Identities, r.caps = identities[s].caps,
             identities' = [identities EXCEPT ![s] = r], capabilityIndex' = capabilityIndex
      PROVE  /\ identities' \in [Services -> Identities]
             /\ capabilityIndex' = {e \in Capabilities \X Services : e[1] \in identities'[e[2]].caps}
  BY <1>1
<1>2. CASE updateService(s) \/ removeUnhealthyServices
  BY <1>2 DEF updateService, removeUnhealthyServices, LocksTwice, tableVars
<1>3. CASE PingsStop(s)
  <2>1. [identities[s] EXCEPT !.healthy = FALSE] \in Identities
    BY DEF Identities
  <2> QED
    BY <1>1, <1>3, <2>1 DEF PingsStop, Identities
<1>4. CASE pingService(s)
  <2>1. [identities[s] EXCEPT !.healthy = TRUE] \in Identities
    BY DEF Identities
  <2> QED
    BY <1>1, <1>4, <2>1 DEF pingService, Locked, Identities
<1>5. CASE \E load \in 0..MaxConcurrent : updateCurrentLoad(s, load)
  <2> PICK load \in 0..MaxConcurrent : updateCurrentLoad(s, load)
    BY <1>5
  <2>1. [identities[s] EXCEPT !.load = load] \in Identities
    BY DEF Identities
  <2> QED
    BY <1>1, <2>1 DEF updateCurrentLoad, Locked, Identities
<1>6. CASE \E ms \in Times : recordResponseTime(s, ms)
  <2> PICK ms \in Times : recordResponseTime(s, ms)
    BY <1>6
  <2> DEFINE mean == IF identities[s].requests = 0 THEN ms ELSE Mean(identities[s].avg, ms)
             r == [identities[s] EXCEPT !.requests = @ + 1, !.avg = mean]
  <2>1. identities[s] \in Identities /\ ms \in Nat
    OBVIOUS
  <2>2. \A a, b \in Nat : (9 * a + b) \div 10 \in Nat
    OBVIOUS
  <2>3. mean \in Nat
    BY <2>1, <2>2 DEF Mean, Identities
  <2>4. identities[s].requests + 1 \in 0..MaxRequests
    <3>1. identities[s].requests < MaxRequests
      BY DEF recordResponseTime
    <3>2. identities[s].requests \in Nat
      BY <2>1 DEF Identities
    <3> QED
      BY <3>1, <3>2
  <2>5. r \in Identities /\ r.caps = identities[s].caps
    BY <2>1, <2>3, <2>4 DEF Identities
  <2>6. identities' = [identities EXCEPT ![s] = r]
    BY <2>1 DEF recordResponseTime, Identities
  <2>7. capabilityIndex' = capabilityIndex
    BY DEF recordResponseTime
  <2> HIDE DEF r
  <2> QED
    BY <1>1, <2>5, <2>6, <2>7 DEF recordResponseTime, Locked
<1> QED
  BY <1>2, <1>3, <1>4, <1>5, <1>6

\* The two halves of a selection.
LEMMA SelectionStep ==
  ASSUME RegistryInv, NEW t \in Selectors,
         \/ \E s \in Services : SelectEnds(t, s)
         \/ \E c \in Capabilities, strategy \in Strategy : SelectBegins(t, c, strategy)
  PROVE  RegistryInv'
<1> USE DEF RegistryInv, tableVars, NoSelection, Selections
<1>1. CASE \E s \in Services : SelectEnds(t, s)
  <2> PICK s \in Services : SelectEnds(t, s)
    BY <1>1
  <2>1. [strategy |-> "none", from |-> {}, best |-> s] \in Selections
    OBVIOUS
  <2> QED
    BY <2>1 DEF SelectEnds
<1>2. CASE \E c \in Capabilities, strategy \in Strategy : SelectBegins(t, c, strategy)
  <2> PICK c \in Capabilities, strategy \in Strategy : SelectBegins(t, c, strategy)
    BY <1>2
  <2>1. findAvailableServices(c) \in SUBSET Services
    BY DEF findAvailableServices
  <2>2. [strategy |-> strategy, from |-> findAvailableServices(c), best |-> "none"] \in Selections
    BY <2>1
  <2> QED
    BY <2>2 DEF SelectBegins
<1> QED
  BY <1>1, <1>2

\* The invariant of the registry holds in every state.
LEMMA RegistryInvariant == RegistrySpec => []RegistryInv
<1>1. RegistryInit => RegistryInv
  <2>1. Absent \in Identities /\ Absent.caps = {}
    BY ServiceRegistryAssumption DEF Absent, Identities
  <2>2. NoSelection \in Selections /\ NoSelection.from = {}
    BY DEF NoSelection, Selections
  <2> QED
    BY <2>1, <2>2 DEF RegistryInit, RegistryInv
<1>2. RegistryInv /\ [RegistryNext]_registryVars => RegistryInv'
  <2> SUFFICES ASSUME RegistryInv, [RegistryNext]_registryVars
               PROVE  RegistryInv'
    OBVIOUS
  <2>1. CASE UNCHANGED registryVars
    BY <2>1 DEF RegistryInv, registryVars, tableVars
  <2>2. ASSUME NEW s \in Services,
               \/ \E caps \in SUBSET Capabilities \ {{}} : registerService(s, caps)
               \/ unregisterService(s)
        PROVE  RegistryInv'
    BY <2>2, IdentitiesStep
  <2>3. ASSUME NEW s \in Services,
               \/ updateService(s) \/ PingsStop(s) \/ pingService(s)
               \/ \E load \in 0..MaxConcurrent : updateCurrentLoad(s, load)
               \/ \E ms \in Times : recordResponseTime(s, ms)
        PROVE  RegistryInv'
    BY <2>3, RecordsStep
  <2>4. CASE removeUnhealthyServices
    <3>1. PICK s \in Services : TRUE
      BY <2>4 DEF removeUnhealthyServices
    <3> QED
      BY <2>4, RecordsStep
  <2>5. ASSUME NEW t \in Selectors,
               \/ \E s \in Services : SelectEnds(t, s)
               \/ \E c \in Capabilities, strategy \in Strategy : SelectBegins(t, c, strategy)
        PROVE  RegistryInv'
    BY <2>5, SelectionStep
  <2> QED
    BY <2>1, <2>2, <2>3, <2>4, <2>5 DEF RegistryNext
<1> QED
  BY <1>1, <1>2, PTL DEF RegistrySpec

\* The registry keeps its types, and its index is what the identities say, whatever
\* the operations of ServiceRegistry and however many services and threads.
THEOREM RegistryTypeCorrect == RegistrySpec => []RegistryTypeOK
<1>1. RegistryInv => RegistryTypeOK
  BY DEF RegistryInv, RegistryTypeOK, Identities, Selections
<1> QED
  BY <1>1, RegistryInvariant, PTL

\* Among candidates that were found there is a least loaded one, and a fastest one.
LEMMA ThereIsABest ==
  ASSUME RegistryInv, NEW from \in SUBSET Services
  PROVE  /\ Below(from) # {} => LeastLoaded(from) # {}
         /\ Found(from) # {} => Fastest(from) # {}
<1>1. ASSUME Below(from) # {} PROVE LeastLoaded(from) # {}
  <2> DEFINE loads == {identities[s].load : s \in Below(from)}
  <2>1. loads \in SUBSET Nat /\ loads # {}
    BY <1>1, ServiceRegistryAssumption DEF RegistryInv, Identities, Below, Found
  <2>2. PICK x \in loads : \A y \in loads : x <= y
    BY <2>1, LeastNumber
  <2>3. PICK s \in Below(from) : identities[s].load = x
    OBVIOUS
  <2> QED
    BY <2>2, <2>3 DEF LeastLoaded
<1>2. ASSUME Found(from) # {} PROVE Fastest(from) # {}
  <2> DEFINE times == {identities[s].avg : s \in Found(from)}
  <2>1. times \in SUBSET Nat /\ times # {}
    BY <1>2 DEF RegistryInv, Identities, Found
  <2>2. PICK x \in times : \A y \in times : x <= y
    BY <2>1, LeastNumber
  <2>3. PICK s \in Found(from) : identities[s].avg = x
    OBVIOUS
  <2> QED
    BY <2>2, <2>3 DEF Fastest
<1> QED
  BY <1>1, <1>2

\* The body of SelectsLive, for one thread.
Live1(t) ==
  LET from == selector[t].from IN
  from # {} /\ selector'[t].from = {} =>
    \/ Registered(selector'[t].best)
    \/ selector[t].strategy \in {"round_robin", "random"}
    \/ selector[t].strategy = "least_loaded" /\ Below(from) = {}
    \/ Found(from) = {}

\* What the second half returns by load or by response time is registered, if any
\* candidate is.
LEMMA BestIsRegistered ==
  ASSUME RegistryInv, NEW t \in Selectors, NEW s \in Services, SelectEnds(t, s)
  PROVE  \/ Registered(s)
         \/ selector[t].strategy \in {"round_robin", "random"}
         \/ selector[t].strategy = "least_loaded" /\ Below(selector[t].from) = {}
         \/ Found(selector[t].from) = {}
<1> DEFINE from == selector[t].from
<1>1. from \in SUBSET Services /\ selector[t].strategy \in Strategy /\ s \in Best(selector[t].strategy, from)
  BY DEF RegistryInv, Selections, SelectEnds
<1>2. CASE selector[t].strategy = "least_loaded"
  <2>1. CASE Below(from) # {}
    <3>1. s \in LeastLoaded(from)
      BY <1>1, <1>2, <2>1, ThereIsABest DEF Best
    <3> QED
      BY <3>1 DEF LeastLoaded, Below, Found
  <2> QED
    BY <1>2, <2>1
<1>3. CASE selector[t].strategy = "fastest_response"
  <2>1. CASE Found(from) # {}
    <3>1. s \in Fastest(from)
      BY <1>1, <1>3, <2>1, ThereIsABest DEF Best
    <3> QED
      BY <3>1 DEF Fastest, Found
  <2> QED
    BY <2>1
<1> QED
  BY <1>1, <1>2, <1>3 DEF Strategy

\* A selection by load or by response time returns a service that is gone only when
\* it must, however registrations and loads change between its two locks.
THEOREM SelectionIsLive == RegistrySpec => SelectsLive
<1>1. RegistryInv /\ [RegistryNext]_registryVars => [\A t \in Selectors : Live1(t)]_registryVars
  <2> SUFFICES ASSUME RegistryInv, RegistryNext, NEW t \in Selectors,
                      selector[t].from # {}, selector'[t].from = {}
               PROVE  Live1(t)
    BY DEF Live1
  <2>1. PICK u \in Selectors, s \in Services : SelectEnds(u, s)
    <3>1. selector' # selector
      OBVIOUS
    <3>2. ASSUME NEW u \in Selectors, NEW c \in Capabilities, NEW strategy \in Strategy,
                 SelectBegins(u, c, strategy)
          PROVE  FALSE
      <4>1. u # t
        BY <3>2 DEF SelectBegins
      <4>2. selector'[t] = selector[t]
        BY <3>2, <4>1 DEF SelectBegins, RegistryInv
      <4> QED
        BY <4>2
    <3> QED
      BY <3>1, <3>2 DEF RegistryNext, registerService, updateService, unregisterService, PingsStop,
         pingService, updateCurrentLoad, recordResponseTime, removeUnhealthyServices, Locked, LocksTwice
  <2>2. u = t
    <3>1. CASE u # t
      <4>1. selector'[t] = selector[t]
        BY <2>1, <3>1 DEF SelectEnds, RegistryInv
      <4> QED
        BY <4>1
    <3> QED
      BY <3>1
  <2>3. selector'[t].best = s
    BY <2>1, <2>2 DEF SelectEnds, RegistryInv, NoSelection
  <2> QED
    BY <2>1, <2>2, <2>3, BestIsRegistered DEF Live1
<1> QED
  BY <1>1, RegistryInvariant, PTL DEF RegistrySpec, SelectsLive, Live1

-----------------------------------------------------------------------------
(* UnitConversion *)

Celsius == [senml |-> "Cel", sensor |-> "degC", num |-> 1, den |-> 1]
Pascal == [senml |-> "Pa", sensor |-> "kPa", num |-> 1, den |-> 1000]
Lux == [senml |-> "lx", sensor |-> "lux", num |-> 1, den |-> 1]
Humidity == [senml |-> "%RH", sensor |-> "%", num |-> 1, den |-> 1]
Ratio == [senml |-> "/", sensor |-> "%", num |-> 100, den |-> 1]

\* The units of sensors that some rule knows.
LEMMA UnitsWithRules == \A r \in UnitRules : r.sensor \in {"degC", "%", "kPa", "lux"}
  BY DEF UnitRules

\* What the type of a sensor picks for its unit: at most one rule.
LEMMA TheRule ==
  ASSUME NEW type
  PROVE  /\ RulesFor("degC", type) = {Celsius}
         /\ RulesFor("kPa", type) = {Pascal}
         /\ RulesFor("lux", type) = {Lux}
         /\ RulesFor("mS", type) = {} /\ RulesFor("", type) = {}
         /\ type = "humidity" => RulesFor("%", type) = {Humidity}
         /\ type = "moisture" => RulesFor("%", type) = {Ratio}
         /\ type \notin {"humidity", "moisture"} => RulesFor("%", type) = {}
<1>1. RulesFor("degC", type) = {Celsius}
  BY DEF RulesFor, UnitRules, Celsius, Pascal, Lux, Humidity, Ratio
<1>2. RulesFor("kPa", type) = {Pascal}
  BY DEF RulesFor, UnitRules, Celsius, Pascal, Lux, Humidity, Ratio
<1>3. RulesFor("lux", type) = {Lux}
  BY DEF RulesFor, UnitRules, Celsius, Pascal, Lux, Humidity, Ratio
<1>4. RulesFor("mS", type) = {} /\ RulesFor("", type) = {}
  BY UnitsWithRules DEF RulesFor
<1>5. type = "humidity" => RulesFor("%", type) = {Humidity}
  BY DEF RulesFor, UnitRules, Celsius, Pascal, Lux, Humidity, Ratio
<1>6. type = "moisture" => RulesFor("%", type) = {Ratio}
  BY DEF RulesFor, UnitRules, Celsius, Pascal, Lux, Humidity, Ratio
<1>7. type \notin {"humidity", "moisture"} => RulesFor("%", type) = {}
  BY DEF RulesFor, UnitRules
<1> QED
  BY <1>1, <1>2, <1>3, <1>4, <1>5, <1>6, <1>7

\* The rules of two units the other way: of a pair of units there is at most one.
RulesBack(senml, unit) == {q \in UnitRules : q.senml = senml /\ q.sensor = unit}

\* From a unit of the wire to a unit of a sensor there is one rule at most.
LEMMA TheRuleBack ==
  /\ RulesBack("Cel", "degC") = {Celsius}
  /\ RulesBack("Pa", "kPa") = {Pascal}
  /\ RulesBack("lx", "lux") = {Lux}
  /\ RulesBack("%RH", "%") = {Humidity}
  /\ RulesBack("/", "%") = {Ratio}
  BY DEF RulesBack, UnitRules, Celsius, Pascal, Lux, Humidity, Ratio

\* What arrives when both ends go by the same row.
Returned(v, unit, type) == Arrives(v, [unit |-> unit, type |-> type], unit)

\* A value converted by one rule and back by the same one is what it was.
LEMMA ThereAndBack ==
  ASSUME NEW v \in Int, NEW type, NEW r, RulesFor(r.sensor, type) = {r},
         r.senml # "", r.senml # r.sensor, RulesBack(r.senml, r.sensor) = {r},
         (((v * r.den) \div r.num) * r.num) \div r.den = v
  PROVE  /\ fromSensorUnit(v, r.sensor, type).value = (v * r.den) \div r.num
         /\ Returned(v, r.sensor, type) = {v}
<1> DEFINE sent == fromSensorUnit(v, r.sensor, type)
           x == (v * r.den) \div r.num
           back(q) == (x * q.num) \div q.den
<1>1. RulesFor(r.sensor, type) # {} /\ (CHOOSE q \in RulesFor(r.sensor, type) : TRUE) = r
  OBVIOUS
<1>2. sent.value = x /\ sent.unit = r.senml
  BY <1>1 DEF fromSensorUnit
<1>3. {back(q) : q \in {r}} = {v}
  <2>1. back(r) = v
    OBVIOUS
  <2> HIDE DEF back
  <2> QED
    BY <2>1
<1>4. toSensorUnit(x, r.senml, r.sensor) = {v}
  BY <1>3 DEF toSensorUnit, RulesBack
<1>5. Returned(v, r.sensor, type) = toSensorUnit(sent.value, sent.unit, r.sensor)
  BY DEF Returned, Arrives
<1> HIDE DEF sent, x
<1> QED
  BY <1>2, <1>4, <1>5 DEF sent, x

\* A value without a rule is sent as it is, and taken as it is if it has a unit.
LEMMA AsItIs ==
  ASSUME NEW v \in Int, NEW u, NEW type, RulesFor(u, type) = {}
  PROVE  /\ fromSensorUnit(v, u, type).value = v
         /\ Returned(v, u, type) = IF u = "" THEN {} ELSE {v}
  BY DEF fromSensorUnit, Returned, Arrives, toSensorUnit

\* A value is sent as a number and arrives as it was measured; without a unit it
\* is dropped.
LEMMA RoundTrip ==
  ASSUME NEW v \in Values, NEW u \in SensorUnits, NEW type
  PROVE  /\ fromSensorUnit(v, u, type).value \in Int
         /\ Returned(v, u, type) = IF u = "" THEN {} ELSE {v}
<1>1. v \in Int /\ v % 1000 = 0
  BY UnitConversionAssumption
<1>2. u \in {"degC", "%", "kPa", "lux", "mS", ""}
  BY UnitsWithRules DEF SensorUnits
<1>3. ASSUME NEW r, r.sensor = u, u # "", r.senml # "", r.senml # u,
             RulesFor(u, type) = {r}, RulesBack(r.senml, u) = {r},
             \/ r.num = 1 /\ r.den = 1
             \/ r.num = 1 /\ r.den = 1000
             \/ r.num = 100 /\ r.den = 1
      PROVE  /\ fromSensorUnit(v, u, type).value \in Int
             /\ Returned(v, u, type) = IF u = "" THEN {} ELSE {v}
  <2>1. ASSUME NEW n, NEW d, \/ n = 1 /\ d = 1
                             \/ n = 1 /\ d = 1000
                             \/ n = 100 /\ d = 1
        PROVE  (((v * d) \div n) * n) \div d = v /\ (v * d) \div n \in Int
    <3>1. /\ (((v * 1) \div 1) * 1) \div 1 = v /\ (v * 1) \div 1 \in Int
          /\ (((v * 1000) \div 1) * 1) \div 1000 = v /\ (v * 1000) \div 1 \in Int
          /\ (((v * 1) \div 100) * 100) \div 1 = v /\ (v * 1) \div 100 \in Int
      BY <1>1
    <3> QED
      BY <2>1, <3>1
  <2>2. /\ (((v * r.den) \div r.num) * r.num) \div r.den = v
        /\ (v * r.den) \div r.num \in Int
    BY <1>3, <2>1
  <2>3. RulesFor(r.sensor, type) = {r} /\ RulesBack(r.senml, r.sensor) = {r}
        /\ r.senml # "" /\ r.senml # r.sensor /\ v \in Int
    BY <1>1, <1>3
  <2>4. /\ fromSensorUnit(v, r.sensor, type).value = (v * r.den) \div r.num
        /\ Returned(v, r.sensor, type) = {v}
    BY <2>2, <2>3, ThereAndBack, Zenon
  <2> QED
    BY <1>3, <2>2, <2>4
<1>4. CASE u = "degC"
  <2> DEFINE r == Celsius
  <2>1. r.sensor = u /\ r.senml = "Cel" /\ r.num = 1 /\ r.den = 1
    BY <1>4 DEF Celsius
  <2>2. RulesFor(u, type) = {r} /\ RulesBack("Cel", u) = {r}
    BY <1>4, TheRule, TheRuleBack
  <2>3. u # "" /\ r.senml # "" /\ r.senml # u
    BY <1>4, <2>1
  <2> HIDE DEF r
  <2>4. \/ r.num = 1 /\ r.den = 1
        \/ r.num = 1 /\ r.den = 1000
        \/ r.num = 100 /\ r.den = 1
    BY <2>1
  <2>5. RulesFor(u, type) = {r} /\ RulesBack(r.senml, u) = {r} /\ r.sensor = u
    BY <2>1, <2>2
  <2> QED
    BY <1>3, <2>3, <2>4, <2>5
<1>5. CASE u = "kPa"
  <2> DEFINE r == Pascal
  <2>1. r.sensor = u /\ r.senml = "Pa" /\ r.num = 1 /\ r.den = 1000
    BY <1>5 DEF Pascal
  <2>2. RulesFor(u, type) = {r} /\ RulesBack("Pa", u) = {r}
    BY <1>5, TheRule, TheRuleBack
  <2>3. u # "" /\ r.senml # "" /\ r.senml # u
    BY <1>5, <2>1
  <2> HIDE DEF r
  <2>4. \/ r.num = 1 /\ r.den = 1
        \/ r.num = 1 /\ r.den = 1000
        \/ r.num = 100 /\ r.den = 1
    BY <2>1
  <2>5. RulesFor(u, type) = {r} /\ RulesBack(r.senml, u) = {r} /\ r.sensor = u
    BY <2>1, <2>2
  <2> QED
    BY <1>3, <2>3, <2>4, <2>5
<1>6. CASE u = "lux"
  <2> DEFINE r == Lux
  <2>1. r.sensor = u /\ r.senml = "lx" /\ r.num = 1 /\ r.den = 1
    BY <1>6 DEF Lux
  <2>2. RulesFor(u, type) = {r} /\ RulesBack("lx", u) = {r}
    BY <1>6, TheRule, TheRuleBack
  <2>3. u # "" /\ r.senml # "" /\ r.senml # u
    BY <1>6, <2>1
  <2> HIDE DEF r
  <2>4. \/ r.num = 1 /\ r.den = 1
        \/ r.num = 1 /\ r.den = 1000
        \/ r.num = 100 /\ r.den = 1
    BY <2>1
  <2>5. RulesFor(u, type) = {r} /\ RulesBack(r.senml, u) = {r} /\ r.sensor = u
    BY <2>1, <2>2
  <2> QED
    BY <1>3, <2>3, <2>4, <2>5
<1>7. CASE u = "%" /\ type = "humidity"
  <2> DEFINE r == Humidity
  <2>1. r.sensor = u /\ r.senml = "%RH" /\ r.num = 1 /\ r.den = 1
    BY <1>7 DEF Humidity
  <2>2. RulesFor(u, type) = {r} /\ RulesBack("%RH", u) = {r}
    BY <1>7, TheRule, TheRuleBack
  <2>3. u # "" /\ r.senml # "" /\ r.senml # u
    BY <1>7, <2>1
  <2> HIDE DEF r
  <2>4. \/ r.num = 1 /\ r.den = 1
        \/ r.num = 1 /\ r.den = 1000
        \/ r.num = 100 /\ r.den = 1
    BY <2>1
  <2>5. RulesFor(u, type) = {r} /\ RulesBack(r.senml, u) = {r} /\ r.sensor = u
    BY <2>1, <2>2
  <2> QED
    BY <1>3, <2>3, <2>4, <2>5
<1>8. CASE u = "%" /\ type = "moisture"
  <2> DEFINE r == Ratio
  <2>1. r.sensor = u /\ r.senml = "/" /\ r.num = 100 /\ r.den = 1
    BY <1>8 DEF Ratio
  <2>2. RulesFor(u, type) = {r} /\ RulesBack("/", u) = {r}
    BY <1>8, TheRule, TheRuleBack
  <2>3. u # "" /\ r.senml # "" /\ r.senml # u
    BY <1>8, <2>1
  <2> HIDE DEF r
  <2>4. \/ r.num = 1 /\ r.den = 1
        \/ r.num = 1 /\ r.den = 1000
        \/ r.num = 100 /\ r.den = 1
    BY <2>1
  <2>5. RulesFor(u, type) = {r} /\ RulesBack(r.senml, u) = {r} /\ r.sensor = u
    BY <2>1, <2>2
  <2> QED
    BY <1>3, <2>3, <2>4, <2>5
<1>9. CASE u \in {"mS", ""} \/ (u = "%" /\ type \notin {"humidity", "moisture"})
  <2>1. RulesFor(u, type) = {}
    BY <1>9, TheRule, Zenon
  <2> QED
    BY <1>1, <2>1, AsItIs
<1> QED
  BY <1>2, <1>4, <1>5, <1>6, <1>7, <1>8, <1>9

\* What is on the wire is what the station makes of the measured value, and what
\* arrived is what ingestion makes of that.
UnitInv ==
  /\ measured \in [unit : SensorUnits, type : SensorTypes, value : Values]
  /\ stage \in {"measured", "sent", "received"}
  /\ stage = "measured" => wire = NoRecord
  /\ stage # "measured" => wire = Entry
  /\ stage # "received" => arrived = {}
  /\ stage = "received" => arrived = toSensorUnit(wire.value, wire.unit, measured.unit)

\* The invariant of the conversion holds in every state.
LEMMA UnitInvariant == UnitSpec => []UnitInv
<1>1. UnitInit => UnitInv
  BY DEF UnitInit, UnitInv
<1>2. UnitInv /\ [UnitNext]_unitVars => UnitInv'
  BY DEF UnitInv, UnitNext, unitVars, buildPack, handleSenml, Entry
<1> QED
  BY <1>1, <1>2, PTL DEF UnitSpec

\* It says that the value that arrived is the one that was sent.
LEMMA ConvertedInv == UnitInv => ConvertedBack
<1> SUFFICES ASSUME UnitInv, stage = "received" PROVE ConvertedBack
  BY DEF ConvertedBack
<1>1. arrived = Returned(measured.value, measured.unit, measured.type)
  BY DEF UnitInv, Entry, Returned, Arrives
<1>2. measured.value \in Values /\ measured.unit \in SensorUnits
  BY DEF UnitInv
<1> QED
  BY <1>1, <1>2, RoundTrip DEF ConvertedBack

\* Converting back undoes the conversion, whatever the value, the unit and the type.
THEOREM ConversionIsUndone == UnitSpec => []ConvertedBack
  BY ConvertedInv, UnitInvariant, PTL

\* What is sent and what arrives are numbers.
THEOREM UnitTypeCorrect == UnitSpec => []UnitTypeOK
<1>1. UnitInv => UnitTypeOK
  <2> SUFFICES ASSUME UnitInv PROVE wire.value \in Int /\ arrived \subseteq Int
    BY DEF UnitInv, UnitTypeOK
  <2>1. /\ measured.value \in Values /\ measured.unit \in SensorUnits
    BY DEF UnitInv
  <2>2. Entry.value \in Int
    BY <2>1, RoundTrip DEF Entry
  <2>3. wire.value \in Int
    BY <2>2 DEF UnitInv, NoRecord
  <2>4. ConvertedBack
    BY ConvertedInv
  <2>5. arrived \subseteq {measured.value}
    BY <2>4 DEF UnitInv, ConvertedBack
  <2> QED
    BY <2>1, <2>3, <2>5, UnitConversionAssumption
<1> QED
  BY <1>1, UnitInvariant, PTL

-----------------------------------------------------------------------------
(* EventRouter: what the sort does to a table *)

Sorted(s) == \A i, j \in 1..Len(s) : i < j => s[i].body.priority >= s[j].body.priority

\* The tables the router is in: sorted ones, of as many rules as fit.
Tables == {s \in Seq(Rules) : Len(s) <= MaxRules /\ Sorted(s)}

\* A sequence is a function; a rule has a priority.
LEMMA TableFacts ==
  ASSUME NEW s \in Seq(Rules)
  PROVE  /\ Len(s) \in Nat /\ s \in [1..Len(s) -> Rules]
         /\ \A i \in 1..Len(s) : s[i].body.priority \in Nat
<1>1. Len(s) \in Nat /\ s \in [1..Len(s) -> Rules]
  BY LenProperties
<1>2. \A r \in Rules : r.body.priority \in Nat
  BY EventRouterAssumption DEF Rules, Bodies
<1> QED
  BY <1>1, <1>2

\* A function from 1..n to rules is a table of n rules.
LEMMA TableOf ==
  ASSUME NEW n \in Nat, NEW s \in [1..n -> Rules]
  PROVE  s \in Seq(Rules) /\ Len(s) = n
<1>1. s \in Seq(Rules)
  BY SeqDef
<1> QED
  BY <1>1, LenProperties

\* The order of the sort is a strict and total one.
LEMMA BeforeIsAnOrder ==
  ASSUME NEW s \in Seq(Rules)
  PROVE  /\ \A i \in 1..Len(s) : ~Before(s, i, i)
         /\ \A i, j \in 1..Len(s) : i # j => Before(s, i, j) \/ Before(s, j, i)
         /\ \A i, j, k \in 1..Len(s) : Before(s, i, j) /\ Before(s, j, k) => Before(s, i, k)
  BY TableFacts DEF Before

\* A rank is a place of the table, and keeps the order.
LEMMA RankKeepsOrder ==
  ASSUME NEW s \in Seq(Rules)
  PROVE  /\ \A i \in 1..Len(s) : Rank(s, i) \in 1..Len(s)
         /\ \A i, j \in 1..Len(s) : Before(s, j, i) => Rank(s, j) < Rank(s, i)
<1> DEFINE n == Len(s)
           P(i) == {j \in 1..n : Before(s, j, i)}
<1>0. n \in Nat
  BY TableFacts
<1>1. n \in Nat /\ IsFiniteSet(1..n) /\ Cardinality(1..n) = n
  BY <1>0, FS_Interval
<1>2. \A i \in 1..n : P(i) \in SUBSET (1..n) /\ i \notin P(i)
  <2>1. \A i \in 1..n : ~Before(s, i, i)
    BY BeforeIsAnOrder
  <2> QED
    BY <2>1
<1>3. \A i \in 1..n : IsFiniteSet(P(i)) /\ Cardinality(P(i)) \in Nat
  BY <1>1, <1>2, FS_Subset, FS_CardinalityType
<1> DEFINE size(i) == Cardinality(P(i))
<1>4. \A i \in 1..n : Rank(s, i) = 1 + size(i) /\ size(i) \in Nat
  BY <1>3 DEF Rank
<1>5. ASSUME NEW i \in 1..n PROVE Rank(s, i) \in 1..n
  <2>1. P(i) \in SUBSET ((1..n) \ {i})
    BY <1>2
  <2>2. IsFiniteSet((1..n) \ {i}) /\ Cardinality((1..n) \ {i}) = n - 1
    BY <1>1, FS_RemoveElement, ZenonT(30)
  <2>3. Cardinality(P(i)) <= Cardinality((1..n) \ {i})
    BY <2>1, <2>2, FS_Subset, Zenon
  <2>4. size(i) <= n - 1
    BY <2>2, <2>3
  <2> HIDE DEF size
  <2> QED
    BY <1>1, <1>4, <2>4
<1>6. ASSUME NEW i \in 1..n, NEW j \in 1..n, Before(s, j, i) PROVE Rank(s, j) < Rank(s, i)
  <2>1. P(j) \cup {j} \in SUBSET P(i)
    BY <1>6, BeforeIsAnOrder
  <2>2. Cardinality(P(j) \cup {j}) = Cardinality(P(j)) + 1
    BY <1>2, <1>3, FS_AddElement
  <2>3. Cardinality(P(j) \cup {j}) <= Cardinality(P(i))
    BY <1>3, <2>1, FS_Subset
  <2>4. size(j) + 1 <= size(i)
    BY <2>2, <2>3
  <2> HIDE DEF size
  <2> QED
    BY <1>4, <2>4
<1> QED
  BY <1>5, <1>6

\* Every place has one rule of that rank.
LEMMA RankIsOnto ==
  ASSUME NEW s \in Seq(Rules)
  PROVE  \A k \in 1..Len(s) : \E i \in 1..Len(s) : Rank(s, i) = k
<1> DEFINE n == Len(s)
           f == [i \in 1..n |-> Rank(s, i)]
<1>0. n \in Nat
  BY TableFacts
<1>1. n \in Nat /\ IsFiniteSet(1..n)
  BY <1>0, FS_Interval
<1>2. f \in [1..n -> 1..n]
  BY RankKeepsOrder
<1>3. \A i, j \in 1..n : f[i] = f[j] => i = j
  <2> SUFFICES ASSUME NEW i \in 1..n, NEW j \in 1..n, i # j PROVE Rank(s, i) # Rank(s, j)
    OBVIOUS
  <2>1. Rank(s, i) \in Nat /\ Rank(s, j) \in Nat
    BY RankKeepsOrder
  <2>2. Rank(s, i) < Rank(s, j) \/ Rank(s, j) < Rank(s, i)
    BY BeforeIsAnOrder, RankKeepsOrder
  <2> QED
    BY <2>1, <2>2
<1>4. f \in Injection(1..n, 1..n)
  BY <1>2, <1>3 DEF Injection, IsInjective
<1>5. f \in Surjection(1..n, 1..n)
  BY <1>1, <1>4, FS_Injection
<1> QED
  BY <1>5 DEF Surjection

\* Sorting keeps the length, the rules and, of course, sorts.
LEMMA SortSorts ==
  ASSUME NEW s \in Seq(Rules)
  PROVE  /\ sortRules(s) \in Seq(Rules) /\ Len(sortRules(s)) = Len(s)
         /\ Sorted(sortRules(s))
<1> DEFINE n == Len(s)
           at(k) == CHOOSE i \in 1..n : Rank(s, i) = k
           t == [k \in 1..n |-> s[at(k)]]
<1>1. \A k \in 1..n : at(k) \in 1..n /\ Rank(s, at(k)) = k
  BY RankIsOnto
<1> HIDE DEF at
<1>2. n \in Nat /\ s \in [1..n -> Rules] /\ \A i \in 1..n : s[i].body.priority \in Nat
  BY TableFacts
<1>3. t \in [1..n -> Rules]
  BY <1>1, <1>2
<1>4. t \in Seq(Rules) /\ Len(t) = n
  BY <1>2, <1>3, TableOf
<1>5. ASSUME NEW i \in 1..n, NEW j \in 1..n, i < j
      PROVE  t[i].body.priority >= t[j].body.priority
  <2>1. ~Before(s, at(j), at(i))
    BY <1>1, <1>5, <1>2, RankKeepsOrder
  <2>2. at(i) # at(j)
    BY <1>1, <1>2, <1>5
  <2>3. Before(s, at(i), at(j))
    BY <1>1, <2>1, <2>2, BeforeIsAnOrder
  <2>4. s[at(i)].body.priority >= s[at(j)].body.priority
    BY <1>1, <1>2, <2>3 DEF Before
  <2> QED
    BY <2>4
<1>6. sortRules(s) = t
  BY DEF sortRules, at
<1> HIDE DEF t
<1> QED
  BY <1>4, <1>5, <1>6 DEF Sorted

\* A sorted table stays as it is: the sort is stable.
LEMMA SortIsIdempotent ==
  ASSUME NEW s \in Seq(Rules), Sorted(s)
  PROVE  sortRules(s) = s
<1> DEFINE n == Len(s)
<1>1. n \in Nat /\ s \in [1..n -> Rules] /\ \A i \in 1..n : s[i].body.priority \in Nat
  BY TableFacts
<1>2. \A i, j \in 1..n : Before(s, j, i) <=> j < i
  BY <1>1 DEF Sorted, Before
<1>3. ASSUME NEW i \in 1..n PROVE Rank(s, i) = i
  <2>1. {j \in 1..n : Before(s, j, i)} = 1..(i - 1)
    BY <1>1, <1>2
  <2>2. Cardinality(1..(i - 1)) = i - 1
    BY <1>1, FS_Interval
  <2>3. Rank(s, i) = 1 + Cardinality(1..(i - 1))
    BY <2>1, Zenon DEF Rank
  <2> QED
    BY <1>1, <2>2, <2>3
<1>4. \A k \in 1..n : (CHOOSE i \in 1..n : Rank(s, i) = k) = k
  BY <1>3
<1> QED
  BY <1>1, <1>4 DEF sortRules

-----------------------------------------------------------------------------
(* EventRouter: the table and its file *)

\* What sortRules leaves is a sorted table.
LEMMA SortedTable ==
  ASSUME NEW s \in Seq(Rules), Len(s) <= MaxRules
  PROVE  sortRules(s) \in Tables
  BY SortSorts DEF Tables

\* The empty table is a sorted one.
LEMMA EmptyTable == <<>> \in Tables
<1>1. <<>> \in Seq(Rules) /\ Len(<<>>) = 0
  BY EmptySeq
<1>2. Sorted(<<>>)
  BY <1>1 DEF Sorted
<1> QED
  BY <1>1, <1>2, EventRouterAssumption DEF Tables

\* find_if finds a rule that the table has, under its own id.
LEMMA RulesFound ==
  ASSUME rules \in Tables, NEW id, HasRule(id)
  PROVE  FindRule(id) \in 1..Len(rules) /\ rules[FindRule(id)].id = id
<1> DEFINE at == {i \in 1..Len(rules) : rules[i].id = id}
<1>1. Len(rules) \in Nat
  BY TableFacts DEF Tables
<1>2. at \in SUBSET Nat /\ at # {}
  BY <1>1 DEF HasRule
<1>3. PICK i \in at : \A j \in at : i <= j
  BY <1>2, LeastNumber
<1>4. i \in 1..Len(rules) /\ rules[i].id = id /\ \A j \in 1..(i - 1) : rules[j].id # id
  BY <1>1, <1>3
<1> QED
  BY <1>4 DEF FindRule

\* A table of which a rule is taken is sorted still.
LEMMA TakenOut ==
  ASSUME NEW s \in Tables, NEW p \in 1..Len(s)
  PROVE  [i \in 1..(Len(s) - 1) |-> s[IF i < p THEN i ELSE i + 1]] \in Tables
<1> DEFINE n == Len(s)
           from(i) == IF i < p THEN i ELSE i + 1
           t == [i \in 1..(n - 1) |-> s[from(i)]]
<1>1. n \in Nat /\ n - 1 \in Nat /\ n <= MaxRules /\ s \in [1..n -> Rules]
  BY TableFacts DEF Tables
<1>2. \A i, j \in 1..(n - 1) : from(i) \in 1..n /\ (i < j => from(i) < from(j))
  BY <1>1
<1> HIDE DEF from
<1>3. t \in Seq(Rules) /\ Len(t) = n - 1
  <2>1. t \in [1..(n - 1) -> Rules]
    BY <1>1, <1>2
  <2> QED
    BY <1>1, <2>1, TableOf
<1>4. Sorted(t)
  <2> SUFFICES ASSUME NEW i \in 1..(n - 1), NEW j \in 1..(n - 1), i < j
               PROVE  t[i].body.priority >= t[j].body.priority
    BY <1>3 DEF Sorted
  <2>1. from(i) \in 1..n /\ from(j) \in 1..n /\ from(i) < from(j)
    BY <1>2
  <2>2. s[from(i)].body.priority >= s[from(j)].body.priority
    BY <2>1 DEF Tables, Sorted
  <2> QED
    BY <2>2
<1>5. n - 1 <= MaxRules
  BY <1>1, EventRouterAssumption
<1> HIDE DEF t
<1>6. t \in Tables
  BY <1>3, <1>4, <1>5 DEF Tables
<1> QED
  BY <1>6 DEF t, from

Writing == {"copy", "write"}

RouterFits ==
  /\ rules \in Tables
  /\ routeFile \in [is : {"empty", "torn", "json"}, table : Tables]
  /\ saveLost \in BOOLEAN
  /\ admin \in [Admins -> [next : Saving \cup {"none", "reply"}, copy : Tables, reply : BOOLEAN]]

\* Unless saves overlapped: at most one handler has the file open, and it is empty;
\* the copy about to be written is the table, if no handler has a change to save;
\* and without a save the file holds the table.
SavedInv ==
  ~saveLost =>
    /\ \A a, b \in Admins : admin[a].next \in Writing /\ admin[b].next \in Writing => a = b
    /\ \A a \in Admins : admin[a].next \in Writing => routeFile = Empty
    /\ \A a \in Admins : admin[a].next = "write" /\ (\A b \in Admins : admin[b].next # "open")
                           => admin[a].copy = rules
    /\ (\A a \in Admins : admin[a].next \notin Saving) => Loaded(routeFile) = rules

RouterInv == RouterFits /\ SavedInv

\* Every change of the table leaves a sorted table, and a change to save.
LEMMA ChangeStep ==
  ASSUME RouterInv, NEW a \in Admins, NEW id \in RuleIds,
         \/ \E body \in Bodies : addRule(a, id, body) \/ updateRule(a, id, body)
         \/ removeRule(a, id)
  PROVE  RouterInv'
<1>1. rules \in Tables /\ rules \in Seq(Rules) /\ Len(rules) \in Nat /\ Len(rules) <= MaxRules
  BY TableFacts DEF RouterInv, RouterFits, Tables
<1>2. ASSUME NEW body \in Bodies, addRule(a, id, body) PROVE rules' \in Tables
  <2> DEFINE r == [id |-> id, body |-> body]
  <2>1. r \in Rules
    BY DEF Rules
  <2> HIDE DEF r
  <2>2. Append(rules, r) \in Seq(Rules) /\ Len(Append(rules, r)) = Len(rules) + 1
    BY <1>1, <2>1, AppendProperties
  <2>3. Len(rules) + 1 <= MaxRules
    BY <1>1, <1>2, EventRouterAssumption DEF addRule
  <2>4. rules' = sortRules(Append(rules, r))
    BY <1>2 DEF addRule, r
  <2> QED
    BY <2>2, <2>3, <2>4, SortedTable
<1>3. ASSUME NEW body \in Bodies, updateRule(a, id, body) PROVE rules' \in Tables
  <2> DEFINE r == [id |-> id, body |-> body]
             s == [rules EXCEPT ![FindRule(id)] = r]
  <2>1. r \in Rules
    BY DEF Rules
  <2> HIDE DEF r
  <2>2. FindRule(id) \in 1..Len(rules)
    BY <1>1, <1>3, RulesFound DEF updateRule
  <2>3. s \in Seq(Rules) /\ Len(s) = Len(rules)
    BY <1>1, <2>1, <2>2, ExceptSeq
  <2>4. rules' = sortRules(s)
    BY <1>3 DEF updateRule, r
  <2> QED
    BY <1>1, <2>3, <2>4, SortedTable
<1>4. ASSUME removeRule(a, id) PROVE rules' \in Tables
  <2>1. FindRule(id) \in 1..Len(rules)
    BY <1>1, <1>4, RulesFound DEF removeRule
  <2> QED
    BY <1>1, <1>4, <2>1, TakenOut DEF removeRule
<1>5. rules' \in Tables
  BY <1>2, <1>3, <1>4
<1>6. PICK reply \in BOOLEAN : Begin(a, reply)
  BY DEF addRule, updateRule, removeRule
<1> QED
  BY <1>5, <1>6, EmptyTable DEF RouterInv, RouterFits, SavedInv, Begin, Saving, Writing

\* What a file gives back is a table of the router; a saved one gives itself.
LEMMA LoadedTable ==
  ASSUME NEW f \in [is : {"empty", "torn", "json"}, table : Tables]
  PROVE  Loaded(f) \in Tables
  BY EmptyTable, SortedTable DEF Loaded, Tables

\* A table that was written is what load() reads back: sorting it again changes nothing.
LEMMA SavedTable ==
  ASSUME NEW t \in Tables
  PROVE  /\ Holds(t) \in [is : {"empty", "torn", "json"}, table : Tables]
         /\ Loaded(Holds(t)) = t
  BY SortIsIdempotent DEF Holds, Loaded, Tables

\* The steps of a save, and the answer after it.
LEMMA OpenStep ==
  ASSUME RouterInv, NEW a \in Admins, OpenFile(a)
  PROVE  RouterInv'
<1>1. admin' = [admin EXCEPT ![a] = [admin[a] EXCEPT !.next = "copy"]]
  BY DEF OpenFile
<1>2. RouterFits'
  BY <1>1, EmptyTable DEF RouterInv, RouterFits, OpenFile, Empty, Saving
<1>3. ASSUME ~saveLost' PROVE \A b \in Admins \ {a} : admin[b].next \notin Writing
  BY <1>3 DEF OpenFile, Writing
<1>4. \A b \in Admins \ {a} : admin'[b] = admin[b]
  BY <1>1 DEF RouterInv, RouterFits
<1>5. admin'[a].next = "copy"
  BY <1>1 DEF RouterInv, RouterFits
<1>6. routeFile' = Empty
  BY DEF OpenFile
<1> QED
  BY <1>2, <1>3, <1>4, <1>5, <1>6 DEF RouterInv, SavedInv, Saving, Writing

\* A handler whose save has ended, or that has none, is not saving.
LEMMA SavedStates ==
  ASSUME RouterFits, NEW a \in Admins
  PROVE  /\ SaveEnds(a) \in [next : Saving \cup {"none", "reply"}, copy : Tables, reply : BOOLEAN]
         /\ SaveEnds(a).next \notin Saving
         /\ NoHandler \in [next : Saving \cup {"none", "reply"}, copy : Tables, reply : BOOLEAN]
         /\ NoHandler.next \notin Saving
  BY EmptyTable DEF RouterFits, SaveEnds, NoHandler, Saving

\* The copy goes to the file.
LEMMA WriteStep ==
  ASSUME RouterInv, NEW a \in Admins, WriteFile(a)
  PROVE  RouterInv'
<1>1. admin' = [admin EXCEPT ![a] = SaveEnds(a)] /\ UNCHANGED <<rules, saveLost>>
  BY DEF WriteFile
<1>2. admin[a].copy \in Tables /\ admin[a].next = "write"
  BY DEF RouterInv, RouterFits, WriteFile
<1>3. RouterFits'
  <2>1. Torn \in [is : {"empty", "torn", "json"}, table : Tables]
    BY EmptyTable DEF Torn
  <2>2. routeFile' \in [is : {"empty", "torn", "json"}, table : Tables]
    BY <1>2, <2>1, SavedTable DEF WriteFile
  <2> QED
    BY <1>1, <2>2, SavedStates DEF RouterInv, RouterFits
<1>4. ASSUME ~saveLost PROVE SavedInv'
  <2>1. \A b \in Admins : admin[b].next \in Writing => b = a
    BY <1>2, <1>4 DEF RouterInv, SavedInv, Writing
  <2>2. routeFile' = Holds(admin[a].copy)
    BY <1>2, <1>4 DEF RouterInv, SavedInv, Writing, WriteFile
  <2>3. /\ \A b \in Admins \ {a} : admin'[b] = admin[b]
        /\ admin'[a].next \notin Saving
    BY <1>1, SavedStates DEF RouterInv, RouterFits
  <2>4. \A b \in Admins : admin'[b].next \notin Writing
    BY <2>1, <2>3 DEF Writing, Saving
  <2>5. ASSUME \A b \in Admins : admin'[b].next \notin Saving PROVE Loaded(routeFile') = rules'
    <3>1. \A b \in Admins : admin[b].next # "open"
      BY <1>2, <2>3, <2>5 DEF Saving
    <3>2. admin[a].copy = rules
      BY <1>2, <1>4, <3>1 DEF RouterInv, SavedInv
    <3> QED
      BY <1>1, <1>2, <2>2, <3>2, SavedTable
  <2> QED
    BY <2>4, <2>5 DEF SavedInv, Writing
<1> QED
  BY <1>1, <1>3, <1>4 DEF RouterInv, SavedInv

\* The other steps of a save: the file cannot be opened, the table is copied, the answer.
LEMMA SaveStep ==
  ASSUME RouterInv, NEW a \in Admins, OpenFails(a) \/ CopyRules(a) \/ Reply(a)
  PROVE  RouterInv'
<1>1. CASE OpenFails(a)
  BY <1>1, SavedStates DEF RouterInv, RouterFits, SavedInv, OpenFails
<1>2. CASE CopyRules(a)
  <2>1. admin' = [admin EXCEPT ![a] = [admin[a] EXCEPT !.next = "write", !.copy = rules]]
    BY <1>2 DEF CopyRules, RouterInv, RouterFits
  <2>2. RouterFits'
    BY <1>2, <2>1 DEF RouterInv, RouterFits, CopyRules, Saving
  <2>3. /\ \A b \in Admins \ {a} : admin'[b] = admin[b]
        /\ admin'[a].next = "write" /\ admin'[a].copy = rules /\ admin[a].next = "copy"
    BY <1>2, <2>1 DEF RouterInv, RouterFits, CopyRules
  <2>4. UNCHANGED <<rules, routeFile, saveLost>>
    BY <1>2 DEF CopyRules
  <2> QED
    BY <2>2, <2>3, <2>4 DEF RouterInv, SavedInv, Saving, Writing
<1>3. CASE Reply(a)
  <2>1. RouterFits'
    BY <1>3, SavedStates DEF RouterInv, RouterFits, Reply
  <2>2. /\ \A b \in Admins \ {a} : admin'[b] = admin[b]
        /\ admin'[a].next \notin Saving /\ admin[a].next \notin Saving
        /\ UNCHANGED <<rules, routeFile, saveLost>>
    BY <1>3, SavedStates DEF RouterInv, RouterFits, Reply, Saving
  <2> QED
    BY <2>1, <2>2 DEF RouterInv, SavedInv, Saving, Writing
<1> QED
  BY <1>1, <1>2, <1>3

\* After a restart the table is what the file held.
LEMMA RestartStep ==
  ASSUME RouterInv, RouterRestarts
  PROVE  RouterInv'
<1>1. rules' = Loaded(routeFile) /\ UNCHANGED <<routeFile, saveLost>>
      /\ admin' = [a \in Admins |-> NoHandler]
  BY DEF RouterRestarts
<1>2. RouterFits'
  <2>1. NoHandler \in [next : Saving \cup {"none", "reply"}, copy : Tables, reply : BOOLEAN]
    BY EmptyTable DEF NoHandler
  <2> QED
    BY <1>1, <2>1, LoadedTable DEF RouterInv, RouterFits
<1>3. \A a \in Admins : admin'[a].next = "none"
  BY <1>1 DEF NoHandler
<1> QED
  BY <1>1, <1>2, <1>3 DEF RouterInv, SavedInv, Writing

\* The invariant of the router holds in every state.
LEMMA RouterInvariant == RouterSpec => []RouterInv
<1>1. RouterInit => RouterInv
  <2> SUFFICES ASSUME RouterInit PROVE RouterInv
    OBVIOUS
  <2>1. RouterFits
    BY EmptyTable DEF RouterInit, RouterFits, NoHandler, Empty
  <2>2. Loaded(Empty) = <<>> /\ \A a \in Admins : admin[a].next = "none"
    BY DEF RouterInit, Loaded, Empty, NoHandler
  <2> QED
    BY <2>1, <2>2 DEF RouterInit, RouterInv, SavedInv, Writing
<1>2. RouterInv /\ [RouterNext]_routeVars => RouterInv'
  <2> SUFFICES ASSUME RouterInv, [RouterNext]_routeVars
               PROVE  RouterInv'
    OBVIOUS
  <2>1. CASE UNCHANGED routeVars
    BY <2>1 DEF RouterInv, RouterFits, SavedInv, routeVars
  <2>2. CASE ListRules \/ \E id \in RuleIds : GetRule(id)
    BY <2>1, <2>2 DEF ListRules, GetRule
  <2> QED
    BY <2>1, <2>2, ChangeStep, OpenStep, SaveStep, WriteStep, RestartStep DEF RouterNext
<1> QED
  BY <1>1, <1>2, PTL DEF RouterSpec

\* The table and the file fit, whatever is added, updated, removed and restarted.
THEOREM RouterTypeCorrect == RouterSpec => []RouterTypeOK
<1>1. RouterInv => RouterTypeOK
  BY DEF RouterInv, RouterFits, RouterTypeOK, IsTable, Tables
<1> QED
  BY <1>1, RouterInvariant, PTL

\* Once no save is under way, a restart routes everything as before, unless the last
\* saves overlapped: for any number of rules, priorities and administrators.
THEOREM RoutesSurviveRestart == RouterSpec => []RoutesSaved
<1>1. RouterInv => RoutesSaved
  BY DEF RouterInv, SavedInv, RoutesSaved
<1> QED
  BY <1>1, RouterInvariant, PTL

-----------------------------------------------------------------------------
(* MCControl: what holds of each component holds where they are composed. *)

\* Each step of the composition is a step of one component, and the others stutter.
LEMMA Components ==
  Spec => DevSpec /\ ConfigSpec /\ RouterSpec /\ GatewayConfigSpec /\ RegistrySpec /\ UnitSpec
<1>1. Init => DevInit /\ ConfigInit /\ RouterInit /\ GatewayConfigInit /\ RegistryInit /\ UnitInit
  BY DEF Init
<1>2. [Next]_vars => /\ [DevNext]_devVars /\ [ConfigNext]_configVars /\ [RouterNext]_routeVars
                     /\ [GatewayConfigNext]_gatewayConfigVars /\ [RegistryNext]_registryVars
                     /\ [UnitNext]_unitVars
  BY Zenon DEF Next, vars, DeviceSteps, DocumentSteps, RouterSteps, GatewayConfigSteps,
               RegistrySteps, UnitSteps
<1> QED
  BY <1>1, <1>2, PTL
  DEF Spec, DevSpec, ConfigSpec, RouterSpec, GatewayConfigSpec, RegistrySpec, UnitSpec

\* Every component of the composition keeps its types.
THEOREM ControlTypeCorrect == Spec => []ControlTypeOK
  BY Components, CatalogTypeCorrect, DevicesTypeCorrect, DocumentTypeCorrect, RouterTypeCorrect,
     SettingsTypeCorrect, RegistryTypeCorrect, UnitTypeCorrect, PTL DEF ControlTypeOK

\* Every property that TLC checks of the composition on an instance holds of it for
\* every value of the constants.
THEOREM ControlIsSafe ==
  Spec => /\ [](NotFoundIsTrue /\ DeviceHasCredential /\ StoredIsValid)
          /\ [](RoutesSaved /\ ConfigSaved /\ ConvertedBack)
          /\ RevokedIsFinal /\ SelectsLive
  BY Components, NotFoundIsHonest, DevicesHaveCredentials, StoredFits, RoutesSurviveRestart,
     SettingsAreSaved, ConversionIsUndone, RevocationIsFinal, SelectionIsLive, PTL
=============================================================================
