----------------------------- MODULE SenmlUnits -----------------------------
(***************************************************************************)
(* The unit conversions between a sensor's own unit and the SenML units    *)
(* the wire carries.  A value is an integer in a unit small enough for the *)
(* factors to divide it; an optional result is a set of at most one value. *)
(***************************************************************************)
EXTENDS Integers

\* value in sensor unit = value in SenML unit * num / den
UnitRules ==
    { [senml |-> "Cel", sensor |-> "degC", num |-> 1,   den |-> 1],
      [senml |-> "%RH", sensor |-> "%",    num |-> 1,   den |-> 1],
      [senml |-> "/",   sensor |-> "%",    num |-> 100, den |-> 1],
      [senml |-> "Pa",  sensor |-> "kPa",  num |-> 1,   den |-> 1000],
      [senml |-> "lx",  sensor |-> "lux",  num |-> 1,   den |-> 1] }

\* Mutant of toSensorUnit: units that are equal have no rule.
toSensorUnit_RulesOnly(value, senmlUnit, sensorUnit) ==
    { (value * r.num) \div r.den :
        r \in {q \in UnitRules : q.senml = senmlUnit /\ q.sensor = sensorUnit} }

toSensorUnit(value, senmlUnit, sensorUnit) ==
    IF senmlUnit = "" THEN {}
    ELSE IF senmlUnit = sensorUnit THEN {value}
    ELSE { (value * r.num) \div r.den :
             r \in {q \in UnitRules : q.senml = senmlUnit /\ q.sensor = sensorUnit} }

\* Of the two rules for "%" the type of the sensor picks one.
RulesFor(sensorUnit, sensorType) ==
    { r \in UnitRules :
        /\ r.sensor = sensorUnit
        /\ sensorUnit = "%" => \/ r.senml = "%RH" /\ sensorType = "humidity"
                               \/ r.senml = "/" /\ sensorType = "moisture" }

fromSensorUnit(value, sensorUnit, sensorType) ==
    LET rules == RulesFor(sensorUnit, sensorType)
        rule  == CHOOSE r \in rules : TRUE
    IN IF rules = {} THEN [unit |-> sensorUnit, value |-> value]
       ELSE [unit |-> rule.senml, value |-> (value * rule.den) \div rule.num]

\* The value that arrives when a station sends one: converted there by what its copy
\* of the sensor's row says, and back by the unit that ingestion has.
Arrives(value, row, unit) ==
    LET sent == fromSensorUnit(value, row.unit, row.type)
    IN toSensorUnit(sent.value, sent.unit, unit)
=============================================================================
