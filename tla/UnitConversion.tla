--------------------------- MODULE UnitConversion ---------------------------
(* One value on its way: a station takes it in its sensor's unit, sends it  *)
(* in a SenML unit, and ingestion converts it back to the sensor's unit.    *)
EXTENDS SenmlUnits

CONSTANTS SensorTypes,  \* sensors.type
          Values        \* values in the smallest unit, multiples of 1000

ASSUME UnitConversionAssumption == \A v \in Values : v \in Int /\ v % 1000 = 0

VARIABLES measured,  \* [unit, type, value], as sensors.unit and sensors.type say
          wire,      \* the SenML record
          arrived,   \* the converted values: none or one
          stage      \* "measured", "sent" or "received"

unitVars == <<measured, wire, arrived, stage>>

SensorUnits == {r.sensor : r \in UnitRules} \cup {"mS", ""}
NoRecord == [unit |-> "none", value |-> 0]

UnitTypeOK ==
    /\ measured \in [unit : SensorUnits, type : SensorTypes, value : Values]
    /\ wire.value \in Int /\ arrived \subseteq Int /\ stage \in {"measured", "sent", "received"}

UnitInit ==
    /\ measured \in [unit : SensorUnits, type : SensorTypes, value : Values]
    /\ wire = NoRecord /\ arrived = {} /\ stage = "measured"

\* The entry transmitNow() makes of a measured value.
Entry == fromSensorUnit(measured.value, measured.unit, measured.type)

buildPack ==
    /\ stage = "measured" /\ stage' = "sent"
    /\ wire' = Entry
    /\ UNCHANGED <<measured, arrived>>

\* The unit of the sensor is the one list_owners gave.
handleSenml ==
    /\ stage = "sent" /\ stage' = "received"
    /\ arrived' = toSensorUnit(wire.value, wire.unit, measured.unit)
    /\ UNCHANGED <<measured, wire>>

UnitNext == buildPack \/ handleSenml
UnitSpec == UnitInit /\ [][UnitNext]_unitVars

-----------------------------------------------------------------------------
\* A value sent in SenML units arrives as it was measured, whatever the unit and
\* the type of its sensor: converting back undoes the conversion, and never takes
\* one "%" for the other; only a value without a unit is dropped (conversion.cpp).
ConvertedBack ==
    stage = "received" => arrived = IF measured.unit = "" THEN {} ELSE {measured.value}
=============================================================================
