------------------------------ MODULE Readings ------------------------------
(* What the parts of the reading pipeline share: the readings themselves,   *)
(* the sensors table, which administrators change, and the number of faults *)
(* a behaviour may still meet.                                              *)
EXTENDS Integers, FiniteSets, Sequences

CONSTANTS
    Readings,   \* 1..n; a reading is its timestamp, unique with its sensor
    Sensors,
    SensorOf,   \* SensorOf[r]: the sensor that took reading r
    Rows,       \* records [unit, type]: what a row of the table may say
    NoRow,      \* stands for no row
    Poison,     \* readings the database rejects: SQLSTATE class 22 or 23
    Versions,   \* 1..m, versions of the device's configuration
    PackSize,   \* kMaxReadingsPerPack
    MaxFaults   \* bound: faults, and changes of rows, in a behaviour

ASSUME ReadingsAssumption ==
    /\ IsFiniteSet(Readings) /\ Readings = 1..Cardinality(Readings)
    /\ Versions \subseteq Nat \ {0}
    /\ SensorOf \in [Readings -> Sensors]
    /\ NoRow \notin Rows
    /\ Poison \subseteq Readings
    /\ PackSize \in Nat \ {0} /\ MaxFaults \in Nat

VARIABLES
    faults,
    sensors,    \* the sensors table, of the station's device
    deleted     \* history: sensors whose row was deleted

tableVars == <<sensors, deleted>>
SensorTables == [Sensors -> Rows \cup {NoRow}]
NoSensors == [s \in Sensors |-> NoRow]

\* A step of the network, a process or a server that fails, or a change of a row.
Fault == faults < MaxFaults /\ faults' = faults + 1
NoFault == UNCHANGED faults
=============================================================================
