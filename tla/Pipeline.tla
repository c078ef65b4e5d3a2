------------------------------ MODULE Pipeline ------------------------------
(***************************************************************************)
(* The way of a reading: from a station through ingestion and the broker's *)
(* queues to the database, while administrators register, change and       *)
(* delete the sensors of the device.                                       *)
(***************************************************************************)
EXTENDS Ingestion, ReadingWriter

CONSTANTS
    AtStart,  \* the sensors tables that the services may find when they start first
    Changes   \* bound: <<s, old, new>>, what administrators may do to its rows

ASSUME AtStartAssumption == AtStart \subseteq SensorTables

pipeVars == <<faults, tableVars, stationVars, ingestionVars, queues, writerVars>>

PipeTypeOK ==
    /\ faults \in 0..MaxFaults
    /\ sensors \in SensorTables /\ deleted \subseteq Sensors
    /\ StationTypeOK /\ IngestionTypeOK /\ QueueTypeOK /\ WriterTypeOK

PipeInit ==
    /\ faults = 0 /\ sensors \in AtStart /\ deleted = {}
    /\ StationInit /\ IngestionInit /\ QueueInit /\ WriterInit

-----------------------------------------------------------------------------
(* sensor.create, sensor.update and sensor.delete                           *)

\* A refresh under way may have read the table before or after the change, and none
\* has seen the new row.
RowChanged(s, row) ==
    /\ <<s, sensors[s], row>> \in Changes
    /\ sensors' = [sensors EXCEPT ![s] = row]
    /\ answers' = answers \cup {sensors'}
    /\ known' = known \ {s}
    /\ UNCHANGED <<stationVars, owners, ownersLoaded, jobVars, up, queues>>

\* An id is never given twice.
SensorRegistered(s, row) ==
    /\ sensors[s] = NoRow /\ s \notin deleted
    /\ RowChanged(s, row)
    /\ Fault
    /\ UNCHANGED <<deleted, writerVars>>

SensorUpdated(s, row) ==
    /\ sensors[s] \notin {NoRow, row} /\ Fault
    /\ RowChanged(s, row)
    /\ UNCHANGED <<deleted, writerVars>>

\* sensor_readings.sensor_id REFERENCES sensors(id) ON DELETE CASCADE
SensorDeleted(s) ==
    /\ sensors[s] # NoRow /\ Fault
    /\ RowChanged(s, NoRow)
    /\ deleted' = deleted \cup {s}
    /\ rows' = {r \in rows : SensorOf[r] # s}
    /\ UNCHANGED <<mqUp, dbDown, handler, spans, dead, deadSpans>>

TableNext == \E s \in Sensors :
                \/ SensorDeleted(s)
                \/ \E row \in Rows : SensorRegistered(s, row) \/ SensorUpdated(s, row)

-----------------------------------------------------------------------------
StationRests == UNCHANGED <<tableVars, ingestionVars, queues, writerVars>>
IngestionRests == UNCHANGED <<tableVars, writerVars>>
WriterRests == UNCHANGED <<tableVars, stationVars, ingestionVars>>

StationStep == StationNext /\ StationRests
IngestionStep == IngestionNext /\ IngestionRests
WriterStep == WriterNext /\ WriterRests

PipeNext == StationStep \/ IngestionStep \/ WriterStep \/ TableNext
PipeSpec == PipeInit /\ [][PipeNext]_pipeVars

\* Threads run and loops go on; what fails is a fault, and faults end.
PipeFairness ==
    /\ WF_stationVars(StationWorks /\ StationRests)
    /\ WF_ingestionVars(IngestionWorks /\ IngestionRests)
    /\ WF_ingestionVars(~ownersLoaded /\ RefreshOwners /\ IngestionRests)
    /\ WF_writerVars(WriterWorks /\ WriterRests)

-----------------------------------------------------------------------------
(* Properties                                                               *)

InFlight(r) == \E i \in 1..Len(inbox) : r \in inbox[i].pack

\* Where a reading is.  One that is nowhere has no state of ReadingStore.
StateOf(r) ==
    IF SensorOf[r] \in deleted THEN "deleted"
    ELSE IF r \in rows THEN "stored"
    ELSE IF r \in dead THEN "given"
    ELSE IF r \in file \/ InFlight(r) \/ readingQ[r] > 0 THEN "held"
    ELSE IF r \in dropped THEN "given"
    ELSE IF r \in wiped THEN "wiped"
    ELSE IF r \notin taken THEN "none" ELSE "nowhere"

Store == INSTANCE ReadingStore WITH state <- [r \in Readings |-> StateOf(r)]

\* The pipeline implements ReadingStore: no crash, lost answer, partial publish,
\* requeue or redelivery loses a reading, or takes one back that was stored, as long
\* as its sensor is there; and none is held forever once the faults have ended.
ImplementsStore == Store!StoreSpec

\* The station erases a reading it declared a version for only when a span that
\* covers it is stored, queued or, if the database rejected it, dead-lettered: in
\* whatever order the spans of a version are written, redelivered and rejected.
SpanCovers ==
    \A p \in told :
        \/ spans[p[2]] # NoSpan /\ InSpan(p[1], spans[p[2]])
        \/ \E s \in Spans : /\ telemetryQ[s] > 0 \/ s \in deadSpans
                            /\ s.version = p[2] /\ InSpan(p[1], s)

\* The row of the sensor is one some refresh has seen, and the station's unit is its unit.
Agreed(s) == s \in known /\ Request.own[s].unit = sensors[s].unit /\ sensors[s].unit # ""

\* A pack is not stripped of a reading of a sensor whose row, as it stands, some refresh
\* has seen, and whose unit the station converted with: through registrations, changes
\* and deletions that race with refreshes, failed refreshes and restarts of both ends.
KnownIsAccepted ==
    [][ phase = "idle" /\ phase' = "readings" =>
          \A r \in Request.pack : Agreed(SensorOf[r]) => r \in accepted' ]_pipeVars
=============================================================================
