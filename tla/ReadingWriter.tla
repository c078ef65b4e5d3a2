--------------------------- MODULE ReadingWriter ----------------------------
(***************************************************************************)
(* The service that moves the messages of both queues to the database: a   *)
(* message is acked when its row is committed or it is in the dead-letter  *)
(* queue; a database that fails pauses consumption until it answers.       *)
(***************************************************************************)
EXTENDS Broker

VARIABLES
    mqUp,       \* both consumers are connected
    dbDown,     \* dbDown_
    reading,    \* the reading handleMessage() was given, 0 for none
    span,       \* the span handleConfigSpan() was given, or NoSpan
    outcome,    \* what the handler returns; "dead" within deadLetter()
    rows,       \* sensor_readings
    spans,      \* device_config_spans: spans[v] is the row of version v
    dead,       \* deadReadings_: the dead-letter queue of the readings
    deadSpans   \* deadTelemetry_: that of the spans

handler == <<reading, span, outcome>>
tables == <<rows, spans, dead, deadSpans>>
writerVars == <<mqUp, dbDown, handler, tables>>

Idle == reading = 0 /\ span = NoSpan

WriterTypeOK ==
    /\ mqUp \in BOOLEAN /\ dbDown \in BOOLEAN
    /\ reading \in Readings \cup {0} /\ span \in Spans \cup {NoSpan}
    /\ reading = 0 \/ span = NoSpan
    /\ outcome \in {"none", "dead", "ack", "requeue"}
    /\ Idle => outcome = "none"
    /\ rows \subseteq Readings /\ dead \subseteq Readings /\ deadSpans \subseteq Spans
    /\ spans \in [Versions -> Spans \cup {NoSpan}]
    /\ reading # 0 => readingQ[reading] > 0
    /\ span # NoSpan => telemetryQ[span] > 0

WriterInit ==
    /\ mqUp = FALSE /\ dbDown = TRUE
    /\ reading = 0 /\ span = NoSpan /\ outcome = "none"
    /\ rows = {} /\ dead = {} /\ deadSpans = {}
    /\ spans = [v \in Versions |-> NoSpan]

-----------------------------------------------------------------------------
\* AmqpConsumer::connect: both channels, with one message at a time on each.
Connect == mqUp' = TRUE

waitForBroker ==
    /\ Idle /\ ~mqUp
    /\ Connect
    /\ NoFault
    /\ UNCHANGED <<queues, dbDown, handler, tables>>

\* The database answers the probe.
waitForDatabase ==
    /\ Idle /\ mqUp /\ dbDown
    /\ dbDown' = FALSE
    /\ NoFault
    /\ UNCHANGED <<queues, mqUp, handler, tables>>

ConsumeReading(r) ==
    /\ Idle /\ mqUp /\ ~dbDown /\ readingQ[r] > 0
    /\ reading' = r
    /\ NoFault
    /\ UNCHANGED <<queues, mqUp, dbDown, span, outcome, tables>>

ConsumeSpan(s) ==
    /\ Idle /\ mqUp /\ ~dbDown /\ telemetryQ[s] > 0
    /\ span' = s
    /\ NoFault
    /\ UNCHANGED <<queues, mqUp, dbDown, reading, outcome, tables>>

\* Mutant of Merged: the last span written replaces the one of the row.
Merged_Replaced(row, s) == s

\* ON CONFLICT (device_id, version) DO UPDATE ... LEAST ... GREATEST
Merged(row, s) ==
    IF row = NoSpan THEN s
    ELSE [s EXCEPT !.first = IF row.first < @ THEN row.first ELSE @,
                   !.last  = IF row.last > @ THEN row.last ELSE @]

\* The row is there already after a redelivery: ON CONFLICT DO NOTHING.
Write ==
    IF reading # 0 THEN rows' = rows \cup {reading} /\ UNCHANGED <<spans, dead, deadSpans>>
    ELSE /\ spans' = [spans EXCEPT ![span.version] = Merged(@, span)]
         /\ UNCHANGED <<rows, dead, deadSpans>>

\* isPoison(): a value the column does not take, or a sensor that is no longer there.
Rejected == reading # 0 /\ (reading \in Poison \/ sensors[SensorOf[reading]] = NoRow)

WriteSucceeds ==
    /\ ~Idle /\ outcome = "none" /\ ~Rejected
    /\ Write
    /\ outcome' = "ack"
    /\ NoFault
    /\ UNCHANGED <<queues, mqUp, dbDown, reading, span>>

WriteRejected ==
    /\ Rejected /\ outcome = "none"
    /\ outcome' = "dead"
    /\ NoFault
    /\ UNCHANGED <<queues, mqUp, dbDown, reading, span, tables>>

\* handleConfigSpan(): its row may be rejected too.
SpanRejected ==
    /\ span # NoSpan /\ outcome = "none" /\ Fault
    /\ outcome' = "dead"
    /\ UNCHANGED <<queues, mqUp, dbDown, reading, span, tables>>

\* onWriteFailure() with an outage, which may hide a commit.
WriteFails ==
    /\ ~Idle /\ outcome = "none" /\ Fault
    /\ \/ UNCHANGED tables
       \/ ~Rejected /\ Write
    /\ outcome' = "requeue" /\ dbDown' = TRUE
    /\ UNCHANGED <<queues, mqUp, reading, span>>

deadLetter ==
    /\ outcome = "dead"
    /\ \/ /\ IF reading # 0 THEN dead' = dead \cup {reading} /\ UNCHANGED deadSpans
             ELSE deadSpans' = deadSpans \cup {span} /\ UNCHANGED dead
          /\ outcome' = "ack" /\ NoFault
       \/ UNCHANGED <<dead, deadSpans>> /\ outcome' = "requeue" /\ Fault
    /\ UNCHANGED <<queues, mqUp, dbDown, reading, span, rows, spans>>

\* Mutant of Released: what the handler returned is kept for the next message.
Released_Outcome == reading' = 0 /\ span' = NoSpan /\ UNCHANGED outcome
Released == reading' = 0 /\ span' = NoSpan /\ outcome' = "none"

\* basic.ack or basic.nack, at the end of consumeOne()
Settle ==
    /\ outcome \in {"ack", "requeue"}
    /\ IF outcome = "requeue" THEN UNCHANGED queues
       ELSE IF reading # 0 THEN readingQ' = Removed(readingQ, reading) /\ UNCHANGED telemetryQ
       ELSE telemetryQ' = Removed(telemetryQ, span) /\ UNCHANGED readingQ
    /\ Released
    /\ NoFault
    /\ UNCHANGED <<mqUp, dbDown, tables>>

\* The connection goes, idle or before the ack: the broker delivers again.
ConsumerLost ==
    /\ mqUp /\ (Idle \/ outcome \in {"ack", "requeue"}) /\ Fault
    /\ mqUp' = FALSE
    /\ Released
    /\ UNCHANGED <<queues, dbDown, tables>>

WriterRestart ==
    /\ Fault
    /\ mqUp' = FALSE /\ dbDown' = TRUE
    /\ Released
    /\ UNCHANGED <<queues, tables>>

WriterWorks ==
    \/ waitForBroker \/ waitForDatabase
    \/ (\E r \in Readings : ConsumeReading(r)) \/ (\E s \in Spans : ConsumeSpan(s))
    \/ WriteSucceeds \/ WriteRejected \/ deadLetter \/ Settle
WriterNext == WriterWorks \/ WriteFails \/ SpanRejected \/ ConsumerLost \/ WriterRestart
=============================================================================
