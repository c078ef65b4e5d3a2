----------------------------- MODULE Ingestion ------------------------------
(***************************************************************************)
(* The ingestion service: one thread answers the stations' packs, of which *)
(* it publishes the readings and the configuration span with confirms,     *)
(* another refreshes the cache of which device owns which sensor.          *)
(***************************************************************************)
EXTENDS Station, Broker, SenmlUnits

VARIABLES
    owners,     \* sensorOwners_: the rows of the sensors, of which it uses the unit
    ownersLoaded,
    answers,    \* what the table was at any time since the last refresh ended
    known,      \* history: sensors of which some refresh has seen the row they have
    phase,      \* what onRequest() is publishing, "idle" when it does not run
    second,     \* publishBatch() is on its second attempt
    accepted,   \* readings of the pack that handleSenml() publishes
    up          \* up[p]: the producer of queue p is connected

cacheVars == <<owners, ownersLoaded, answers, known>>
jobVars == <<phase, second, accepted>>
ingestionVars == <<cacheVars, jobVars, up>>

Producers == {"readings", "span"}

IngestionTypeOK ==
    /\ owners \in SensorTables /\ answers \subseteq SensorTables /\ known \subseteq Sensors
    /\ ownersLoaded \in BOOLEAN /\ second \in BOOLEAN
    /\ phase \in Producers \cup {"idle"}
    /\ phase # "idle" => inbox # <<>>
    /\ accepted \subseteq Readings
    /\ up \in [Producers -> BOOLEAN]

IngestionInit ==
    /\ owners = NoSensors /\ ownersLoaded = FALSE /\ answers = {sensors} /\ known = {}
    /\ phase = "idle" /\ second = FALSE /\ accepted = {}
    /\ up = [p \in Producers |-> FALSE]

Request == Head(inbox)
stationRest == <<fileVars, own, txVars, version, history>>

\* The station converted with its own copy of the unit, ingestion does with the cached one.
Converts(s) == Arrives(0, Request.own[s], owners[s].unit) # {}
Accepts(s) == owners[s] # NoRow /\ Converts(s)

\* The response goes to the session, if there still is one.
Answer(ok) ==
    /\ inbox' = Tail(inbox)
    /\ reply' = IF Request.live
                THEN [ok |-> ok, accepted |-> accepted,
                      dropped |-> Request.pack \ accepted, none |-> FALSE]
                ELSE reply
    /\ phase' = "idle" /\ second' = FALSE /\ accepted' = {}
    /\ UNCHANGED stationRest

-----------------------------------------------------------------------------
\* handleSenml() on a well-formed pack of the station's own device.
HandlePack ==
    /\ phase = "idle" /\ inbox # <<>> /\ ownersLoaded
    /\ accepted' = {r \in Request.pack : Accepts(SensorOf[r])}
    /\ phase' = "readings" /\ second' = FALSE
    /\ NoFault
    /\ UNCHANGED <<stationVars, queues, cacheVars, up>>

\* 5.03: the cache never loaded.  4.01: the session's credential left the cache.
Unavailable ==
    /\ phase = "idle" /\ inbox # <<>>
    /\ IF ownersLoaded THEN Fault ELSE NoFault
    /\ Answer(FALSE)
    /\ UNCHANGED <<queues, cacheVars, up>>

\* The message of the pack's rec_cfg: its lowest and highest timestamps.
SpanOf(cfg, readings) ==
    { s \in Spans : /\ s.version = cfg
                    /\ s.first \in readings /\ s.last \in readings
                    /\ \A r \in readings : InSpan(r, s) }

\* What publishBatch() is given: an empty batch needs no connection.
Bodies == IF phase = "readings" THEN accepted ELSE SpanOf(Request.cfg, accepted)
Publish(bodies) ==
    IF phase = "readings"
    THEN readingQ' = Added(readingQ, bodies) /\ UNCHANGED telemetryQ
    ELSE telemetryQ' = Added(telemetryQ, bodies) /\ UNCHANGED readingQ

\* Every message confirmed: the span follows the readings, then the answer.
Confirmed ==
    /\ phase # "idle" /\ (up[phase] \/ Bodies = {})
    /\ Publish(Bodies)
    /\ IF phase = "readings" /\ Request.cfg # 0 /\ accepted # {}
       THEN /\ phase' = "span" /\ second' = FALSE
            /\ UNCHANGED <<stationVars, accepted>>
       ELSE Answer(TRUE)
    /\ NoFault
    /\ UNCHANGED <<cacheVars, up>>

\* Mutant of Unconfirmed: a batch of which some were confirmed is a success.
Unconfirmed_Accepted ==
    /\ phase # "idle" /\ up[phase] /\ Bodies # {} /\ Fault
    /\ \E part \in SUBSET Bodies : Publish(part)
    /\ up' = [up EXCEPT ![phase] = FALSE]
    /\ Answer(TRUE)
    /\ UNCHANGED cacheVars

\* A nack, a timeout or a lost connection: some of the messages were stored.
Unconfirmed ==
    /\ phase # "idle" /\ up[phase] /\ Bodies # {} /\ Fault
    /\ \E part \in SUBSET Bodies : Publish(part)
    /\ up' = [up EXCEPT ![phase] = FALSE]
    /\ IF second THEN Answer(FALSE)
       ELSE UNCHANGED <<stationVars, jobVars>>
    /\ UNCHANGED cacheVars

\* One fresh connection, for the whole batch again.
Reconnect ==
    /\ phase # "idle" /\ ~up[phase] /\ Bodies # {}
    /\ up' = [up EXCEPT ![phase] = TRUE] /\ second' = TRUE
    /\ NoFault
    /\ UNCHANGED <<stationVars, queues, cacheVars, phase, accepted>>

ReconnectFails ==
    /\ phase # "idle" /\ ~up[phase] /\ Bodies # {} /\ Fault
    /\ Answer(FALSE)
    /\ UNCHANGED <<queues, cacheVars, up>>

-----------------------------------------------------------------------------
\* Mutant of RefreshFails: the map is cleared before the answer is known.
RefreshFails_Cleared ==
    /\ Fault
    /\ owners' = NoSensors /\ answers' = {sensors}
    /\ UNCHANGED <<stationVars, queues, ownersLoaded, known, jobVars, up>>

\* A failed sensor.list_owners keeps the previous map.
RefreshFails ==
    /\ Fault
    /\ answers' = {sensors}
    /\ UNCHANGED <<stationVars, queues, owners, ownersLoaded, known, jobVars, up>>

\* refreshSensorOwners(), from run() and every minute: what sensor.list_owners read from
\* the table may have changed by the time it is in the map.
RefreshOwners ==
    /\ owners' \in answers /\ ownersLoaded' = TRUE /\ answers' = {sensors}
    /\ known' = known \cup {s \in Sensors : sensors[s] # NoRow /\ owners'[s] = sensors[s]}
    /\ NoFault
    /\ UNCHANGED <<stationVars, queues, jobVars, up>>

\* The process restarts: sessions, caches and connections go.
IngestionRestart ==
    /\ Fault
    /\ inbox' = <<>>
    /\ owners' = NoSensors /\ ownersLoaded' = FALSE /\ answers' = {sensors}
    /\ phase' = "idle" /\ second' = FALSE /\ accepted' = {}
    /\ up' = [p \in Producers |-> FALSE]
    /\ UNCHANGED <<stationRest, reply, queues, known>>

IngestionWorks == HandlePack \/ (~ownersLoaded /\ Unavailable) \/ Confirmed \/ Reconnect
IngestionNext ==
    \/ IngestionWorks \/ RefreshOwners \/ RefreshFails \/ IngestionRestart
    \/ (ownersLoaded /\ Unavailable) \/ Unconfirmed \/ ReconnectFails
=============================================================================
