--------------------------- MODULE DeviceConfigs ---------------------------
(***************************************************************************)
(* device_config_service and sensor_service: the configuration document of *)
(* one weather station, updated by patches that are merged and validated   *)
(* in the service, while its sensors come and go.  No transaction spans    *)
(* the read of the row, the read of the sensors and the write.             *)
(*                                                                         *)
(* A document is its onboard channels, its aggregation window and at most  *)
(* one trigger; a patch replaces one of the three keys.                    *)
(***************************************************************************)
EXTENDS Naturals

CONSTANTS SensorIds,      \* sensor ids the sequence may give
          Channels,       \* onboard channels, each fed by sensors of one type
          Windows,        \* aggregation windows and trigger windows, in seconds
          ConfigThreads,  \* request threads of device_config_service
          MaxVersion      \* bound: versions of the document

ASSUME DeviceConfigsAssumption ==
  Windows \subseteq Nat \ {0} /\ 600 \in Windows /\ MaxVersion \in Nat \ {0} /\ "none" \notin SensorIds

VARIABLES sensor,   \* the table sensors: owner ("new", "mine", "other", "gone") and channel type
          stored,   \* device_configurations: [doc, version]
          update    \* the device_config.update each thread is in

configVars == <<sensor, stored, update>>

NoTrigger == [chan |-> "none", win |-> 0]
Triggers == {NoTrigger} \cup [chan : Channels, win : Windows]

\* What onboard[] says of a channel: nothing, or a sensor, enabled or not.
NoEntry == [sensor |-> "none", enabled |-> FALSE]
Entries == {NoEntry} \cup [sensor : SensorIds, enabled : BOOLEAN]
Onboards == [Channels -> Entries]
Docs == [onboard : Onboards, agg : Windows, trigger : Triggers]

\* The default document {}: the build's own window, nothing onboard.
DefaultDoc == [onboard |-> [c \in Channels |-> NoEntry], agg |-> 600, trigger |-> NoTrigger]

\* A patch has one key, with its value; what doc holds elsewhere is not said.
Patches == {[key |-> "onboard", doc |-> [DefaultDoc EXCEPT !.onboard = o]] : o \in Onboards}
           \cup {[key |-> "agg", doc |-> [DefaultDoc EXCEPT !.agg = w]] : w \in Windows}
           \cup {[key |-> "trigger", doc |-> [DefaultDoc EXCEPT !.trigger = g]] : g \in Triggers}

NoUpdate == [next |-> "none", patch |-> [key |-> "none", doc |-> DefaultDoc], merged |-> DefaultDoc]

ConfigTypeOK ==
  /\ sensor \in [SensorIds -> [of : {"new", "mine", "other", "gone"}, type : Channels]]
  /\ stored \in [doc : Docs, version : 1..MaxVersion]
  /\ \A t \in ConfigThreads :
       \/ update[t] = NoUpdate
       \/ update[t] \in [next : {"check", "write"}, patch : Patches, merged : Docs]

ConfigInit ==
  /\ sensor \in [SensorIds -> [of : {"new"}, type : Channels]]
  /\ stored = [doc |-> DefaultDoc, version |-> 1]
  /\ update = [t \in ConfigThreads |-> NoUpdate]

-----------------------------------------------------------------------------
\* sensor_service.  update and delete answer success for any id.
WriteSensor(s, as) == sensor' = [sensor EXCEPT ![s] = as]

SensorCreate(s, owner, type) ==
  /\ sensor[s].of = "new"
  /\ WriteSensor(s, [of |-> owner, type |-> type])
  /\ UNCHANGED <<stored, update>>

SensorUpdate(s, type) ==
  /\ sensor[s].of \in {"mine", "other"}
  /\ WriteSensor(s, [sensor[s] EXCEPT !.type = type])
  /\ UNCHANGED <<stored, update>>

SensorDelete(s) ==
  /\ sensor[s].of \in {"mine", "other"}
  /\ WriteSensor(s, [sensor[s] EXCEPT !.of = "gone"])
  /\ UNCHANGED <<stored, update>>

SensorRead == UNCHANGED configVars       \* sensor.get, sensor.list, sensor.list_owners

-----------------------------------------------------------------------------
ConfigGet == UNCHANGED configVars        \* device_config.get

mergePatch(doc, patch) ==
  CASE patch.key = "onboard" -> [doc EXCEPT !.onboard = patch.doc.onboard]
    [] patch.key = "agg"     -> [doc EXCEPT !.agg = patch.doc.agg]
    [] patch.key = "trigger" -> [doc EXCEPT !.trigger = patch.doc.trigger]

OfDevice == {s \in SensorIds : sensor[s].of = "mine"}

\* Every onboard sensor, of a disabled entry too, is one of this device, of the
\* channel's type.
checkSensors(doc) ==
  \A c \in Channels : doc.onboard[c] # NoEntry =>
      \E s \in OfDevice : s = doc.onboard[c].sensor /\ sensor[s].type = c

\* A trigger is on an enabled channel, its window a multiple of the aggregation window.
checkTriggers(doc) ==
  doc.trigger # NoTrigger =>
      /\ doc.onboard[doc.trigger.chan].enabled
      /\ doc.trigger.win % doc.agg = 0

\* The row a request reads; later requests may have replaced it when it writes.
findByDeviceId == stored.doc

UpdateRead(t, patch) ==
  /\ update[t] = NoUpdate
  /\ update' = [update EXCEPT ![t] =
        [next |-> "check", patch |-> patch, merged |-> mergePatch(findByDeviceId, patch)]]
  /\ UNCHANGED <<sensor, stored>>

\* 400 or on to the write: the sensors are read, the triggers checked on the merge.
UpdateCheck(t) ==
  /\ update[t].next = "check"
  /\ update' = [update EXCEPT ![t] =
        IF checkSensors(update[t].merged) /\ checkTriggers(update[t].merged)
        THEN [update[t] EXCEPT !.next = "write"] ELSE NoUpdate]
  /\ UNCHANGED <<sensor, stored>>

\* mutant: the patch is merged into the row as it is at the write
Written_IntoCurrentRow(t) == mergePatch(stored.doc, update[t].patch)

\* What the UPDATE writes: the whole document that was validated.
Written(t) == update[t].merged

\* The trigger set_device_config_version counts the changes.
UpdateWrite(t) ==
  /\ update[t].next = "write"
  /\ Written(t) = stored.doc \/ stored.version < MaxVersion
  /\ stored' = [doc |-> Written(t),
                version |-> stored.version + (IF Written(t) = stored.doc THEN 0 ELSE 1)]
  /\ update' = [update EXCEPT ![t] = NoUpdate]
  /\ UNCHANGED sensor

SensorStep ==
  \/ \E s \in SensorIds :
       \/ \E owner \in {"mine", "other"}, type \in Channels : SensorCreate(s, owner, type)
       \/ \E type \in Channels : SensorUpdate(s, type)
       \/ SensorDelete(s)
  \/ SensorRead

ConfigStep ==
  \/ \E t \in ConfigThreads :
       \/ \E patch \in Patches : UpdateRead(t, patch)
       \/ UpdateCheck(t)
       \/ UpdateWrite(t)
  \/ ConfigGet

ConfigNext == SensorStep \/ ConfigStep

ConfigSpec == ConfigInit /\ [][ConfigNext]_configVars

-----------------------------------------------------------------------------
\* The stored document's trigger fits the rest of it, though patches of
\* different keys are checked against documents read at different times: the
\* firmware rejects a configuration that does not fit as a whole
\* (DeviceConfigService::checkTriggers).
StoredIsValid ==
  stored.doc.trigger # NoTrigger =>
    /\ stored.doc.onboard[stored.doc.trigger.chan].enabled
    /\ stored.doc.trigger.win % stored.doc.agg = 0
=============================================================================
