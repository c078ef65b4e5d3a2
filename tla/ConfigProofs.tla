---------------------------- MODULE ConfigProofs ----------------------------
(***************************************************************************)
(* Safety of the two configurations, for every set of threads and values:  *)
(* the document of a weather station (DeviceConfigs) and the gateway's own *)
(* configuration with its file (GatewayConfig).                            *)
(***************************************************************************)
EXTENDS DeviceConfigs, GatewayConfig, TLAPS

USE DEF configVars, gatewayConfigVars

-----------------------------------------------------------------------------
\* The station's document.  What is written is what was validated, so beside
\* the stored document every document about to be written fits as a whole.
UpdateInv ==
  /\ update = [t \in ConfigThreads |-> update[t]]
  /\ \A t \in ConfigThreads : update[t].next = "write" => checkTriggers(update[t].merged)

DocumentInv == ConfigTypeOK /\ UpdateInv /\ checkTriggers(stored.doc)

\* The default document is a document, and fits.
LEMMA DefaultFits == DefaultDoc \in Docs /\ checkTriggers(DefaultDoc)
  <1>1. DefaultDoc.onboard \in Onboards /\ NoTrigger \in Triggers
    BY DEF DefaultDoc, Onboards, Entries, Triggers
  <1>2. QED
    BY <1>1, DeviceConfigsAssumption DEF DefaultDoc, Docs, checkTriggers

\* A patch of a document is a document: the keys are onboard, agg and trigger.
LEMMA MergeIsDocument ==
  ASSUME NEW doc \in Docs, NEW patch \in Patches
  PROVE  mergePatch(doc, patch) \in Docs
  <1>1. CASE \E o \in Onboards : patch = [key |-> "onboard", doc |-> [DefaultDoc EXCEPT !.onboard = o]]
    BY <1>1 DEF Docs, mergePatch, DefaultDoc
  <1>2. CASE \E w \in Windows : patch = [key |-> "agg", doc |-> [DefaultDoc EXCEPT !.agg = w]]
    BY <1>2 DEF Docs, mergePatch, DefaultDoc
  <1>3. CASE \E g \in Triggers : patch = [key |-> "trigger", doc |-> [DefaultDoc EXCEPT !.trigger = g]]
    BY <1>3 DEF Docs, mergePatch, DefaultDoc
  <1>4. QED
    BY <1>1, <1>2, <1>3 DEF Patches

\* The first documents are checked ones.
LEMMA DocumentInit == ConfigInit => DocumentInv
  <1> SUFFICES ASSUME ConfigInit PROVE DocumentInv
    OBVIOUS
  <1>1. sensor \in [SensorIds -> [of : {"new", "mine", "other", "gone"}, type : Channels]]
    BY DEF ConfigInit
  <1>2. stored \in [doc : Docs, version : 1..MaxVersion] /\ checkTriggers(stored.doc)
    BY DefaultFits, DeviceConfigsAssumption DEF ConfigInit
  <1>3. update = [t \in ConfigThreads |-> NoUpdate]
    BY DEF ConfigInit
  <1>4. \A t \in ConfigThreads : update[t] = NoUpdate /\ update[t].next = "none"
    BY <1>3 DEF NoUpdate
  <1>5. QED
    BY <1>1, <1>2, <1>3, <1>4 DEF DocumentInv, ConfigTypeOK, UpdateInv

\* No merge, check or write, in whatever order two updates take them, breaks it.
LEMMA DocumentStep == DocumentInv /\ [ConfigNext]_configVars => DocumentInv'
  <1> SUFFICES ASSUME DocumentInv, [ConfigNext]_configVars PROVE DocumentInv'
    OBVIOUS
  <1>0. /\ ConfigTypeOK /\ UpdateInv /\ checkTriggers(stored.doc)
        /\ sensor \in [SensorIds -> [of : {"new", "mine", "other", "gone"}, type : Channels]]
        /\ stored \in [doc : Docs, version : 1..MaxVersion]
        /\ \A t \in ConfigThreads :
             \/ update[t] = NoUpdate
             \/ update[t] \in [next : {"check", "write"}, patch : Patches, merged : Docs]
        /\ update = [t \in ConfigThreads |-> update[t]]
    BY DEF DocumentInv, ConfigTypeOK, UpdateInv
  <1>n. NoUpdate.next = "none" /\ NoUpdate.next # "write" /\ NoUpdate.next # "check"
    BY DEF NoUpdate
  <1>f. ASSUME stored' = stored,
               NEW t \in ConfigThreads, NEW u, update' = [update EXCEPT ![t] = u],
               u = NoUpdate \/ u \in [next : {"check", "write"}, patch : Patches, merged : Docs],
               u.next = "write" => checkTriggers(u.merged),
               UNCHANGED sensor
        PROVE  DocumentInv'
    <2>1. \A v \in ConfigThreads : update'[v] = IF v = t THEN u ELSE update[v]
      BY <1>0, <1>f
    <2>2. update' = [v \in ConfigThreads |-> update'[v]]
      BY <1>0, <1>f
    <2>3. checkTriggers(stored.doc)'
      BY <1>0, <1>f DEF checkTriggers
    <2>4. UpdateInv'
      BY <1>0, <1>f, <2>1, <2>2 DEF UpdateInv, checkTriggers
    <2>5. ConfigTypeOK'
      BY <1>0, <1>f, <2>1 DEF ConfigTypeOK
    <2>6. QED
      BY <2>3, <2>4, <2>5 DEF DocumentInv
  <1>1. ASSUME NEW s \in SensorIds, NEW as \in [of : {"new", "mine", "other", "gone"}, type : Channels],
               WriteSensor(s, as), UNCHANGED <<stored, update>>
        PROVE  DocumentInv'
    <2>1. sensor' \in [SensorIds -> [of : {"new", "mine", "other", "gone"}, type : Channels]]
      BY <1>0, <1>1 DEF WriteSensor
    <2>2. QED
      BY <1>0, <1>1, <2>1 DEF DocumentInv, ConfigTypeOK, UpdateInv, checkTriggers
  <1>2. CASE SensorStep
    <2>1. CASE \E s \in SensorIds, owner \in {"mine", "other"}, type \in Channels : SensorCreate(s, owner, type)
      BY <2>1, <1>1 DEF SensorCreate
    <2>2. CASE \E s \in SensorIds, type \in Channels : SensorUpdate(s, type)
      BY <2>2, <1>0, <1>1 DEF SensorUpdate
    <2>3. CASE \E s \in SensorIds : SensorDelete(s)
      BY <2>3, <1>0, <1>1 DEF SensorDelete
    <2>4. CASE SensorRead
      BY <2>4, <1>0 DEF SensorRead, DocumentInv, ConfigTypeOK, UpdateInv, checkTriggers
    <2>5. QED
      BY <1>2, <2>1, <2>2, <2>3, <2>4 DEF SensorStep
  <1>3. ASSUME NEW t \in ConfigThreads, NEW patch \in Patches, UpdateRead(t, patch)
        PROVE  DocumentInv'
    <2> DEFINE u == [next |-> "check", patch |-> patch, merged |-> mergePatch(findByDeviceId, patch)]
    <2>1. mergePatch(findByDeviceId, patch) \in Docs
      BY <1>0, MergeIsDocument DEF findByDeviceId
    <2>2. u \in [next : {"check", "write"}, patch : Patches, merged : Docs] /\ u.next # "write"
      BY <2>1
    <2>3. update' = [update EXCEPT ![t] = u] /\ UNCHANGED <<sensor, stored>>
      BY <1>3 DEF UpdateRead
    <2> HIDE DEF u
    <2>4. QED
      BY <2>2, <2>3, <1>f
  <1>4. ASSUME NEW t \in ConfigThreads, UpdateCheck(t)
        PROVE  DocumentInv'
    <2> DEFINE u == IF checkSensors(update[t].merged) /\ checkTriggers(update[t].merged)
                    THEN [update[t] EXCEPT !.next = "write"] ELSE NoUpdate
    <2>1. update' = [update EXCEPT ![t] = u] /\ UNCHANGED <<sensor, stored>>
      BY <1>4 DEF UpdateCheck
    <2>2. update[t] \in [next : {"check", "write"}, patch : Patches, merged : Docs]
      BY <1>0, <1>4, <1>n DEF UpdateCheck
    <2>3. u = NoUpdate \/ u \in [next : {"check", "write"}, patch : Patches, merged : Docs]
      BY <2>2
    <2>4. u.next = "write" => checkTriggers(u.merged)
      <3>1. CASE u = NoUpdate
        BY <3>1, <1>n
      <3>2. CASE u # NoUpdate
        <4>1. u = [update[t] EXCEPT !.next = "write"] /\ checkTriggers(update[t].merged)
          BY <3>2
        <4>2. u.merged = update[t].merged
          BY <4>1, <2>2
        <4>3. QED
          BY <4>1, <4>2
      <3>3. QED
        BY <3>1, <3>2
    <2> HIDE DEF u
    <2>5. QED
      BY <2>1, <2>3, <2>4, <1>f
  <1>5. ASSUME NEW t \in ConfigThreads, UpdateWrite(t)
        PROVE  DocumentInv'
    <2>1. update[t] \in [next : {"check", "write"}, patch : Patches, merged : Docs]
          /\ update[t].next = "write"
      BY <1>0, <1>5, <1>n DEF UpdateWrite
    <2>2. stored'.doc = update[t].merged /\ stored'.doc \in Docs
      BY <1>5, <2>1 DEF UpdateWrite, Written
    <2>3. stored' \in [doc : Docs, version : 1..MaxVersion]
      BY <1>0, <1>5, <2>1, DeviceConfigsAssumption DEF UpdateWrite, Written
    <2>4. checkTriggers(stored.doc)'
      BY <1>0, <2>1, <2>2 DEF UpdateInv, checkTriggers
    <2>5. \A v \in ConfigThreads : update'[v] = IF v = t THEN NoUpdate ELSE update[v]
      BY <1>0, <1>5 DEF UpdateWrite
    <2>6. update' = [v \in ConfigThreads |-> update'[v]]
      BY <1>0, <1>5 DEF UpdateWrite
    <2>7. UpdateInv'
      BY <1>0, <1>n, <2>5, <2>6 DEF UpdateInv, checkTriggers
    <2>8. UNCHANGED sensor
      BY <1>5 DEF UpdateWrite
    <2>9. ConfigTypeOK'
      BY <1>0, <2>3, <2>5, <2>8 DEF ConfigTypeOK
    <2>10. QED
      BY <2>4, <2>7, <2>9 DEF DocumentInv
  <1>6. CASE UNCHANGED configVars
    BY <1>6, <1>0 DEF DocumentInv, ConfigTypeOK, UpdateInv, checkTriggers
  <1>7. QED
    BY <1>2, <1>3, <1>4, <1>5, <1>6 DEF ConfigNext, ConfigStep, ConfigGet

\* It holds in every state of the component.
LEMMA DocumentInvariant == ConfigSpec => []DocumentInv
  BY DocumentInit, DocumentStep, PTL DEF ConfigSpec

\* DeviceConfigs is type-correct: in particular what is stored is always a whole
\* document, whatever patches were merged into what was read (DeviceConfigService).
THEOREM DocumentTypeCorrect == ConfigSpec => []ConfigTypeOK
  <1>1. DocumentInv => ConfigTypeOK
    BY DEF DocumentInv
  <1>2. QED
    BY <1>1, DocumentInvariant, PTL

\* The stored document's trigger always fits the rest of it, for every number
\* of requests that patch it at the same time (DeviceConfigService::checkTriggers).
THEOREM StoredFits == ConfigSpec => []StoredIsValid
  <1>1. DocumentInv => StoredIsValid
    BY DEF DocumentInv, StoredIsValid, checkTriggers
  <1>2. QED
    BY <1>1, DocumentInvariant, PTL

-----------------------------------------------------------------------------
\* The gateway's configuration.  With the types go those of a PATCH under way.
EditorInv ==
  /\ editor = [e \in ConfigAdmins |-> editor[e]]
  /\ \A e \in ConfigAdmins : editor[e].next = "set" =>
       editor[e].body \in PatchBodies /\ editor[e].base \in Settings

\* Of the file: unless saves overlapped, one handler at most is past its copy,
\* and when no newer copy is pending its copy is the configuration, which the
\* empty file will hold; without any handler the file holds it already.
InFile(e) == editor[e].next \in {"open", "write"}
FileInv ==
  ~configLost =>
    /\ \A d, e \in ConfigAdmins : InFile(d) /\ InFile(e) => d = e
    /\ \A e \in ConfigAdmins : editor[e].next = "write" => configFile = EmptyFile
    /\ (\A e \in ConfigAdmins : editor[e].next # "copy") =>
         \A e \in ConfigAdmins : InFile(e) => editor[e].copy = Config
    /\ (\A e \in ConfigAdmins : editor[e].next \in {"none", "set"}) =>
         FromFile(configFile) = Config

SettingsInv == GatewayConfigTypeOK /\ EditorInv /\ FileInv

\* What a PATCH starts from, and what it sets, are settings.
LEMMA EffectiveIsSettings ==
  ASSUME override \in Settings \cup {None}
  PROVE  forCapability \in Settings
  BY DEF Settings, None, forCapability, Or, Defaults, Strategies

\* What a patch makes of settings are settings.
LEMMA PatchIsSettings ==
  ASSUME NEW e \in ConfigAdmins, editor[e].body \in PatchBodies, editor[e].base \in Settings
  PROVE  Patched(e) \in Settings
  BY DEF Settings, PatchBodies, Patched, Or, Strategies

\* At the start table and file agree.
LEMMA SettingsInit == GatewayConfigInit => SettingsInv
  <1> SUFFICES ASSUME GatewayConfigInit PROVE SettingsInv
    OBVIOUS
  <1>1. /\ override = None /\ feature = TRUE /\ configFile = EmptyFile /\ configLost = FALSE
        /\ editor = [e \in ConfigAdmins |-> NoEdit]
    BY DEF GatewayConfigInit
  <1>2. \A e \in ConfigAdmins : editor[e].next = "none" /\ editor[e].copy = InitialConfig
    BY <1>1 DEF NoEdit
  <1>3. InitialConfig \in Documents /\ EmptyFile \in [is : {"empty", "torn", "json"}, doc : Documents]
    BY DEF InitialConfig, EmptyFile, Documents
  <1>4. FromFile(configFile) = Config
    BY <1>1 DEF FromFile, EmptyFile, InitialConfig, Config
  <1>5. GatewayConfigTypeOK
    BY <1>1, <1>2, <1>3 DEF GatewayConfigTypeOK
  <1>6. EditorInv /\ FileInv
    BY <1>1, <1>2, <1>4 DEF EditorInv, FileInv, InFile
  <1>7. QED
    BY <1>5, <1>6 DEF SettingsInv

\* One handler moves from its place: what else is needed for the types.
LEMMA EditorMoves ==
  ASSUME SettingsInv, NEW e \in ConfigAdmins, NEW n, editor' = [editor EXCEPT ![e] = n],
         n.next \in {"none", "set", "copy", "open", "write"}, n.copy \in Documents,
         n.next = "set" => n.body \in PatchBodies /\ n.base \in Settings,
         override' \in Settings \cup {None}, feature' \in BOOLEAN, configLost' \in BOOLEAN,
         configFile' \in [is : {"empty", "torn", "json"}, doc : Documents]
  PROVE  /\ GatewayConfigTypeOK' /\ EditorInv'
         /\ editor'[e] = n
         /\ \A d \in ConfigAdmins \ {e} : editor'[d] = editor[d]
  <1>1. \A d \in ConfigAdmins : editor'[d] = IF d = e THEN n ELSE editor[d]
    BY DEF SettingsInv, EditorInv
  <1>2. editor' = [d \in ConfigAdmins |-> editor'[d]]
    BY DEF SettingsInv, EditorInv
  <1>3. EditorInv'
    BY <1>1, <1>2 DEF SettingsInv, EditorInv
  <1>4. GatewayConfigTypeOK'
    BY <1>1 DEF SettingsInv, GatewayConfigTypeOK
  <1>5. QED
    BY <1>1, <1>3, <1>4

\* A change of the configuration is followed by a copy.
LEMMA ChangeIsPending ==
  ASSUME SettingsInv, NEW e \in ConfigAdmins, NEW n, editor' = [editor EXCEPT ![e] = n],
         n.next = "copy", n.copy \in Documents, editor[e].next \in {"none", "set"},
         override' \in Settings \cup {None}, feature' \in BOOLEAN,
         UNCHANGED <<configFile, configLost>>
  PROVE  SettingsInv'
  <1>1. /\ configFile' \in [is : {"empty", "torn", "json"}, doc : Documents]
        /\ configLost' \in BOOLEAN
    BY DEF SettingsInv, GatewayConfigTypeOK
  <1>2. /\ GatewayConfigTypeOK' /\ EditorInv'
        /\ editor'[e] = n
        /\ \A d \in ConfigAdmins \ {e} : editor'[d] = editor[d]
    BY <1>1, EditorMoves
  <1>3. FileInv'
    BY <1>2 DEF SettingsInv, FileInv, InFile
  <1>4. QED
    BY <1>2, <1>3 DEF SettingsInv

\* No step of a save, a change or a restart breaks it.
LEMMA SettingsStep == SettingsInv /\ [GatewayConfigNext]_gatewayConfigVars => SettingsInv'
  <1> SUFFICES ASSUME SettingsInv, [GatewayConfigNext]_gatewayConfigVars PROVE SettingsInv'
    OBVIOUS
  <1>0. /\ override \in Settings \cup {None} /\ feature \in BOOLEAN
        /\ configFile \in [is : {"empty", "torn", "json"}, doc : Documents]
        /\ configLost \in BOOLEAN
        /\ \A e \in ConfigAdmins :
             /\ editor[e].next \in {"none", "set", "copy", "open", "write"}
             /\ editor[e].copy \in Documents
        /\ editor = [e \in ConfigAdmins |-> editor[e]]
        /\ \A e \in ConfigAdmins : editor[e].next = "set" =>
             editor[e].body \in PatchBodies /\ editor[e].base \in Settings
        /\ FileInv
    BY DEF SettingsInv, GatewayConfigTypeOK, EditorInv
  <1>n. /\ NoEdit.next = "none" /\ NoEdit.copy \in Documents /\ InitialConfig \in Documents
        /\ Config \in Documents /\ EmptyFile \in [is : {"empty", "torn", "json"}, doc : Documents]
        /\ TornFile \in [is : {"empty", "torn", "json"}, doc : Documents]
    BY <1>0 DEF NoEdit, InitialConfig, Documents, Config, EmptyFile, TornFile
  <1>1. ASSUME NEW e \in ConfigAdmins, NEW body \in PatchBodies, PatchRead(e, body)
        PROVE  SettingsInv'
    <2> DEFINE n == [next |-> "set", body |-> body, base |-> forCapability, copy |-> InitialConfig]
    <2>1. /\ n.next = "set" /\ n.copy \in Documents
          /\ n.body \in PatchBodies /\ n.base \in Settings
      BY <1>0, <1>n, EffectiveIsSettings
    <2>2. editor' = [editor EXCEPT ![e] = n] /\ UNCHANGED <<override, feature, configFile, configLost>>
          /\ editor[e].next = "none"
      BY <1>1 DEF PatchRead
    <2> HIDE DEF n
    <2>3. /\ GatewayConfigTypeOK' /\ EditorInv' /\ editor'[e] = n
          /\ \A d \in ConfigAdmins \ {e} : editor'[d] = editor[d]
      BY <1>0, <2>1, <2>2, EditorMoves
    <2>4. Config' = Config
      BY <2>2 DEF Config
    <2>5. FileInv'
      BY <1>0, <2>1, <2>2, <2>3, <2>4 DEF FileInv, InFile, FromFile
    <2>6. QED
      BY <2>3, <2>5 DEF SettingsInv
  <1>2. ASSUME NEW e \in ConfigAdmins, PatchSet(e)
        PROVE  SettingsInv'
    <2> DEFINE n == [NoEdit EXCEPT !.next = "copy"]
    <2>1. n.next = "copy" /\ n.copy \in Documents
      BY <1>n DEF NoEdit
    <2>2. /\ editor' = [editor EXCEPT ![e] = n] /\ UNCHANGED <<feature, configFile, configLost>>
          /\ editor[e].next = "set" /\ override' = Patched(e)
      BY <1>2 DEF PatchSet
    <2> HIDE DEF n
    <2>3. override' \in Settings \cup {None} /\ feature' \in BOOLEAN
      BY <1>0, <2>2, PatchIsSettings
    <2>4. QED
      BY <2>1, <2>2, <2>3, ChangeIsPending
  <1>3. ASSUME NEW e \in ConfigAdmins, editor[e].next = "none", editor' = [editor EXCEPT ![e].next = "copy"],
               override' \in Settings \cup {None}, feature' \in BOOLEAN,
               UNCHANGED <<configFile, configLost>>
        PROVE  SettingsInv'
    <2> DEFINE n == [editor[e] EXCEPT !.next = "copy"]
    <2>1. n.next = "copy" /\ n.copy \in Documents
      BY <1>0
    <2>2. editor' = [editor EXCEPT ![e] = n]
      BY <1>3
    <2> HIDE DEF n
    <2>3. QED
      BY <1>3, <2>1, <2>2, ChangeIsPending
  <1>4. ASSUME NEW e \in ConfigAdmins, RemoveOverride(e)
        PROVE  SettingsInv'
    BY <1>0, <1>3, <1>4 DEF RemoveOverride
  <1>5. ASSUME NEW e \in ConfigAdmins, NEW enabled \in BOOLEAN, SetFeature(e, enabled)
        PROVE  SettingsInv'
    BY <1>0, <1>3, <1>5 DEF SetFeature, setFeature
  <1>6. ASSUME NEW e \in ConfigAdmins, SaveCopies(e)
        PROVE  SettingsInv'
    <2> DEFINE n == [editor[e] EXCEPT !.next = "open", !.copy = Config]
    <2>1. n.next = "open" /\ n.copy = Config /\ n.copy \in Documents
      BY <1>0, <1>n
    <2>2. /\ editor' = [editor EXCEPT ![e] = n] /\ UNCHANGED <<override, feature, configFile>>
          /\ editor[e].next = "copy"
          /\ configLost' = \E d \in ConfigAdmins \ {e} : InFile(d)
      BY <1>6 DEF SaveCopies, InFile
    <2>2a. configLost' \in BOOLEAN
      BY <2>2
    <2> HIDE DEF n
    <2>3. /\ GatewayConfigTypeOK' /\ EditorInv' /\ editor'[e] = n
          /\ \A d \in ConfigAdmins \ {e} : editor'[d] = editor[d]
      BY <1>0, <2>1, <2>2, <2>2a, EditorMoves
    <2>4. Config' = Config
      BY <2>2 DEF Config
    <2>5. ASSUME ~configLost'
          PROVE  \A d \in ConfigAdmins \ {e} : ~InFile(d)'
      BY <2>2, <2>3, <2>5 DEF InFile
    <2>6. FileInv'
      BY <2>1, <2>3, <2>4, <2>5 DEF FileInv, InFile
    <2>7. QED
      BY <2>3, <2>6 DEF SettingsInv
  <1>7. ASSUME NEW e \in ConfigAdmins, SaveOpens(e)
        PROVE  SettingsInv'
    <2> DEFINE n == [editor[e] EXCEPT !.next = "write"]
    <2>1. n.next = "write" /\ n.copy = editor[e].copy /\ n.copy \in Documents
      BY <1>0, <1>7 DEF SaveOpens
    <2>2. /\ editor' = [editor EXCEPT ![e] = n] /\ UNCHANGED <<override, feature, configLost>>
          /\ editor[e].next = "open" /\ configFile' = EmptyFile
      BY <1>7 DEF SaveOpens
    <2> HIDE DEF n
    <2>3. /\ GatewayConfigTypeOK' /\ EditorInv' /\ editor'[e] = n
          /\ \A d \in ConfigAdmins \ {e} : editor'[d] = editor[d]
      BY <1>0, <1>n, <2>1, <2>2, EditorMoves
    <2>4. Config' = Config
      BY <2>2 DEF Config
    <2>5. FileInv'
      BY <1>0, <2>1, <2>2, <2>3, <2>4 DEF FileInv, InFile
    <2>6. QED
      BY <2>3, <2>5 DEF SettingsInv
  <1>8. ASSUME NEW e \in ConfigAdmins, SaveFails(e)
        PROVE  SettingsInv'
    <2>1. /\ editor' = [editor EXCEPT ![e] = NoEdit] /\ UNCHANGED <<override, feature, configFile>>
          /\ configLost'
      BY <1>8 DEF SaveFails
    <2>1a. configLost' \in BOOLEAN
      BY <1>8 DEF SaveFails
    <2>2. GatewayConfigTypeOK' /\ EditorInv'
      BY <1>0, <1>n, <2>1, <2>1a, EditorMoves
    <2>3. QED
      BY <2>1, <2>2 DEF SettingsInv, FileInv
  <1>9. ASSUME NEW e \in ConfigAdmins, SaveWrites(e)
        PROVE  SettingsInv'
    <2> DEFINE json == [is |-> "json", doc |-> editor[e].copy]
    <2>1. /\ editor' = [editor EXCEPT ![e] = NoEdit] /\ UNCHANGED <<override, feature, configLost>>
          /\ editor[e].next = "write"
          /\ configFile' \in {json} \cup (IF configFile = EmptyFile THEN {} ELSE {TornFile})
      BY <1>9, Zenon DEF SaveWrites
    <2>2. json \in [is : {"empty", "torn", "json"}, doc : Documents] /\ json.doc = editor[e].copy
      BY <1>0
    <2> HIDE DEF json
    <2>2a. configFile' = json \/ (configFile # EmptyFile /\ configFile' = TornFile)
      BY <2>1
    <2>3. /\ GatewayConfigTypeOK' /\ EditorInv' /\ editor'[e] = NoEdit
          /\ \A d \in ConfigAdmins \ {e} : editor'[d] = editor[d]
      BY <1>0, <1>n, <2>1, <2>2, <2>2a, EditorMoves
    <2>4. Config' = Config
      BY <2>1 DEF Config
    <2>5. ASSUME ~configLost'
          PROVE  configFile' = json /\ \A d \in ConfigAdmins : ~InFile(d)'
      BY <1>0, <1>n, <2>1, <2>2a, <2>3, <2>5 DEF FileInv, InFile
    <2>6. FileInv'
      BY <1>0, <1>n, <2>1, <2>2, <2>3, <2>4, <2>5 DEF FileInv, InFile, FromFile
    <2>7. QED
      BY <2>3, <2>6 DEF SettingsInv
  <1>10. ASSUME ConfigRestarts PROVE SettingsInv'
    <2>1. /\ override' = configFile.doc.override /\ feature' = configFile.doc.feature
          /\ editor' = [e \in ConfigAdmins |-> NoEdit] /\ UNCHANGED <<configFile, configLost>>
      BY <1>10 DEF ConfigRestarts, FromFile
    <2>2. configFile.doc \in Documents
      BY <1>0
    <2>3. override' \in Settings \cup {None} /\ feature' \in BOOLEAN /\ Config' = configFile.doc
      BY <2>1, <2>2 DEF Documents, Config
    <2>4. \A e \in ConfigAdmins : editor'[e] = NoEdit
      BY <2>1
    <2>5. GatewayConfigTypeOK' /\ EditorInv'
      BY <1>0, <1>n, <2>1, <2>3, <2>4 DEF GatewayConfigTypeOK, EditorInv
    <2>6. FileInv'
      BY <1>n, <2>1, <2>3, <2>4 DEF FileInv, InFile, FromFile
    <2>7. QED
      BY <2>5, <2>6 DEF SettingsInv
  <1>11. CASE UNCHANGED gatewayConfigVars
    BY <1>11, <1>0 DEF SettingsInv, GatewayConfigTypeOK, EditorInv, FileInv, InFile, Config, FromFile
  <1>12. QED
    BY <1>1, <1>2, <1>4, <1>5, <1>6, <1>7, <1>8, <1>9, <1>10, <1>11
       DEF GatewayConfigNext, ReadConfig, ReadFeatures

\* It holds in every state of the component.
LEMMA SettingsInvariant == GatewayConfigSpec => []SettingsInv
  BY SettingsInit, SettingsStep, PTL DEF GatewayConfigSpec

\* GatewayConfig is type-correct: whatever was written, torn or emptied, a restart
\* finds settings (GatewayConfig::loadFromFile).
THEOREM SettingsTypeCorrect == GatewayConfigSpec => []GatewayConfigTypeOK
  <1>1. SettingsInv => GatewayConfigTypeOK
    BY DEF SettingsInv
  <1>2. QED
    BY <1>1, SettingsInvariant, PTL

\* Once every handler is done, a restart finds the configuration as it is, unless
\* the last saves overlapped: for every number of administrators
\* (GatewayConfig::save).
THEOREM SettingsAreSaved == GatewayConfigSpec => []ConfigSaved
  <1>1. SettingsInv => ConfigSaved
    BY DEF SettingsInv, FileInv, ConfigSaved
  <1>2. QED
    BY <1>1, SettingsInvariant, PTL
=============================================================================
