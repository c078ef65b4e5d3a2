--------------------------- MODULE GatewayConfig ---------------------------
(***************************************************************************)
(* The gateway's configuration, the /config handlers that change it, and   *)
(* its file.  A change is made under the lock; save then takes a copy      *)
(* under the lock, and opens and writes the file without it.               *)
(*                                                                         *)
(* An override is a timeout, 0 where it says nothing, and a strategy;      *)
(* maxConcurrentRequests is handled as the strategy is.                    *)
(* One capability and one feature flag stand for them all.                 *)
(***************************************************************************)
EXTENDS Naturals

CONSTANTS Timeouts,      \* timeouts a body may name, in milliseconds
          ConfigAdmins   \* HTTP threads in a /config handler

ASSUME GatewayConfigAssumption == Timeouts \subseteq Nat \ {0}

VARIABLES override,    \* capabilities_[c], or None
          feature,     \* features_[f]
          configFile,  \* the file: [is, doc] with is "empty", "torn" (not JSON) or "json"
          configLost,  \* history: the last save overlapped another one or could not be made
          editor       \* the handler each thread is in

gatewayConfigVars == <<override, feature, configFile, configLost, editor>>

Strategies == {"round_robin", "least_loaded"}
Settings == [timeout : Timeouts \cup {0, 30000}, lb : Strategies]
None == [timeout |-> 0, lb |-> "none"]
Defaults == [timeout |-> 30000, lb |-> "least_loaded"]
Documents == [override : Settings \cup {None}, feature : BOOLEAN]
Config == [override |-> override, feature |-> feature]

InitialConfig == [override |-> None, feature |-> TRUE]
EmptyFile == [is |-> "empty", doc |-> InitialConfig]
TornFile == [is |-> "torn", doc |-> InitialConfig]

NoEdit == [next |-> "none", body |-> None, base |-> None, copy |-> InitialConfig]

GatewayConfigTypeOK ==
  /\ override \in Settings \cup {None} /\ feature \in BOOLEAN
  /\ configFile \in [is : {"empty", "torn", "json"}, doc : Documents]
  /\ configLost \in BOOLEAN
  /\ \A e \in ConfigAdmins :
       /\ editor[e].next \in {"none", "set", "copy", "open", "write"}
       /\ editor[e].copy \in Documents

GatewayConfigInit ==
  /\ override = None /\ feature = TRUE
  /\ configFile = EmptyFile /\ configLost = FALSE
  /\ editor = [e \in ConfigAdmins |-> NoEdit]

-----------------------------------------------------------------------------
\* What a member of the body or of an override says, or else the rest.
Or(x, nothing, y) == IF x = nothing THEN y ELSE x

forCapability == [timeout |-> Or(override.timeout, 0, Defaults.timeout),
                  lb      |-> Or(override.lb, "none", Defaults.lb)]

PatchBodies == [timeout : Timeouts \cup {0}, lb : Strategies \cup {"none"}]

\* PATCH /config/capabilities/{c} starts from the effective settings ...
PatchRead(e, body) ==
  /\ editor[e].next = "none"
  /\ editor' = [editor EXCEPT ![e] =
        [next |-> "set", body |-> body, base |-> forCapability, copy |-> InitialConfig]]
  /\ UNCHANGED <<override, feature, configFile, configLost>>

\* ... and sets an override that no longer follows the defaults; a body
\* without timeoutMs takes the timeout of an earlier PATCH away.
Patched(e) == [timeout |-> editor[e].body.timeout,
               lb      |-> Or(editor[e].body.lb, "none", editor[e].base.lb)]

PatchSet(e) ==
  /\ editor[e].next = "set"
  /\ override' = Patched(e)
  /\ editor' = [editor EXCEPT ![e] = [NoEdit EXCEPT !.next = "copy"]]
  /\ UNCHANGED <<feature, configFile, configLost>>

\* mutant: the handler does not save
RemoveOverride_Unsaved(e) ==
  /\ editor[e].next = "none"
  /\ override' = None
  /\ UNCHANGED <<feature, configFile, configLost, editor>>

\* DELETE /config/capabilities/{c}
RemoveOverride(e) ==
  /\ editor[e].next = "none"
  /\ override' = None
  /\ editor' = [editor EXCEPT ![e].next = "copy"]
  /\ UNCHANGED <<feature, configFile, configLost>>

setFeature(enabled) == feature' = enabled

\* PUT /config/features/{f}
SetFeature(e, enabled) ==
  /\ editor[e].next = "none"
  /\ setFeature(enabled)
  /\ editor' = [editor EXCEPT ![e].next = "copy"]
  /\ UNCHANGED <<override, configFile, configLost>>

\* GET /config, GET /config/features
ReadConfig == UNCHANGED gatewayConfigVars
ReadFeatures == UNCHANGED gatewayConfigVars

\* save: toJson, then the file.
SaveCopies(e) ==
  /\ editor[e].next = "copy"
  /\ editor' = [editor EXCEPT ![e].next = "open", ![e].copy = Config]
  /\ configLost' = \E d \in ConfigAdmins \ {e} : editor[d].next \in {"open", "write"}
  /\ UNCHANGED <<override, feature, configFile>>

SaveOpens(e) ==
  /\ editor[e].next = "open"
  /\ configFile' = EmptyFile
  /\ editor' = [editor EXCEPT ![e].next = "write"]
  /\ UNCHANGED <<override, feature, configLost>>

SaveFails(e) ==
  /\ editor[e].next = "open"
  /\ configLost' = TRUE
  /\ editor' = [editor EXCEPT ![e] = NoEdit]
  /\ UNCHANGED <<override, feature, configFile>>

SaveWrites(e) ==
  /\ editor[e].next = "write"
  /\ configFile' \in {[is |-> "json", doc |-> editor[e].copy]}
                      \cup (IF configFile = EmptyFile THEN {} ELSE {TornFile})
  /\ editor' = [editor EXCEPT ![e] = NoEdit]
  /\ UNCHANGED <<override, feature, configLost>>

\* fromFile: the defaults of the build, overlaid with what the file says.
FromFile(f) == f.doc

ConfigRestarts ==
  /\ override' = FromFile(configFile).override /\ feature' = FromFile(configFile).feature
  /\ editor' = [e \in ConfigAdmins |-> NoEdit]
  /\ UNCHANGED <<configFile, configLost>>

GatewayConfigNext ==
  \/ \E e \in ConfigAdmins :
       \/ \E body \in PatchBodies : PatchRead(e, body)
       \/ PatchSet(e)
       \/ RemoveOverride(e)
       \/ \E enabled \in BOOLEAN : SetFeature(e, enabled)
       \/ SaveCopies(e)
       \/ SaveOpens(e)
       \/ SaveFails(e)
       \/ SaveWrites(e)
  \/ ReadConfig
  \/ ReadFeatures
  \/ ConfigRestarts

GatewayConfigSpec == GatewayConfigInit /\ [][GatewayConfigNext]_gatewayConfigVars

-----------------------------------------------------------------------------
\* Once every handler is done, a restart finds the configuration as it is,
\* unless the last saves overlapped: the copy is taken before the file is
\* opened, so of two overlapping saves the older copy may be written last
\* (GatewayConfig::save).
ConfigSaved ==
  ~configLost /\ (\A e \in ConfigAdmins : editor[e].next \in {"none", "set"}) =>
     FromFile(configFile) = Config
=============================================================================
