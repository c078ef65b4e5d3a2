----------------------------- MODULE MCControl -----------------------------
(* Components that share no state, one at a time: `part` says which one a   *)
(* behaviour is about, so that their state spaces add up instead of         *)
(* multiplying.                                                             *)
EXTENDS Devices, DeviceConfigs, EventRouter, GatewayConfig, ServiceRegistry, UnitConversion

VARIABLE part

vars == <<part, devVars, configVars, routeVars, gatewayConfigVars, registryVars, unitVars>>

ControlTypeOK ==
  /\ CatalogTypeOK /\ DevicesTypeOK /\ ConfigTypeOK /\ RouterTypeOK
  /\ GatewayConfigTypeOK /\ RegistryTypeOK /\ UnitTypeOK

Init ==
  /\ part \in {"devices", "configs", "router", "gateway", "registry", "units"}
  /\ DevInit /\ RouterInit /\ GatewayConfigInit /\ RegistryInit
  /\ ConfigInit /\ (part # "configs" => \A s, t \in SensorIds : sensor[s].type = sensor[t].type
                                                     /\ sensor[s].type = CHOOSE c \in Channels : TRUE)
  /\ UnitInit /\ (part # "units" => measured = CHOOSE m \in [unit : SensorUnits, type : SensorTypes, value : Values] : TRUE)

DeviceSteps ==
  /\ part = "devices" /\ DevNext
  /\ UNCHANGED <<part, configVars, routeVars, gatewayConfigVars, registryVars, unitVars>>
DocumentSteps ==
  /\ part = "configs" /\ ConfigNext
  /\ UNCHANGED <<part, devVars, routeVars, gatewayConfigVars, registryVars, unitVars>>
RouterSteps ==
  /\ part = "router" /\ RouterNext
  /\ UNCHANGED <<part, devVars, configVars, gatewayConfigVars, registryVars, unitVars>>
GatewayConfigSteps ==
  /\ part = "gateway" /\ GatewayConfigNext
  /\ UNCHANGED <<part, devVars, configVars, routeVars, registryVars, unitVars>>
RegistrySteps ==
  /\ part = "registry" /\ RegistryNext
  /\ UNCHANGED <<part, devVars, configVars, routeVars, gatewayConfigVars, unitVars>>
UnitSteps ==
  /\ part = "units" /\ UnitNext
  /\ UNCHANGED <<part, devVars, configVars, routeVars, gatewayConfigVars, registryVars>>

Next == DeviceSteps \/ DocumentSteps \/ RouterSteps \/ GatewayConfigSteps \/ RegistrySteps \/ UnitSteps

Spec == Init /\ [][Next]_vars
=============================================================================
