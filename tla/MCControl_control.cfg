SPECIFICATION Spec
CONSTANTS
  Farms = {g1}
  Fields = {f1}
  FieldThreads = {q1}
  DeviceIds = {d1, d2}
  DeviceThreads = {t1, t2}
  MaxKey = 1
  SensorIds = {s1}
  Channels = {"temp", "humidity"}
  Windows = {600, 1200}
  ConfigThreads = {u1, u2}
  MaxVersion = 4
  RuleIds = {r1, r2}
  Inputs = {i1}
  MaxPriority = 1
  MaxRules = 2
  Admins = {a1, a2}
  Timeouts = {5000}
  ConfigAdmins = {a1, a2}
  Services = {v1, v2}
  Capabilities = {c1, c2}
  MaxConcurrent = 2
  Times = {100}
  MaxRequests = 2
  Selectors = {x1}
  SensorTypes = {"humidity", "moisture", "pressure", "other"}
  Values = {0, 1000, 25000}
INVARIANTS
  ControlTypeOK
  NotFoundIsTrue
  DeviceHasCredential
  StoredIsValid
  RoutesSaved
  ConfigSaved
  ConvertedBack
PROPERTIES
  RevokedIsFinal
  SelectsLive
CHECK_DEADLOCK FALSE
