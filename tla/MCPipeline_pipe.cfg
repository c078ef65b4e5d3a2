SPECIFICATION MCSpec
CONSTANTS
  s1 = s1
  s2 = s2
  Readings = {1, 2}
  AtStart <- MCAtStart
  Changes <- MCChanges
  NoRow = NoRow
  Sensors = {s1, s2}
  SensorOf <- MCSensorOf
  Rows <- MCRows
  Poison = {1}
  Versions = {1}
  PackSize = 1
  MaxFaults = 2
INVARIANTS
  PipeTypeOK
  SpanCovers
PROPERTIES
  ImplementsStore
  KnownIsAccepted
