SPECIFICATION FairSpec
CONSTANTS
  a = a
  b = b
  h1 = h1
  h2 = h2
  i1 = i1
  p1 = p1
  Services = {a}
  Fds = {1, 2}
  HttpReqs = {h1}
  BridgeReqs = {}
  InvokeReqs = {i1}
  NoService = NoService
  MaxClosing = 1
  PromptEof = TRUE
INVARIANTS
  NoOrphanRequest
PROPERTIES
  EveryHttpCallReturns
  TableDrains
\* Services need not come back and every request is issued once.
CHECK_DEADLOCK FALSE
