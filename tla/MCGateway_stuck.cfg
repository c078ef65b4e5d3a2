SPECIFICATION FairSpec
CONSTANTS
  a = a
  b = b
  h1 = h1
  h2 = h2
  i1 = i1
  p1 = p1
  Services = {a}
  Fds = {1, 2}
  HttpReqs = {h1}
  BridgeReqs = {}
  InvokeReqs = {}
  NoService = NoService
  MaxClosing = 1
  PromptEof = FALSE
PROPERTIES
  EveryHttpCallReturns
\* Services need not come back and every request is issued once.
CHECK_DEADLOCK FALSE
