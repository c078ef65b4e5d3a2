SPECIFICATION NotifyFairSpec
CONSTANTS
  a = a
  b = b
  h1 = h1
  h2 = h2
  i1 = i1
  p1 = p1
  Services = {a}
  Fds = {1, 2}
  HttpReqs = {h1}
  BridgeReqs = {p1}
  InvokeReqs = {}
  NoService = NoService
  MaxClosing = 1
  PromptEof = TRUE
PROPERTIES
  ImplementsCalls
  OutcomeWakesWaiter
INVARIANT
  AnsweredSlotReclaimed
\* Services need not come back and every request is issued once.
CHECK_DEADLOCK FALSE
