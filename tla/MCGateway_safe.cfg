SPECIFICATION Spec
CONSTANTS
  a = a
  b = b
  h1 = h1
  h2 = h2
  i1 = i1
  p1 = p1
  Services = {a, b}
  Fds = {1, 2}
  HttpReqs = {h1}
  BridgeReqs = {}
  InvokeReqs = {}
  NoService = NoService
  MaxClosing = 2
  PromptEof = FALSE
SYMMETRY ServiceSymmetry
INVARIANTS
  TypeOK
  NoOrphanRequest
  RegisteredIsConnected
  IdentifiedIsRegistered
  AnswerReported
  FinishedCallLeavesNothing
\* Services need not come back and every request is issued once.
CHECK_DEADLOCK FALSE
