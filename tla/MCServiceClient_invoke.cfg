SPECIFICATION FairSpec
CONSTANTS
  w1 = w1
  w2 = w2
  v1 = v1
  v2 = v2
  Fds = {3, 4}
  Works = {}
  Invokes = {v1}
INVARIANTS
  SendsOnOwnLink
  InvokeResultComplete
PROPERTIES
  InvokeEnds
\* A client that has been stopped does nothing more.
CHECK_DEADLOCK FALSE
