SPECIFICATION Spec
CONSTANTS
  w1 = w1
  w2 = w2
  v1 = v1
  v2 = v2
  Fds = {3, 4}
  Works = {w1}
  Invokes = {}
INVARIANTS
  LoadIsActiveRequests
\* A client that has been stopped does nothing more.
CHECK_DEADLOCK FALSE
