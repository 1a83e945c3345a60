SPECIFICATION Spec
CONSTANTS
  Capture = Capture
  MaxConns = 1
  Requests = {"heartbeat"}
  MaxRequests = 1
  Parts = 2
INVARIANT SendLoopLocked
CHECK_DEADLOCK FALSE
