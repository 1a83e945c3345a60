SPECIFICATION Spec
CONSTANTS
  Capture = Capture
  MaxConns = 2
  Requests = {"heartbeat"}
  MaxRequests = 1
  Parts = 2
INVARIANTS TypeOK ExclusiveUnlessReinit PacketsInOrder AcksKeepTheirBuffer
CHECK_DEADLOCK FALSE
