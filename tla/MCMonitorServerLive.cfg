SPECIFICATION FairSpec
CONSTANTS
  Capture = Capture
  MaxConns = 1
  Requests = {"heartbeat", "plate", "on", "off"}
  MaxRequests = 1
  Parts = 2
PROPERTY SendEnds RequestsHandled
CHECK_DEADLOCK FALSE
