SPECIFICATION FairSpec
CONSTANTS
  Recogn = Recogn
  MaxStarts = 2
INVARIANTS TypeOK ExclusiveUnlessReset ConnectedIsConnected FirstSessionSurvives
PROPERTY DisconnectEnds ConnectSucceeds
CHECK_DEADLOCK FALSE
