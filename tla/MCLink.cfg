SPECIFICATION FairSpec
CONSTANTS
  Parts = 2
  Room = 3
  RingSize = 3
  Plates = {"p", "q"}
  Blank = "none"
  UpRoom = 1
  MaxOwed = 2
  MaxPlates = 2
INVARIANTS TypeOK StreamWhole OnlyJamIsCircle
PROPERTY HeartbeatsAnswered PlateReachesWindow
CHECK_DEADLOCK FALSE
