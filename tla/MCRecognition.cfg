SPECIFICATION FairSpec
CONSTANTS
  Length = 7
  Images <- MCImages
  Chars = {"A", "B", "C", "D", "E", "F"}
  Junk = "Junk"
  Garbage <- MCGarbage
  NaN = NaN
  Blank = Blank
INVARIANTS TypeOK LeftToRight PlateOfOneImage ShowsWholePlate
PROPERTY PlatesShown
CHECK_DEADLOCK FALSE
