SPECIFICATION Spec
CONSTANTS
  Size = 3
  Byte = {1, 2}
  Junk = 0
  Data <- MCData
  Requests <- MCRequests
INVARIANTS TypeOK IndicesAgree OnlyWrittenBytes
PROPERTY ImplementsByteQueue
