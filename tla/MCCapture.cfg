SPECIFICATION FairSpec
CONSTANTS
  QUE_BUF_MAX_NUM = 3
  MaxLost = 3
INVARIANTS TypeOK FailureLeavesNothing UsesOwnBuffer BuffersConserved
PROPERTY FramesGoOn
CHECK_DEADLOCK FALSE
