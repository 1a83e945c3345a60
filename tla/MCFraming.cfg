SPECIFICATION Spec
CONSTANTS
  Base = 5
  Mark = 1
  Verify = 2
  End = 4
  Cmds = {3}
  Data <- MCData
  MaxUnread = 6
INVARIANTS TypeOK DetectIsScan AnalyUndoesMakeup
CHECK_DEADLOCK FALSE
