SPECIFICATION ClientSpec
CONSTANTS
  a = a
  ID <- MCID  NoID = NoID  Absent = Absent  Junk = Junk
  Version <- MCVersion  Size <- MCSize
  MaxChanges = 3
INVARIANTS NeverReturns
PROPERTIES ClientCatchesUp
CHECK_DEADLOCK FALSE
