SPECIFICATION Spec
CONSTANTS
  a = a  b = b  h1 = h1  h2 = h2  r = r
  ID <- MCID  NoID = NoID  Absent = Absent  Junk = Junk
  Version <- MCVersion  Size <- MCSize
  Proc <- MCProc  NoProc = NoProc
  Handler <- MCHandler  Refresher = r
  Malformed = Malformed  NoEntry = NoEntry
  Request <- NoStoreLoad  Row <- OneRow  Tables <- TwoHalves
  Pages <- OnePage  MaxEdits = 0  MaxCrashes = 0
PROPERTIES EveryRequestAnswered EveryRefreshEnds
