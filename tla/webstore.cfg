SPECIFICATION Spec
CONSTANTS
  a = a  b = b  h1 = h1  h2 = h2  r = r
  ID <- MCID  NoID = NoID  Absent = Absent  Junk = Junk
  Version <- MCVersion  Size <- MCSize
  Proc <- MCProc  NoProc = NoProc
  Handler <- MCHandler  Refresher = r
  Malformed = Malformed  NoEntry = NoEntry
  Request <- StoreKinds  Row <- FilterRows  Tables <- TwoHalves
  Pages <- MCPages  MaxEdits = 1  MaxCrashes = 0
INVARIANTS OffersFromOneMap OnlyStoreHoldsAndWaits
PROPERTIES ImplementsService UsesTheMap EveryStepAdvances
CHECK_DEADLOCK FALSE
