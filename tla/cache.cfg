SPECIFICATION HealthySpec
CONSTANTS
  a = a  b = b  h1 = h1  h2 = h2  r = r
  ID <- MCID  NoID = NoID  Absent = Absent  Junk = Junk
  Version <- MCVersion  Size <- MCSize
  Proc <- MCProc  NoProc = NoProc
  Handler <- MCHandler  Refresher = r
  Malformed = Malformed  NoEntry = NoEntry
  Request <- OnlyAll  Row <- FilterRows  Tables <- FullOrHalf
  Pages <- MCPages  MaxEdits = 1  MaxCrashes = 1
INVARIANTS CacheWithinMap RefreshComplete
PROPERTIES RefreshPublishesMap ConvergedStays QuietPublishConverges EveryRefreshAdvances UpdatesPropagate CacheConverges ImplementsService
