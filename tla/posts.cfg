SPECIFICATION Spec
CONSTANTS
  a = a  b = b  h1 = h1  h2 = h2  r = r
  ID <- MCID  NoID = NoID  Absent = Absent  Junk = Junk
  Version <- MCVersion  Size <- MCSize
  Proc <- MCProc  NoProc = NoProc
  Handler <- MCHandler  Refresher = r
  Malformed = Malformed  NoEntry = NoEntry
  Request <- PostKinds  Row <- AllRows  Tables <- OnlyHalf
  Pages <- MCPages  MaxEdits = 1  MaxCrashes = 0
INVARIANTS TypeOK AnswersFromOneMap KnownStaysAnswered
PROPERTIES ImplementsService
