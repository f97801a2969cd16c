SPECIFICATION MapSpec
CONSTANTS
  a = a  p1 = p1  p2 = p2  p3 = p3
  ID <- MCID  NoID = NoID  Absent = Absent  Junk = Junk
  Version <- MCVersion  Size <- MCSize
  Proc <- MCProc  NoProc = NoProc
INVARIANTS MapTypeOK Exclusion
PROPERTIES ReadersSeeStableData WriterAdmitted ReaderAdmitted
