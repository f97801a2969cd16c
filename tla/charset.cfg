SPECIFICATION Spec
CONSTANTS
  a = a  b = b  f = f  g = g
  ID <- MCID  NoID = NoID  Absent = Absent  Junk = Junk
  Version <- MCVersion  Size <- MCSize
  Fingerprint <- MCFingerprint  NoFP = NoFP  Widevine = b
  Limit = 3  Body <- MCBody  Query <- MCQuery  Stock <- MCStock  MaxStores = 3
INVARIANTS JSONIsAccepted
