SPECIFICATION Spec
CONSTANTS
  s1 = s1  s2 = s2  c1 = c1  c2 = c2  Nil = Nil
  Setter <- TwoSetters  Client <- TwoClients
  SecondLength = 3  MaxTime = 6  MaxSets = 3
INVARIANTS TypeOK DateMatchesData
PROPERTIES NewerIsSent DatesNeverGoBack ClientsCatchUp
