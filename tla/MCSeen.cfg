CONSTANTS
  k0 = k0
  k1 = k1
  k2 = k2
  k3 = k3
  k4 = k4
  Keys <- KeysMC
  ZeroKey <- k0
  SEEN_CAPACITY = 3

SPECIFICATION BSpec

INVARIANTS
  RTypeOK
  ContainsAgreesWithInsert
  BackendsAgree
  RemembersMostRecent

PROPERTIES
  NewOnlyWhenDisplaced
