CONSTANTS
  s1 = s1
  s2 = s2
  b1 = b1
  b2 = b2
  c1 = c1
  Stays = {s1, s2}
  Blocks = {b1, b2}
  Closures = {c1}
  LastDay = 3
  Details <- ThreeKinds
  None = None
SYMMETRY Symmetry
SPECIFICATION MCSpec
INVARIANTS NoNightSoldTwice LedgerFollowsStay DerivedRowsAgree
PROPERTIES OnlyReactivationMisleads WarningsClearByCoverage
