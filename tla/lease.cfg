SPECIFICATION Spec
CONSTANTS
  Accounts = {a1, a2}
  Workers = {w1, w2}
  LeaseTime = 1
  RunTime = 2
  CoolOff = 1
  Rest = 1
  Gap = 1
  MaxReports = 1
  MaxLeft = 1
  Nobody = Nobody
SYMMETRY Symmetry
INVARIANTS OneLiveLease TwoBrowsersOnlyPastLease
PROPERTIES CoolOffKept RestKept
