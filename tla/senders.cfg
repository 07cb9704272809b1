SPECIFICATION Spec
CONSTANTS
  Senders = {a, b}
  Pass = Pass
  Singles = {i1}
  Replies = {r1}
  Checks = {k1, k2}
  Reviews = {v1, v2}
  Allow <- MCAllow
  DomainLimit = 2
  Public = FALSE
  Calls = {"active", "paused", "retired", "domain", "stage", "ceiling"}
  MaxCalls = 2
  MaxDay = 3
  MaxQueue = 3
  MaxOverlaps = 1
  MaxFaults = 1
CHECK_DEADLOCK FALSE
INVARIANTS DayAllowance OneAfterStop LiftedStaysLifted OneStepADay
SYMMETRY Swaps
CONSTRAINT Stories
