SPECIFICATION Spec
CONSTANTS
  Slots = {s1, s2}
  Calls = {"start", "warn", "resume", "stop", "exclude", "include", "record", "panel", "byhand", "lease"}
  PauseDays = 2
  Quota <- MCQuota
  Week = 3
  WeekMax = 2
  MaxDate = 5
  MaxRuns = 2
  MaxCalls = 5
CHECK_DEADLOCK FALSE
INVARIANTS PlanKept
PROPERTIES OnlyPeopleEndPauses WeeklyLimitKept
SYMMETRY MCSymmetry
