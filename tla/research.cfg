SPECIFICATION ResearchFairSpec
CONSTANTS
  Job = {j1, j2}
  Prospect = {q1}
  Stages = 2
  MaxResumes = 1
  Desk = Desk
  MaxCrashes = 3
  MaxLost = 1
CHECK_DEADLOCK FALSE
INVARIANTS OneJobEach RestartCost
PROPERTIES FileNeverBack JobEnds
