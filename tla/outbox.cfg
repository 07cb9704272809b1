SPECIFICATION Spec
CONSTANTS
  Threads = {"t"}
  Firsts = {"f"}
  Words = {w1, w2}
  Asks <- MCAsks
  Slots = {s1, s2}
  PerDay = 2
  PerSession = 2
  MaxWaiting = 2
  Expire = 1
  Attempts = 2
  MaxReplies = 3
CONSTRAINT Few
INVARIANTS OneWaitingCopy DayLimit NotTwiceInARow
PROPERTIES NotAfterTakenBack
SYMMETRY MCSymmetry
