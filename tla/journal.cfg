SPECIFICATION Spec
CONSTANTS
  Person = {p1, p2}
  Readers = {r1}
  Faults = {"crash", "nosync", "race", "disk"}
  MaxEvents = 3
  MaxFaults = 3
CHECK_DEADLOCK FALSE
INVARIANTS AckedOnDisk OneTruth Forgotten
SYMMETRY MCSymmetry
