CONSTANTS
  Processes = {p1, p2, p3}
  MaxCrashes = 1
SPECIFICATION Spec
SYMMETRY MCSymmetry
INVARIANTS
  LaneExclusive
