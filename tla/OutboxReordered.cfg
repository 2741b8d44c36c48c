CONSTANTS
  Items <- MCItems
  Lane <- MCOneLane
  Kind <- MCEvents
  Broken <- MCNone
  Processes = {p1, p2}
  MaxFaults = 0
  MaxCrashes = 0
  MaxCreds = 1
SPECIFICATION Spec
SYMMETRY MCSymmetry
INVARIANTS
  InOrder
CHECK_DEADLOCK FALSE
