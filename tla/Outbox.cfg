CONSTANTS
  Items <- MCItems
  Lane <- MCOneLane
  Kind <- MCMixed
  Broken <- MCFirst
  Processes = {p1, p2}
  MaxFaults = 1
  MaxCrashes = 1
  MaxCreds = 2
SPECIFICATION Spec
SYMMETRY MCSymmetry
INVARIANTS
  TypeOK
  NothingLost
  OrderKept
PROPERTIES
  MismatchHeld
CHECK_DEADLOCK FALSE
