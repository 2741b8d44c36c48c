CONSTANTS
  Items <- MCTwo
  Lane <- MCOneLane
  Kind <- MCEvents
  Broken <- MCNone
  Processes = {p1}
  MaxFaults = 1
  MaxCrashes = 1
  MaxCreds = 1
SPECIFICATION FairSpec
PROPERTIES
  Delivered
CHECK_DEADLOCK FALSE
