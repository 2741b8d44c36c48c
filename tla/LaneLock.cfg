CONSTANTS
  Processes = {p1, p2, p3}
  MaxCrashes = 2
SPECIFICATION FairSpec
INVARIANTS
  TypeOK
  LiveOwnerKept
  QuietExclusive
PROPERTIES
  DeadLaneRecovers
