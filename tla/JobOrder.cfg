CONSTANTS
  Workers = {w1, w2}
  Jobs <- MCOrderJobs
  Sources <- MCOrderSources
  Manifest <- MCOrderManifest
  Group <- MCGroup
  Segments <- MCOrderSegments
  WorkerId <- MCWorkerId
  MaxAttempts = 2
  Concurrency = 1
  DailyLimit = 1
  MaxRequeues = 0
SPECIFICATION Spec
CONSTRAINT MCFewTurns
SYMMETRY MCSymmetry
INVARIANTS
  OneCurrent
PROPERTIES
  WorkOnce
  NewerNotDisplaced
CHECK_DEADLOCK FALSE
