CONSTANTS
  Workers = {w1, w2}
  Jobs <- MCLeaseJobs
  Sources <- MCLeaseSources
  Manifest <- MCLeaseManifest
  Group <- MCGroup
  Segments <- MCLeaseSegments
  WorkerId <- MCWorkerId
  MaxAttempts = 2
  Concurrency = 1
  DailyLimit = 1
  MaxRequeues = 1
SPECIFICATION FairSpec
INVARIANTS
  TypeOK
  LeaseExclusive
  AttemptBound
  BudgetBound
  PublishedMeansSucceeded
PROPERTIES
  JobsSettle
  HolderUndisturbed
  ConfirmedNotBilledAgain
CHECK_DEADLOCK FALSE
