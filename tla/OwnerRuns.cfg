CONSTANTS
  Workers = {"v", "w"}
  Jobs <- MCJobs
  Sources <- MCSources
  Manifest <- MCManifest
  Group <- MCGroup
  Segments <- MCSegments
  WorkerId <- MCWorkerId
  MaxAttempts = 1
  Concurrency = 2
  DailyLimit = 9
  MaxRequeues = 1
  Runs = {1}
  RunOf <- MCRunOf
  CallLimit = 2
  MaxChanges = 1
SPECIFICATION RunsSpec
INVARIANT RunBudget
PROPERTIES GrantedResults RunSettles
CHECK_DEADLOCK FALSE
