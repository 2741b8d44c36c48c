SPECIFICATION Spec
CONSTANTS
  Hosts = {"codex1", "codex2", "openclaw", "hermes"}
  NoHost = "nobody"
  Calls = {"take1", "take2", "hook1", "take3", "hook3", "build1", "build2", "llm1", "llm2"}
  Tools = {"take1", "take2", "take3"}
  Hooks = {"hook1", "hook3"}
  OpenClawBuilds = {"build1", "build2"}
  HermesCalls = {"llm1", "llm2"}
  HostOf <- MCHostOf
  Parties <- MCParties
  MaxTries = 2
  MaxEvents = 1
  MaxFaults = 1
INVARIANTS
  TypeOK
  OneInFlight
  NoDoubleHold
  GivenOnce
  AcknowledgedGiven
  EndsOnce
  ScopeBacked
PROPERTIES
  DeliveredOnce
CHECK_DEADLOCK FALSE
