SPECIFICATION Spec
CONSTANTS
  Projects = {"p", "q", "r", "s"}
  Titles = {"a", "b", "c"}
  MaxDepth = 1
  MaxMembers = 2
  MaxGeneration = 4
  Callers = {"one", "two"}
  Capturers = {"one"}
  MaxVersion = 3
  MaxProposals = 2
  MaxBootstraps = 2
  MaxEvents = 2
  WindowLimit = 2
  Scenarios <- MCScenarios
INVARIANTS TypeOK Ledger AsReviewed Resolvable EventOnce
PROPERTIES FreshAuthority FrozenWhileDeleted
CHECK_DEADLOCK FALSE
