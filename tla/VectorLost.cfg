SPECIFICATION MCSpec
CONSTANTS
  Memories = {1, 2}
  Contents = {"x"}
  Categories = {}
  Operations = {}
  Reviewers = {}
  MaxLifecycle = 0
  Generations = {"g"}
  Callers = {"v"}
  Layouts = {1, 2}
  MaxCalls = 3
  MaxStray = 0
  MaxPauses = 2
INVARIANT IndexedFound
CHECK_DEADLOCK FALSE
