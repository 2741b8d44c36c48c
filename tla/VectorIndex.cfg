SPECIFICATION MCSpec
CONSTANTS
  Memories = {1, 2, 3}
  Contents = {"x", "y"}
  Categories = {"c"}
  Operations = {1, 2}
  Reviewers = {"k"}
  MaxLifecycle = 2
  Generations = {"g", "h"}
  Callers = {v, w}
  Layouts = {1, 2}
  MaxCalls = 2
  MaxStray = 1
  MaxPauses = 1
INVARIANTS TypeOK QuietIndexed
PROPERTY AsSeen
SYMMETRY MCSymmetry
CHECK_DEADLOCK FALSE
