\* Two handlers at a time, two tasks, three faults.
SPECIFICATION Spec
CONSTANTS
  Handlers = {h1, h2}
  MaxTasks = 2
  MaxFaults = 3
SYMMETRY Symmetry
INVARIANTS
  DuplicatesHaveACause
  WaitingTasksHaveJobs
CHECK_DEADLOCK FALSE
