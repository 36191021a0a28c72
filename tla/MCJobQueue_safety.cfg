\* Two processes with a runner each, one task, leases of two ticks.
SPECIFICATION Spec
CONSTANTS
  r1 = r1
  r2 = r2
  Tasks = {t1}
  Runners = {r1, r2}
  Processes <- TwoProcesses
  NULL = NULL
  Lease = 2
  BaseDelay = 1
  MaxDelay = 3
  MaxTime = 5
  MaxFaults = 2
INVARIANTS
  LeaseExclusive
  NothingLost
PROPERTIES
  RunningLeaseKept
