\* One process with two runners; time never stops (ShiftTick).
SPECIFICATION FairSpec
CONSTANTS
  r1 = r1
  r2 = r2
  Tasks = {t1}
  Runners = {r1, r2}
  Processes <- OneProcess
  NULL = NULL
  Lease = 1
  BaseDelay = 1
  MaxDelay = 2
  MaxTime = 4
  MaxFaults = 2
PROPERTIES
  EveryJobFinishes
