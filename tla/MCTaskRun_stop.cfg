\* One run and a /stop.
SPECIFICATION Spec
CONSTANTS
  None = None
  Attempts = 1
  MaxRounds = 2
  MaxSpend = 3
  MaxRank = 0
  Parallel = TRUE
  HasForge = TRUE
  Prunes = TRUE
  Overlap = FALSE
  MaxRuns = 1
  MaxCrashes = 0
  MaxFaults = 0
  MaxStops = 1
\* A task that has ended stops for good.
CHECK_DEADLOCK FALSE
PROPERTIES
  StopIsHonoured
