\* Two runs, the first of which may die or outlive its lease, and one failing call.
SPECIFICATION FairSpec
CONSTANTS
  None = None
  Attempts = 1
  MaxRounds = 2
  MaxSpend = 1
  MaxRank = 0
  Parallel = FALSE
  HasForge = TRUE
  Prunes = TRUE
  Overlap = TRUE
  MaxRuns = 2
  MaxCrashes = 1
  MaxFaults = 1
  MaxStops = 0
\* A task that has ended stops for good.
CHECK_DEADLOCK FALSE

  
PROPERTIES
  JobIsWorkedOff
