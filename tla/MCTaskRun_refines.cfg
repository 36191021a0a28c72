\* One run of two parallel attempts over two rounds, which may die; nobody stops it.
SPECIFICATION Spec
CONSTANTS
  None = None
  Attempts = 2
  MaxRounds = 2
  MaxSpend = 6
  MaxRank = 1
  Parallel = TRUE
  HasForge = TRUE
  Prunes = TRUE
  Overlap = FALSE
  MaxRuns = 1
  MaxCrashes = 1
  MaxFaults = 1
  MaxStops = 0
\* A task that has ended stops for good.
CHECK_DEADLOCK FALSE
INVARIANTS
  ApprovedPatchIsShown
  DeliveredPatchStays
PROPERTIES
  ImplementsLifecycle
