\* Two rounds of one attempt, a first run that may die, a /stop at any moment, one failing call.
SPECIFICATION Spec
CONSTANTS
  None = None
  Attempts = 1
  MaxRounds = 2
  MaxSpend = 3
  MaxRank = 0
  Parallel = TRUE
  HasForge = TRUE
  Prunes = TRUE
  Overlap = FALSE
  MaxRuns = 2
  MaxCrashes = 1
  MaxFaults = 1
  MaxStops = 1
\* A task that has ended stops for good.
CHECK_DEADLOCK FALSE
INVARIANTS
  SettledWhenJobIsGone
  NoBranchLeaks
  RecordedPullRequestIsOpen
  RoundsBounded
  PullRequestsBounded
