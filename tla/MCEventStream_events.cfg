\* Five rows of two tasks, pages of two, two failing calls or broken connections.
SPECIFICATION FairSpec
CONSTANTS
  t1 = t1
  t2 = t2
  Tasks = {t1, t2}
  Watched = t1
  PageSize = 2
  MaxEvents = 5
  MaxFaults = 2
INVARIANTS
  NothingSkipped
  DeliveredUpToHorizon
PROPERTIES
  EverythingArrives
