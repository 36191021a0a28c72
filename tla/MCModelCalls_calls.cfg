\* Two callers share a provider, a third has its own; one repair, one retry.
SPECIFICATION FairSpec
CONSTANTS
  c1 = c1
  c2 = c2
  c3 = c3
  shared = shared
  own = own
  Callers = {c1, c2, c3}
  Providers = {shared, own}
  ProviderOf <- Asks
  Concurrency <- Configured
  MaxRetries <- Retries
  Repairs = 1
  RetryAfters <- Named
  MaxCalls = 1
  None = None
\* Callers have a last call.
CHECK_DEADLOCK FALSE
INVARIANTS
  InFlightBounded
  CallCostsBounded
  LedgerGapIsExplained
PROPERTIES
  EveryCallReturns
