\* Three attempts, one of which runs a command, a base branch that moves once, one fault.
SPECIFICATION FairSpec
CONSTANTS
  a1 = a1
  a2 = a2
  a3 = a3
  Attempts = {a1, a2, a3}
  Commanders = {a1}
  None = None
  MaxVersion = 2
  MaxFaults = 1
\* Attempts come to an end.
CHECK_DEADLOCK FALSE
INVARIANTS
  CheckoutIsFresh
  NothingLeftBehind
  StraysHaveACause
PROPERTIES
  CommandsReturnOrCrash
