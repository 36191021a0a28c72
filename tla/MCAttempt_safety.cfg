\* Three files, up to three turns, two of the files in scope.
SPECIFICATION FairSpec
CONSTANTS
  src = src
  test = test
  lock = lock
  Files = {src, test, lock}
  Contents = {"text", "gone"}
  Gone = "gone"
  Base <- MCBase
  Relevant = {src}
  InScope = {src, test}
  TestFiles = {test}
  EnforceScope = TRUE
  RequireTests = TRUE
  MaxFiles = 2
  MaxIterations = 2
  None = None
INVARIANTS
  PushedWasJudged
  PushedPassedTheGate
  PassedIsPushed
PROPERTIES
  AttemptEnds
CHECK_DEADLOCK FALSE
