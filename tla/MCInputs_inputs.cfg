\* One input of one part of the program.
SPECIFICATION MCSpec
CONSTANTS
  None = None
  Bot = Bot
  People <- MCPeople
  Labels <- MCLabels
  Providers <- MCProviders
  Names <- MCNames
  CommandLines <- MCCommands
  Images <- MCImages
  Paths <- MCPaths
  PathParts <- MCParts
  Symbols <- MCSymbols
  Characters <- MCCharacters
  Binary <- MCBinary
  Sites <- MCSites
  Deliveries <- MCDeliveries
  Rounds <- MCRounds
  Loads <- MCLoads
  Requests <- MCRequests
  Diffs <- MCDiffs
  Judgements <- MCJudgements
  Jobs <- MCJobs
  Scopings <- MCScopings
  EditLists <- MCEditLists
  Searches <- MCSearches
\* One call, and the probe is over.
CHECK_DEADLOCK FALSE
INVARIANTS
  AnswersAreFound
  EachPageIsListedOnce
  StartsAreAskedFor
  AsksAreHeard
  RolesAreSound
  ContextFits
  ScopeIsPathwise
  EditsDoAsTheySay
  GateJudgesAsAsked
