CONSTANTS
  NumFields = 2
  Worst = 3
  Threads <- MCThreads
  Prio <- MCPrio
  Owns <- MCOwns
  Says <- MCSays
SPECIFICATION StatusFairSpec
INVARIANTS
  NeverBetterThanWorst
  GreenMeansOk
PROPERTIES
  ErrorShows
