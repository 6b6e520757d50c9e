CONSTANTS
  NumFields = 2
  Worst = 1
  Threads <- MCThreads
  Prio <- MCPrio
  Owns <- MCOwns
  Says <- MCSays
  Periodic = {"mission"}
  MaxDamage = 1
  TextLengths <- MCTextLengths
  InitLength = 2
  Wrap = 3
  BitsPerChar = 2
SPECIFICATION FairSpec
INVARIANTS
  SettledIsSent
  NothingPastTheEnd
PROPERTIES
  OkIsSounded
  SettledIsHeard
