CONSTANTS
  Attributes = 2
SPECIFICATION FairSpec
INVARIANTS
  InitBeforeUse
PROPERTIES
  ConfigSettled
  WatchdogIsFed
  FliesWithoutLog
  LostReportsAreMadeGood
