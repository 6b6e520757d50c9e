CONSTANTS
  Drivers <- MCDrivers
SPECIFICATION FairSpec
INVARIANTS
  NoWakeupLost
  ReadyListIntact
PROPERTIES
  DriversKeepReading
