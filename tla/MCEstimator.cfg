CONSTANTS
  Accels <- MCAccels
  Width = 2
  Transfers = 2
SPECIFICATION FairSpec
INVARIANTS
  ClockExact
  AtMostOneStalePressure
PROPERTIES
  ImplementsAtomicFilter
  EveryCallReturns
