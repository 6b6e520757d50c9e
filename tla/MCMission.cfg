CONSTANTS
  Estimates <- MCEstimates
  ArmTime = 1
  IgnitionAccel = 0
  BurnoutTime = 1
  ApogeeTime = 3
  MainAltitude = 1
  MainTime = 3
  LandingTime = 8
  FireTime = 2
  FireLag = 1
  MaxLag = 1
  LaunchBy = 4
  MaxTime = 30
SPECIFICATION FairSpec
INVARIANTS
  DeploymentOrder
  BarometerTrust
  DrogueByTimeout
  MainByTimeout
PROPERTIES
  ImplementsPlan
  LaunchEndsLanded
