CONSTANTS
  NumChannels = 3
  Role <- MCRole
  Pulses = 2
  MaxShell = 2
SPECIFICATION PyroSpec
INVARIANTS
  NoPadLeftHigh
  ChargesInTurn
