CONSTANTS
  Unit <- MCUnit
  States <- MCStates
  Matrices <- MCMatrices
  Dts <- MCDts
  Noise <- MCNoise
  Readings <- MCReadings
  Precisions <- MCPrecisions
  MaxCalls = 1
SPECIFICATION KalmanSpec
INVARIANTS
  PredictionAsDocumented
  AccelAsDocumented
