CONSTANTS
  PayloadSize = 2
  Bytes <- MCBytes
  Payloads <- MCPayloads
  Checksums <- MCChecksums
  LineSize = 2
  MaxFrames = 3
  MaxDamage = 2
SPECIFICATION FairSpec
INVARIANTS
  ExactUntilDamaged
  ResyncsAfterOneFrame
PROPERTIES
  FramesArrive
