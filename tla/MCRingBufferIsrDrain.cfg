CONSTANTS
  Byte <- MCByte
  Capacity = 3
  MaxPush = 4
  PopSizes <- MCPopSizes
  MaxBytes = 9
SPECIFICATION DrainSpec
INVARIANT NothingLost
PROPERTY WholeFrames
