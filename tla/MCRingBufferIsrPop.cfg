CONSTANTS
  Byte <- MCByte
  Capacity = 2
  MaxPush = 3
  PopSizes <- MCPopSizes
  MaxBytes = 4
SPECIFICATION PopSpec
CHECK_DEADLOCK FALSE
INVARIANT NothingLost
