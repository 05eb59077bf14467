CONSTANTS
  Byte <- MCByte
  Capacity = 2
  MaxPush = 3
  PopSizes <- MCPopSizes
  MaxBytes = 5
SPECIFICATION PushSpec
CHECK_DEADLOCK FALSE
INVARIANT NothingLost
