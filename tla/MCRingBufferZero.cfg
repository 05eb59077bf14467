CONSTANTS
  Byte = {b1, b2}
  Capacity = 3
  MaxPush = 5
  PopSizes <- MCZeroSizes
SPECIFICATION Spec
PROPERTY ImplementsFifo
