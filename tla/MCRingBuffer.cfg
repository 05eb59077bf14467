CONSTANTS
  Byte = {b1, b2}
  Capacity = 3
  MaxPush = 5
  PopSizes <- MCPopSizes
SPECIFICATION Spec
INVARIANT TypeOK
INVARIANT NeverLapped
PROPERTY ImplementsFifo
