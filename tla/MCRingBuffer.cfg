SPECIFICATION Spec
CONSTANTS
  Byte = {0, 1}
  Capacity = 3
INVARIANT TypeOK
PROPERTY ImplementsFifo
