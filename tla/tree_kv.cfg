\* Three keys, two never deleted; a buffer of two and levels of 2, 2 and 2.
CONSTANTS
  a = a
  b = b
  DELETED_FLAG = DELETED_FLAG
  None = None
  Keys = {1, 2, 3}
  Vals <- MCVals
  DeletableKeys = {1}
  BUFFER_CAPACITY = 2
  INITIAL_LEVEL_CAPACITY = 2
  SIZE_RATIO = 1
  MAX_LEVELS = 3
  Capacity <- MCCapacity
SPECIFICATION KVSpec
CHECK_DEADLOCK FALSE
SYMMETRY Symmetry
PROPERTY ImplementsKVMap
