\* Two keys; a key is deleted that older versions of lie on two levels.
CONSTANTS
  a = a
  b = b
  DELETED_FLAG = DELETED_FLAG
  None = None
  Keys = {1, 2}
  Vals = {a}
  DeletableKeys = {1}
  BUFFER_CAPACITY = 1
  INITIAL_LEVEL_CAPACITY = 1
  SIZE_RATIO = 2
  MAX_LEVELS = 3
  Capacity <- MCCapacity
SPECIFICATION LifetimeSpec
CHECK_DEADLOCK FALSE
INVARIANT DeletedStaysDeleted
