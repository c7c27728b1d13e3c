\* Two keys and two levels, the last of which range() does not visit.
CONSTANTS
  a = a
  b = b
  DELETED_FLAG = DELETED_FLAG
  None = None
  Keys = {1, 2}
  Vals = {a}
  DeletableKeys = {1}
  BUFFER_CAPACITY = 1
  INITIAL_LEVEL_CAPACITY = 1
  SIZE_RATIO = 2
  MAX_LEVELS = 2
  Capacity <- MCCapacity
SPECIFICATION LifetimeSpec
CHECK_DEADLOCK FALSE
INVARIANT RangeComplete
