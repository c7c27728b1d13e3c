\* Two keys and two levels, the last of which the metadata file has no size of.
CONSTANTS
  a = a
  b = b
  DELETED_FLAG = DELETED_FLAG
  None = None
  Keys = {1, 2}
  Vals = {a}
  DeletableKeys = {1}
  BUFFER_CAPACITY = 1
  INITIAL_LEVEL_CAPACITY = 1
  SIZE_RATIO = 2
  MAX_LEVELS = 2
  Capacity <- MCCapacity
SPECIFICATION Spec

PROPERTY NothingWiped
