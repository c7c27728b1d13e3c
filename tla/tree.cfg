\* Three keys, one of them ever deleted; levels of 1, 2 and 4 entries.
CONSTANTS
  a = a
  b = b
  DELETED_FLAG = DELETED_FLAG
  None = None
  Keys = {1, 2, 3}
  Vals <- MCVals
  DeletableKeys = {1}
  BUFFER_CAPACITY = 1
  INITIAL_LEVEL_CAPACITY = 1
  SIZE_RATIO = 2
  MAX_LEVELS = 3
  Capacity <- MCCapacity
SPECIFICATION Spec
SYMMETRY Symmetry
INVARIANTS TypeOK LiveKeysRead SizeWithinCapacity IndexMatches StatsAgreeWithGet RangeAgreesWithGet
PROPERTIES AnswersStable DurableAnswersKept
