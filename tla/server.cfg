\* Three clients, three commands in all, on any tree of three levels.
CONSTANTS
  a = a
  b = b
  DELETED_FLAG = DELETED_FLAG
  None = None
  NoClient = NoClient
  NoFile = NoFile
  Clients = {c1, c2, c3}
  Keys = {1, 2}
  Vals = {a, b}
  DeletableKeys = {1}
  BUFFER_CAPACITY = 1
  INITIAL_LEVEL_CAPACITY = 2
  SIZE_RATIO = 1
  MAX_LEVELS = 3
  Capacity <- MCCapacity
  InitialVals <- MCInitialVals
  Lines <- AllLines
  MaxCommands = 3
SPECIFICATION Spec
SYMMETRY ClientSymmetry
CHECK_DEADLOCK FALSE
INVARIANTS TypeOK LiveKeysRead GetAnswersCurrent RangeAnswersCurrent TempNotShared
PROPERTY StatsSeeOneState
