\* One client shuts the server down, another one puts.
CONSTANTS
  a = a
  b = b
  DELETED_FLAG = DELETED_FLAG
  None = None
  NoClient = NoClient
  NoFile = NoFile
  Clients = {c1, c2}
  Keys = {1, 2}
  Vals = {a, b}
  DeletableKeys = {1}
  BUFFER_CAPACITY = 1
  INITIAL_LEVEL_CAPACITY = 1
  SIZE_RATIO = 2
  MAX_LEVELS = 2
  Capacity <- MCCapacity
  InitialVals <- MCInitialVals
  Lines <- LeaveLines
  MaxCommands = 2
SPECIFICATION Spec
CHECK_DEADLOCK FALSE
INVARIANT NothingLeftInMemory
