\* Three levels of two entries each; four commands that merge, two kills.
CONSTANTS
  DELETED_FLAG = DELETED_FLAG
  None = None
  NoFile = NoFile
  Lost = Lost
  Keys = {1, 2}
  Vals = {v}
  BUFFER_CAPACITY = 2
  MAX_LEVELS = 3
  Capacity <- MCCapacity
  MaxCommands = 4
  MaxKills = 2
SPECIFICATION Spec
CHECK_DEADLOCK FALSE
INVARIANTS TypeOK SizesWithinCapacity FilesExist OnlyMergedRead
PROPERTIES ImplementsDurableRuns ComesBack
