\* Up to three puts of two keys, with gets, ranges and deletes between them.
CONSTANTS
  DELETED_FLAG = DELETED_FLAG
  None = None
  nobody = nobody
  RandomKeys = {1, 2}
  RandomVals = {v, DELETED_FLAG}
  Settings <- MCSettings
  MAX_OLD_PUTS_POOL_SIZE = 2
  MAX_OLD_GETS_POOL_SIZE = 1
  SizeofKey = 1
SPECIFICATION Spec
CHECK_DEADLOCK FALSE
INVARIANTS TypeOK AnswersPreserved NothingUnset DeletesKnownKeys
PROPERTY GeneratorEnds
