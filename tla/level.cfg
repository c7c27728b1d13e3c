\* One level of up to five entries in segments of two; keys between and beyond
\* those stored are searched for.
CONSTANTS
  DELETED_FLAG = DELETED_FLAG
  None = None
  NotRead = NotRead
  Uninitialized = Uninitialized
  nullptr = nullptr
  Keys = {2, 4, 6, 8, 10}
  Probes = {1, 2, 3, 4, 5, 6, 7, 8, 9, 10, 11}
  Vals = {v}
  FENCE_PTR_EVERY_K_ENTRIES = 2
  bits_per_char = 2
  salt_ = {1, 3}
  hash_ap <- MCHash
  optimal_size <- MCOptimalSize
SPECIFICATION Spec
INVARIANTS TypeOK WritesMergedRun FilterCovers BitsInTable FencesWithinArray
  FencesAsConstructed FindsVersion OneReadOnDisk ReadsFit RangeReadsAll
PROPERTIES LockReleased ImplementsRunStore
