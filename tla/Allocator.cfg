CONSTANTS
  kSuperBlockSize = 65536
  kMaxSizeClasses = 40
  Threads = {t1, t2}
  t1 = t1
  t2 = t2
  Null = Null
  Data = Data
  nr_superblocks = 4
  max_count = 2
  kMinSuperBlocks = 2
  kStampModulus = 4
  LargeSizes = {2}
  MaxAlone = 7
  MaxCalls = 9
SPECIFICATION Spec
INVARIANTS TypeOK BlocksAccounted SuperblocksAccounted
PROPERTIES CallsReturn
CHECK_DEADLOCK FALSE
