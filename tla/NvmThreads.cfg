CONSTANTS
  nr_main_segments = 2
  nr_back_segments = 2
  kBlocksPerSegment = 1
  kRecordsPerCacheLine = 2
  Values = {v1, v2}
  Junk = Junk
  Null = Null
  Threads = {t1, t2}
  Cleaner = Cleaner
  kMaxFlushBlocks = 2
  kNumBufferedAddresses = 1
  kBitWidth = 1
  kSegmentLocks = 2
  Ranges <- SingleBlocks
  MaxRuns = 1
SPECIFICATION Spec
INVARIANTS RecoverySafe MemoryIsProgram
PROPERTY CheckpointDurable
SYMMETRY Symmetry
