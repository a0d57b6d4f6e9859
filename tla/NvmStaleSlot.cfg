CONSTANTS
  nr_main_segments = 2
  nr_back_segments = 2
  kBlocksPerSegment = 1
  kRecordsPerCacheLine = 1
  Values = {v1, v2}
  Junk = Junk
  Null = Null
  Threads = {t1}
  Cleaner = Cleaner
  kMaxFlushBlocks = 2
  kNumBufferedAddresses = 2
  kBitWidth = 1
  kSegmentLocks = 2
  Ranges <- SingleBlocks
  MaxRuns = 2
SPECIFICATION Spec
INVARIANT RecoverySafe
