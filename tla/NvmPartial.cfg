CONSTANTS
  nr_main_segments = 3
  nr_back_segments = 2
  kBlocksPerSegment = 1
  kRecordsPerCacheLine = 4
  Values = {v1}
  Junk = Junk
  Null = Null
  Threads = {t1, t2}
  Cleaner = Cleaner
  kMaxFlushBlocks = 4
  kNumBufferedAddresses = 2
  kBitWidth = 1
  kSegmentLocks = 2
  Ranges <- SingleBlocks
  MaxRuns = 1
SPECIFICATION Spec
INVARIANTS TypeOK BindingInverse DirtyIsBound
SYMMETRY Symmetry
