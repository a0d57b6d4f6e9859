CONSTANTS
  nr_main_segments = 2
  nr_back_segments = 2
  kBlocksPerSegment = 2
  kRecordsPerCacheLine = 2
  Values = {v1, v2}
  Junk = Junk
  Null = Null
  Threads = {t1}
  Cleaner = Cleaner
  kMaxFlushBlocks = 3
  kNumBufferedAddresses = 2
  kBitWidth = 2
  kSegmentLocks = 2
  Ranges <- BorderRanges
  MaxRuns = 1
SPECIFICATION Spec
PROPERTIES ImplementsSnapshot CheckpointDurable
SYMMETRY Symmetry
