CONSTANTS
  nr_main_segments = 3
  nr_back_segments = 2
  kBlocksPerSegment = 1
  kRecordsPerCacheLine = 2
  Values = {v1, v2}
  Junk = Junk
  Null = Null
  nr_threads = 2
  kMaxFlushBlocks = 2
  Ranges <- LastOrPair
SPECIFICATION Spec
INVARIANTS SafeUnlessBroken SidesDifferWherePending
PROPERTIES CheckpointDurable RestartsFromSnapshot
SYMMETRY Symmetry
