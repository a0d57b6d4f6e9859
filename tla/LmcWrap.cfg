CONSTANTS
  Threads = {t1, t2}
  nr_blocks = 2
  Values = {v1, v2}
  Junk = Junk
  kMaxFlushBlocks = 2
  kSegmentLocks = 2
  kMaxEpoch = 2
  Ranges <- SomeRanges
SPECIFICATION Spec
INVARIANTS TypeOK SafeOutsideWrap NoStaleTag
PROPERTY CheckpointDurable
SYMMETRY Symmetry
