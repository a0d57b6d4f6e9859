CONSTANTS
  nr_threads = 2
  nr_blocks = 2
  Values = {v1, Junk}
  Junk = Junk
  NoBlock = NoBlock
  kMaxFlushBlocks = 2
  kBitWidth = 2
  kSegmentLocks = 2
  log_capacity = 3
  Ranges <- SingleBlocks
  MaxRuns = 2
SPECIFICATION Spec
INVARIANTS TypeOK SafeUnlessOvertaken LogComplete TurnHeld
