CONSTANTS
  Ranks = {r1, r2}
  Engines = {"NvmInst", "Hybrid"}
  kEpochModulus = 4
  MaxCalls = 3
SPECIFICATION Spec
INVARIANTS EpochsClose SameCheckpoint
PROPERTY BarrierEnds
CHECK_DEADLOCK FALSE
