CONSTANTS
  nr_regions = 3
  kMaxFlushRegions = 2
  kBitWidth = 2
  Engines = {"mprotect", "dirtybit"}
  nr_threads = 2
  Teams <- OneOrMany
  Touched <- Overlapping
  Values = {v1, v2}
  Junk = Junk
  Null = Null
SPECIFICATION Spec
INVARIANTS SafeUnlessBroken CleanIsSaved WritableIsListed
PROPERTY RestartTogether
SYMMETRY Symmetry
