CONSTANTS
  nr_segments = 3
SPECIFICATION Spec
INVARIANTS NoCopyDuringCommit
PROPERTIES CheckpointStarts BackgroundEnds CloseEnds
