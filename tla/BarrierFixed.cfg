CONSTANTS
  Threads = {t1, t2, t3, t4}
  Groups <- TwoTeams
SPECIFICATION Spec
INVARIANTS TypeOK BarrierTogether LeaderAlone OvertakenAtTheEnd
PROPERTY CheckpointReturns
