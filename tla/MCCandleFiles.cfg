\* Everybody who writes or reads the candle files, two at a time, with kills.
SPECIFICATION Spec
CONSTANTS
  t1 = t1
  t2 = t2
  Threads <- MCThreads
  Scenes <- MCScenes
  MaxFaults = 1
  MaxRuns = 2
SYMMETRY Symmetric
INVARIANTS
  TypeOK
  TrainedOnPrepared
  
CHECK_DEADLOCK FALSE
