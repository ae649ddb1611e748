\* A pool of three threads, two pipelines and a prepare.
SPECIFICATION Spec
CONSTANTS
  Pipelines = {p1, p2}
  Prepares = {q1}
  Symbols = {s1, s2}
  NoSymbol = nosym
  Threads = 3
  Nobody = nobody
  Intervals = 2
INVARIANTS
  TypeOK
  TrainedOnVerified
  CallsAreCurrent
PROPERTIES
  PoolRecovers
CHECK_DEADLOCK FALSE
