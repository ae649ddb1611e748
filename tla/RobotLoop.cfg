\* Requests one at a time, one restart, two symbols, every failure.
SPECIFICATION LiveSpec
CONSTANTS
  Handlers = {h1}
  Symbols = {s1, s2}
  MaxStarts = 2
  Faults = {"look", "order", "thread"}
INVARIANTS
  TypeOK
  NoCrash
  OneLateOrder
  EntriesAreSafe
PROPERTIES
  StoppedLoopsEnd
