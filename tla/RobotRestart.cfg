\* One handler, a stop and a start while the first loop sleeps.
SPECIFICATION Spec
CONSTANTS
  Handlers = {h1}
  Symbols = {s1}
  MaxStarts = 2
  Faults = {}
INVARIANTS
  OneLoop
