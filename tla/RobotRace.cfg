\* Two handlers at once.
SPECIFICATION Spec
CONSTANTS
  Handlers = {h1, h2}
  Symbols = {s1}
  MaxStarts = 2
  Faults = {}
INVARIANTS
  NoCrash
