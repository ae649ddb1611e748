\* Two threads, two symbols and a file elsewhere, two operations that make values.
SPECIFICATION Spec
CONSTANTS
  Threads = {t1, t2}
  NoThread = nobody
  btc = btc
  alt = alt
  Symbols = {btc, alt}
  NoSymbol = nosym
  Btc = btc
  Found <- MCFound
  Scenes <- MCScenes
  MaxWrites = 5
SYMMETRY Symmetric
INVARIANTS
  TypeOK
  NoTermination
  AtomsMatchModel
  RamIsOnDisk
  ReadyMeansLoaded
