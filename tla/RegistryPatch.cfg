\* One request at a time, two symbols.
SPECIFICATION Spec
CONSTANTS
  Threads = {t1}
  NoThread = nobody
  btc = btc
  alt = alt
  Symbols = {btc, alt}
  NoSymbol = nosym
  Btc = btc
  Found <- MCFound
  Scenes <- PatchScenes
  MaxWrites = 4
PROPERTIES
  SetKeepsTheRest
