\* Two handlers, two threads of which only one may ever start, three tasks,
\* and downloads that end.
SPECIFICATION LiveSpec
CONSTANTS
  Clients = {c1, c2}
  Workers = {w1, w2}
  MaxTasks = 3
INVARIANTS
  TypeOK
  NoTaskLost
  CountersMatch
  VerdictHasPayload
  OneDownload
  ReturnedIdIsKnown
PROPERTIES
  ServesInOrder
  ServesEverybody
