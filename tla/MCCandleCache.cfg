\* Two callers that may overlap, kills, failed writes and unreadable rows.
SPECIFICATION LiveSpec
CONSTANTS
  Callers = {c1, c2}
  Frame <- MCFrame
  Limit <- MCLimit
  Spans <- MCSpans
  Start <- MCStart
  Horizon <- MCHorizon
  MaxCalls = 2
  Keeps = {"oldest", "newest"}
  BadRows = TRUE
  WritesFail = TRUE
  Kills = TRUE
INVARIANTS
  TypeOK
  SuccessMeansSaved
  SavedStays
PROPERTIES
  CallReturns
CHECK_DEADLOCK FALSE
