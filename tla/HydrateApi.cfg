\* One handler, one worker, one poller that asks for one metrics report.
SPECIFICATION ApiSpec
CONSTANTS
  Clients = {c1}
  Workers = {w1}
  Readers = {r1}
  MaxTasks = 2
  MaxReports = 1
INVARIANTS
  AnswerConsistent
  ReportCoversShown
PROPERTIES
  PollsNeverRegress
