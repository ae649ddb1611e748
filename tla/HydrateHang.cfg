\* Downloads need not end: the worker's timeout does not end the task.
SPECIFICATION HangSpec
CONSTANTS
  Clients = {c1}
  Workers = {w1}
  MaxTasks = 2
PROPERTIES
  RunningEnds
