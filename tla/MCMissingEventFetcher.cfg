SPECIFICATION MissingSpec
CONSTANTS
  Item = {1, 2, 3}
  Receiver = {run}
  Run = run
  Capacities = {1}
  MaxChannels = 1
  Event = {1, 2}
  PageSize = 1
  MaxDelay = 3
INVARIANTS
  NoneAbandoned
PROPERTIES
  ScheduleKept
  RetriedForever
CHECK_DEADLOCK FALSE
