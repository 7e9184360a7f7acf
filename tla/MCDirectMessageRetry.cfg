SPECIFICATION Spec
CONSTANTS
  Msg = {1, 2}
  Outgoing = {}
  PageSize = 1
  MaxFailures = 1
INVARIANT RetryOnWakeup
CHECK_DEADLOCK FALSE
