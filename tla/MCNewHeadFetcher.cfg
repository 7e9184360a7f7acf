SPECIFICATION MCFetcherSpec
CONSTANTS
  Ids = {1, 2}
  SelfId = 1
  Workers = {w1, w2}
  MaxPending = 1
  Capacity = 1
  MaxHeads = 1
  MaxWotChanges = 1
INVARIANTS
  WorkQueueSound
  NothingForgotten
PROPERTY HeadsAttempted
CHECK_DEADLOCK FALSE
