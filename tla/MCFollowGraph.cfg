SPECIFICATION FollowSpec
CONSTANTS
  FollowEvents = {1, 2, 3, 4, 5, 6, 7, 8, 9, 10}
  Ids = {1, 2, 3}
  SelfId = 1
  Event <- MCEvent
INVARIANTS
  FollowTablesExact
  PublishedIsCurrent
