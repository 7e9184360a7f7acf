SPECIFICATION Spec
CONSTANTS
  Msg = {1, 2, 3, 4}
  Outgoing = {2}
  PageSize = 1
  MaxFailures = 1
INVARIANTS
  NoDuplicates
  NothingSkipped
PROPERTIES
  ImplementsFeed
  ArrivalsShown
