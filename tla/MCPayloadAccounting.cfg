SPECIFICATION AccountingSpec
CONSTANTS
  None = None
  EventIds = {1, 2, 3, 4}
  Authors = {1, 2}
  Hashes = {1, 2}
  Header <- MCHeader
  ContentLen <- MCContentLen
  GcBytes = 1
  MaxTime = 1
  MaxAttempts = 0
INVARIANTS
  AccountingSound
PROPERTIES
  Spec
  CollectionSafe
  MaintenanceEnds
