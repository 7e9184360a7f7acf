SPECIFICATION Spec
CONSTANTS
  r = r
  d1 = d1
  d2 = d2
  x = x
  b = b
  c = c
  g = g
  A = A
  B = B
  h0 = h0
  h1 = h1
  h2 = h2
  None = None
  EventIds <- MCEventIds
  Authors <- MCAuthors
  Hashes <- MCHashes
  Header <- MCHeader
  MaxTime = 1
  MaxAttempts = 1
INVARIANTS
  GraphExact
  ContentExact
  NeverRolledBack
PROPERTIES
  LifecycleForward
