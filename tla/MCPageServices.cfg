CONSTANTS
  Targets = {"post", "reply"}
  MaxFiles = 2
  MaxAttempts = 1
  MaxTimers = 1
  Capacity = 1
  MaxWire = 2
  MaxArrivals = 2
  TitleCap = 1
SPECIFICATION Spec
INVARIANTS PreviewsUnwind ProgressOfLast
PROPERTIES NotificationsGo PasteEnds BadgesCatchUp
CHECK_DEADLOCK FALSE
