SPECIFICATION Spec
CONSTANTS
  Tabs <- MCTabs
  PickerTab <- MCPickerTab
  Data <- MCData
  Groups = 1
  Queries <- MCQueries
  MaxFaults = 1
  MaxLeaves = 1
  MaxObjects = 4
INVARIANTS TagNotAhead ConnectionShared CacheComplete SearchFindsAll
PROPERTY ComposerLoads
CHECK_DEADLOCK FALSE
