SPECIFICATION FairSpec
CONSTANT MaxSignals = 3
CHECK_DEADLOCK FALSE
INVARIANTS
  TypeOK
  ListedChildrenStopped
PROPERTIES
  AskedBeforeKilled
  StackComesDown
