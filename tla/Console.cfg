SPECIFICATION FairSpec
CONSTANTS
  NoRun = NoRun
  Values = {v1, v2}
  Default = v1
  MaxCalls = 3
  MaxInteractions = 4
INVARIANTS
  PageTellsTruth
  OneRecordPerClick
PROPERTIES
  PageSettles
CHECK_DEADLOCK FALSE
