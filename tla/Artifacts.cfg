SPECIFICATION Spec
CONSTANTS
  Absent = Absent
  p1 = p1
  p2 = p2
  Syncs = {p1, p2}
  Artifacts = 2
  Chunks = 2
  MaxVersion = 2
  MaxSyncs = 2
  MaxAltered = 1
INVARIANTS
  TrustedWhole
  StatusTells
PROPERTIES
  UnforcedKeeps
SYMMETRY Symmetry
CHECK_DEADLOCK FALSE
