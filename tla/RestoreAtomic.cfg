SPECIFICATION Spec
CONSTANTS
  Backups = {b1}
  MaxRecords = 1
  Missing = Missing
  Damaged = Damaged
INVARIANTS
  RestoreAtomic
