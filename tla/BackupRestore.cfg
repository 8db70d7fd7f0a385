SPECIFICATION Spec
CONSTANTS
  Backups = {b1, b2}
  MaxRecords = 1
  Missing = Missing
  Damaged = Damaged
INVARIANTS
  TypeOK
  SnapshotComplete
  FailedBackupNeverMisleads
  RestoredIsSigned
  NoForeignLog
  PreviousKept
PROPERTIES
  FailedRestoreChangesNothing
