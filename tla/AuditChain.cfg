SPECIFICATION FairSpec
CONSTANTS
  Malformed = Malformed
  Blank = Blank
  Free = Free
  l1 = l1
  l2 = l2
  l3 = l3
  ok = ok
  given = given
  legacy = legacy
  Services = {s1, s2}
  Calls = {c1, c2}
  RunIds <- MCRunIds
  Times <- MCTimes
  Labels = {given, legacy}
  LegacyLabels = legacy
  Payloads = {ok}
  EmptyObject = ok
  Columns = {"operator_id", "record_sha256"}
  LegacyColumns = {"operator_id"}
  LegacyRows <- MCLegacyRows
  Jobs <- MCJobs
INVARIANTS
  TypeOK
  ChainIntact
  MigrationAtomic
  ServingVerifies
  ReceiptsDurable
  FailedLeavesNoRow
PROPERTIES
  HistoryOnlyGrows
  ImplementsAuditLog
  StartUpEnds
  EveryCallAnswered
