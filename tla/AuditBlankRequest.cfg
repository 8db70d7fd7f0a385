SPECIFICATION Spec
CONSTANTS
  Malformed = Malformed
  Blank = Blank
  Free = Free
  l1 = l1
  l2 = l2
  l3 = l3
  ok = ok
  given = given
  legacy = legacy
  Services = {s1}
  Calls = {c1}
  RunIds <- MCRunIds
  Times <- MCTimes
  Labels = {given, legacy}
  LegacyLabels = legacy
  Payloads = {ok}
  EmptyObject = ok
  Columns = {"operator_id", "record_sha256"}
  LegacyColumns = {"operator_id"}
  LegacyRows <- MCBlankRequest
  Jobs <- MCJobs
INVARIANTS
  MigratedVerifies
