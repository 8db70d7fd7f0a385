SPECIFICATION SpecTampering
CONSTANTS
  Malformed = Malformed
  Blank = Blank
  Free = Free
  old1 = old1
  old2 = old2
  other = other
  p = p
  q = q
  given = given
  legacy = legacy
  Services = {s1}
  Calls = {c1, c2}
  RunIds <- MCRunIds
  Times <- MCTimes
  Labels = {given, legacy}
  LegacyLabels = legacy
  Payloads = {p, q}
  EmptyObject = p
  Columns = {"operator_id", "record_sha256"}
  LegacyColumns = {"operator_id"}
  LegacyRows <- MCLegacyRows
  Jobs <- MCJobs
INVARIANTS
  VerdictExact
  EditLocated
