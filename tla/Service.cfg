SPECIFICATION FairSpec
CONSTANTS
  r1 = r1
  r2 = r2
  r3 = r3
  r4 = r4
  here = here
  there = there
  Free = Free
  Production = TRUE
  Requests = {r1, r2, r3, r4}
  Ask <- MCAsk
  Remotes = {here, there}
  Settings <- MCSettings
  AllowReview = FALSE
  Limit = 2
  Window = 2
  MaxTime = 2
CHECK_DEADLOCK FALSE
INVARIANTS
  TypeOK
  RateLimited
  CountersBalance
  RunsAreEarned
  ProductionGuarded
PROPERTIES
  RefusalsJustified
  ServesAuditLog
  EveryRequestAnswered
