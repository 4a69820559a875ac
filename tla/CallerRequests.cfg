\* Two callers, two frames at a time, two calls; a sweep looks at one key a turn.
SPECIFICATION FairSpec
CONSTANTS
  Callers = {1, 2}
  Slots = {s1, s2}
  Ids = {1, 2}
  HourlyLimit = 1
  Window = 2
  PruneInterval = 1
  ContinueDelay = 1
  PageSize = 1
  MaxPages = 1
  CallTimeout = 2
  MailboxTtl = 1
  TombstoneTtl = 1
  AuditRetry = 1
  MaxOutstanding = 1
  Lister = 1
  Queries <- MCQueries
  MaxListSize = 1
  MaxTime = 6
  LastFrame = 1
  Lag = 1
INVARIANT ListingExact
PROPERTY SweepDrains
CHECK_DEADLOCK FALSE
