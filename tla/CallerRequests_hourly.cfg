\* The allowance of one caller and two frames in one window.
SPECIFICATION Spec
CONSTANTS
  Callers = {1, 2}
  Slots = {s1, s2}
  Ids = {1, 2, 3}
  HourlyLimit = 1
  Window = 2
  PruneInterval = 1
  ContinueDelay = 1
  PageSize = 1
  MaxPages = 1
  CallTimeout = 2
  MailboxTtl = 1
  TombstoneTtl = 1
  AuditRetry = 1
  MaxOutstanding = 2
  Lister = 1
  Queries <- MCQueries
  MaxListSize = 1
  MaxTime = 2
  LastFrame = 2
  Lag = 1
INVARIANT HourlyBudget
CHECK_DEADLOCK FALSE
