CONSTANTS
  Calls <- OneCall
  Callers = {k1}
  Messages = {m1}
  NoMessage = NoMessage
  NoCaller = NoCaller
  LiveMessages = {NoMessage}
  Capabilities = {TRUE}
  Handlers = {1, 2}
  MailboxTtl = 2
  TombstoneTtl = 1
  RelayCallTimeout = 1
  TimeoutMs <- NoTimeout
  LeaseMs <- UnevenSessions
  ExecutionMs <- UnevenSessions
  AuditRetry = 1
  StartWindow = 2
  MaxAttempts = 2
  MaxStartsPerDay = 1
  MaxQueuedTasks = 1
  MaxPerCaller = 1
  MaxStoredBytes = 2
  DrainLimit = 2
  RequestSizes = {1}
  OutcomeSizes = {2}
  Outcomes = {"completed"}
  Frames = {"call_started", "call_cancelled", "call_outcome"}
  Cancellable <- OneCall
  MaxTime = 3
  LastSubmit = 0
  MaxSessions = 2
  MaxFailures = 1
SPECIFICATION Spec
INVARIANTS
  AuditOrder
  DueExact
  DedupeExact
  AlarmArmed
PROPERTIES
  SubmissionProtected
  OneDelivery
  DeadlineNotExtended
  NoIntentLost
  LifecycleKept
CHECK_DEADLOCK FALSE
