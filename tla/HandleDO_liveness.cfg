CONSTANTS
  Calls <- OneCall
  Callers = {k1}
  Messages = {m1}
  NoMessage = NoMessage
  NoCaller = NoCaller
  LiveMessages = {}
  Capabilities = {TRUE}
  Handlers = {1, 2}
  MailboxTtl = 2
  TombstoneTtl = 1
  RelayCallTimeout = 1
  TimeoutMs <- NoTimeout
  LeaseMs <- NoOverride
  ExecutionMs <- NoOverride
  AuditRetry = 1
  StartWindow = 2
  MaxAttempts = 2
  MaxStartsPerDay = 1
  MaxQueuedTasks = 1
  MaxPerCaller = 1
  MaxStoredBytes = 2
  DrainLimit = 3
  RequestSizes = {1}
  OutcomeSizes = {2}
  Outcomes = {"completed"}
  Frames = {"call_started", "call_rejected", "call_outcome"}
  Cancellable <- OneCall
  MaxTime = 3
  LastSubmit = 0
  MaxSessions = 1
  MaxFailures = 1
SPECIFICATION FairSpec
PROPERTIES
  EveryCallEnds
  AuditDelivered
CHECK_DEADLOCK FALSE
