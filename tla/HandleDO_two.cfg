CONSTANTS
  Calls <- TwoCalls
  Callers = {k1}
  Messages = {m1, m2}
  NoMessage = NoMessage
  NoCaller = NoCaller
  LiveMessages = {}
  Capabilities = {TRUE}
  Handlers = {1, 2}
  MailboxTtl = 2
  TombstoneTtl = 0
  RelayCallTimeout = 1
  TimeoutMs <- UnevenTimeouts
  LeaseMs <- NoOverride
  ExecutionMs <- NoOverride
  AuditRetry = 1
  StartWindow = 2
  MaxAttempts = 1
  MaxStartsPerDay = 1
  MaxQueuedTasks = 2
  MaxPerCaller = 2
  MaxStoredBytes = 3
  DrainLimit = 2
  RequestSizes = {1}
  OutcomeSizes = {2}
  Outcomes = {"completed"}
  Frames = {"call_accepted", "call_started", "call_outcome"}
  Cancellable <- OneCall
  MaxTime = 2
  LastSubmit = 0
  MaxSessions = 1
  MaxFailures = 0
SPECIFICATION Spec
INVARIANTS
  QuotaExact
  DeliveryStatesAgree
CHECK_DEADLOCK FALSE
