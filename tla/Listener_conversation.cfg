CONSTANTS
  c1 = c1
  c2 = c2
  Calls = {c1, c2}
  NoCall = NoCall
  Slots = {s1, s2}
  NoSlot = NoSlot
  Durable = {c1}
  Threadable = {c1, c2}
  Resumes <- C2ResumesC1
  Issued <- NoneAhead
  Forking = {}
  MailboxTtl = 2
  RelayCallTimeout = 1
  TombstoneTtl = 3
  ContextTtl = 1
  Skew = 1
  LockWait = 1
  MaxRecords = 1
  MaxReservations = 1
  MaxTurns = 2
  MaxContexts = 2
  MaxDeliveries = 2
  MaxTime = 1
  MaxFailures = 0
SPECIFICATION FairSpec
PROPERTIES
  Answered
  QueueFrees
CHECK_DEADLOCK FALSE
