CONSTANTS
  c1 = c1
  c2 = c2
  Calls = {c1, c2}
  NoCall = NoCall
  Slots = {s1, s2}
  NoSlot = NoSlot
  Durable = {c1, c2}
  Threadable = {c1, c2}
  Resumes <- NoneResumes
  Issued <- C2Later
  Forking = {c1}
  MailboxTtl = 1
  RelayCallTimeout = 1
  TombstoneTtl = 3
  ContextTtl = 1
  Skew = 1
  LockWait = 1
  MaxRecords = 1
  MaxReservations = 1
  MaxTurns = 2
  MaxContexts = 2
  MaxDeliveries = 2
  MaxTime = 4
  MaxFailures = 1
SPECIFICATION Spec
INVARIANTS
  AtMostOnce
  OneAgent
PROPERTIES
  JournalFirst
  ConversationKept
CHECK_DEADLOCK FALSE
