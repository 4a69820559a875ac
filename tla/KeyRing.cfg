CONSTANTS
  p1 = p1
  p2 = p2
  Procs = {p1, p2}
  FirstKey = FirstKey
  NoKey = NoKey
  NoRecord = NoRecord
  Senders = {s1}
  MaxLiveEpochs = 2
  MailboxTtl = 1
  Allowance = 1
  SendDelay = 1
  MaxEpoch = 3
  MaxTime = 2
  MaxCrashes = 1
  MaxOps = 3
SYMMETRY Symmetry
SPECIFICATION Spec
INVARIANTS
  EpochAgrees
  ChainUnbroken
  RefusedOnlyIfSuperseded
  MailOpens
CHECK_DEADLOCK FALSE
