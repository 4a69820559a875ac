\* Two commands of one machine: every interleaving, a crash or a lost connection.
SPECIFICATION FairSpec
CONSTANTS
  Commands = {c1, c2}
  Addresses = {a1, a2}
  i1 = i1
  i2 = i2
  Bundles <- MCBundles
  None = None
  MaxPeers = 1
  MaxJobs = 1
  MailboxTtl = 1
  MaxTime = 1
  MaxFaults = 1
INVARIANTS ResultOpens SentIsRecorded
PROPERTIES PinsForward EveryCommandReports
CHECK_DEADLOCK FALSE
