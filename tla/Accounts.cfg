CONSTANTS
  h1 = h1
  h2 = h2
  m1 = m1
  m2 = m2
  i1 = i1
  i2 = i2
  r1 = r1
  r2 = r2
  None = None
  Handles = {h1, h2}
  Machines = {m1, m2}
  Invites = {i1, i2}
  Requests = {r1, r2}
  MaxActiveInvites = 1
  InviteTtl = 1
  InviteRetention = 0
  ReceiptTtl = 1
  MaxSecret = 4
  MaxTime = 1
  MaxFaults = 1
  MaxConnects = 1
SYMMETRY Symmetry
SPECIFICATION Spec
INVARIANTS
  InviteEnrolsOne
  ConsumedOnce
  CandidateKept
  EvictionKept
  NoStaleListener
CHECK_DEADLOCK FALSE
