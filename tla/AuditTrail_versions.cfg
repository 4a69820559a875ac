CONSTANTS
  a1 = a1
  a2 = a2
  p1 = p1
  p2 = p2
  c1 = c1
  c2 = c2
  e1 = e1
  e2 = e2
  None = None
  Admins = {a1, a2}
  Exporters = {}
  PolicyRequests = {p1, p2}
  HoldRequests = {c1, c2}
  ReleaseRequests = {e1, e2}
  RosterRows = {}
  Days = {0, 2}
  DefaultDays = 1
  PageSize = 1
  MaxAhead = 0
  MaxEvents = 1
  MaxReceipts = 0
  MaxId = 3
  MaxTime = 0
  MaxFaults = 0
SYMMETRY Symmetry
SPECIFICATION Spec
PROPERTY
  UpdateTakesEffect
CHECK_DEADLOCK FALSE
