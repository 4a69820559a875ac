CONSTANTS
  a1 = a1
  a2 = a2
  p1 = p1
  p2 = p2
  c1 = c1
  e1 = e1
  None = None
  Admins = {a1, a2}
  x1 = x1
  Exporters = {x1}
  PolicyRequests = {p1, p2}
  HoldRequests = {c1}
  ReleaseRequests = {e1}
  RosterRows <- RosterHistory
  Days = {0}
  DefaultDays = 1
  PageSize = 1
  MaxAhead = 0
  MaxEvents = 1
  MaxReceipts = 2
  MaxId = 3
  MaxTime = 1
  MaxFaults = 1
SYMMETRY Symmetry
SPECIFICATION Spec
INVARIANTS
  ExportExact
  EligibleExported
  
PROPERTY
  AcknowledgedNeverBack
CHECK_DEADLOCK FALSE
