SPECIFICATION Spec
CONSTANTS
  e1 = e1
  e2 = e2
  e3 = e3
  Events <- ThreeEvents
  MetricTTL = 1
  AuditTTL = 1
  DefaultPage = 1
  MaxPage = 2
  MaxRepeats = 1
  MaxTime = 3
INVARIANTS
  TypeOK
  SummaryCountsRequests
  ScansMissNothing
SYMMETRY Symmetry
CHECK_DEADLOCK FALSE
