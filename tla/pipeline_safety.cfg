SPECIFICATION Spec
CONSTANTS
  e1 = e1
  e2 = e2
  w1 = w1
  w2 = w2
  NoMsg = NoMsg
  Events <- OneEvent
  Malformed <- None
  TenantTokens <- PlainTenants
  Workers <- TwoWorkers
  Reliable <- None
  Broken <- AuditBroken
  SlowHandlers = TRUE
  Expiring <- None
  MaxDeliver = 2
  Prefetch = 1
  MaxFaults = 2
SYMMETRY Symmetry
INVARIANTS
  TypeOK
  AckedMeansHandled
  DuplicatesAreRedeliveries
  HealthySinksReceive
PROPERTIES
  ImplementsLedger
