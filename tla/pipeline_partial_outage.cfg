SPECIFICATION FairSpec
CONSTANTS
  e1 = e1
  e2 = e2
  w1 = w1
  w2 = w2
  NoMsg = NoMsg
  Events <- TwoEvents
  Malformed <- None
  TenantTokens <- EmptyTenants
  Workers <- OneWorker
  Reliable <- OneWorker
  Broken <- AuditBroken
  SlowHandlers = FALSE
  Expiring <- None
  MaxDeliver = 3
  Prefetch = 2
  MaxFaults = 1
PROPERTIES
  HealthySinksGetEveryEvent
