SPECIFICATION RecoveringSpec
CONSTANTS
  e1 = e1
  e2 = e2
  w1 = w1
  w2 = w2
  NoMsg = NoMsg
  Events <- OneEvent
  Malformed <- None
  TenantTokens <- PlainTenants
  Workers <- OneWorker
  Reliable <- OneWorker
  Broken <- AuditBroken
  SlowHandlers = FALSE
  Expiring <- None
  MaxDeliver = 5
  Prefetch = 2
  MaxFaults = 0
PROPERTIES
  EveryRequestAudited
