SPECIFICATION FairSpec
CONSTANTS
  e1 = e1
  e2 = e2
  w1 = w1
  w2 = w2
  NoMsg = NoMsg
  Events <- TwoEvents
  Malformed <- OnlyE2
  TenantTokens <- PlainTenants
  Workers <- TwoWorkers
  Reliable <- OneWorker
  Broken <- None
  SlowHandlers = FALSE
  Expiring <- OnlyE2
  MaxDeliver = 4
  Prefetch = 2
  MaxFaults = 1
INVARIANTS
  ExclusiveHandling
  RetriesAreFaults
PROPERTIES
  ImplementsLedger
  StoredIsSettled
