SPECIFICATION Spec
CONSTANTS
  q1 = q1
  q2 = q2
  i1 = i1
  i2 = i2
  c1 = c1
  c2 = c2
  None = None
  Requests <- TwoRequests
  Ingest <- TwoIngest
  Clients <- TwoClients
  Window = 1
  MaxLag = 1
  MaxStatement = 1
  MaxDeliver = 2
  MaxTime = 5
  MaxCalls = 4
INVARIANTS
  TypeOK
  ActiveIsRecent
  SeenNearlyMonotone
  CountIsUpserts
  AnsweredEditsStick
  NotFoundIsFinal
SYMMETRY Symmetry
CHECK_DEADLOCK FALSE
