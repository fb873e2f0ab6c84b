SPECIFICATION StackSpec
CONSTANTS
  r1 = r1
  r2 = r2
  e1 = e1
  Replicas <- TwoReplicas
  Files <- MixedFiles
  MaxCrashes = 1
  Events <- OneEvent
  Needed <- TableFiles
  MaxDeliver = 2
  MaxOutages = 1
INVARIANTS
  TypeOK
  StackTypeOK
  ServesWholeSchema
  StuckNeedsCrash
PROPERTIES
  ReplicasEndUpServing
  FailsOnlyBeforeServing
  PublishesUnlessOutage
  OrderDoesNotMatter
CHECK_DEADLOCK FALSE
