SPECIFICATION FairSpec
CONSTANTS
  r1 = r1
  r2 = r2
  Replicas <- OneReplica
  Files <- InitFiles
  MaxCrashes = 1
PROPERTIES
  StartupBootstraps
CHECK_DEADLOCK FALSE
