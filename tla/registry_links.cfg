SPECIFICATION FairSpec
CONSTANTS
  t1 = t1
  t2 = t2
  n1 = n1
  n2 = n2
  a1 = a1
  w1 = w1
  w2 = w2
  TenantIds <- Two
  Names <- TwoNames
  AgentIds <- OneAgent
  Ingest <- TwoIngest
  None = None
  MaxCalls = 5
INVARIANTS
  TypeOK
  LinkedTenantsExist
PROPERTIES
  OnlyEditsUnlink
  TrafficLinksAgents
