SPECIFICATION Spec
CONSTANTS
  r1 = r1
  r2 = r2
  m1 = m1
  Requests <- TwoRequests
  Mappings <- OneMapping
  Nil = Nil
  NoEntry = NoEntry
  Ttl = 2
  LookupTime = 1
  MaxTime = 5
SYMMETRY Symmetry
INVARIANTS
  TypeOK
  AnswersAreFresh
PROPERTIES
  ImplementsStaleRead
