SPECIFICATION AttributionSpec
CONSTANTS
  p = p
  q = q
  Nil = Nil
  Text <- Texts
  Requests <- Two
  OpenAI <- JustP
  Streaming <- None
  OwnOptions <- None
  Header <- Headers
  WithKey <- Two
  Mappings <- OneMapping
  Response <- Bodies
  Flaky <- None
  Hanging <- None
  StoreMayFail = FALSE
  Age = 1
  MaxTime = 2
CHECK_DEADLOCK FALSE
INVARIANTS
  AttributedByTheTable
