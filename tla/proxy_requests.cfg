SPECIFICATION FairSpec
CONSTANTS
  o = o
  a = a
  p = p
  Text <- Texts
  Requests <- Three
  OpenAI <- ViaOpenAI
  Streaming <- Streams
  OwnOptions <- None
  Header <- Headers
  WithKey <- OandP
  Mappings <- OneMapping
  Nil = Nil
  Response <- Answers
  Flaky <- JustO
  Hanging <- TwoHang
  StoreMayFail = FALSE
CHECK_DEADLOCK FALSE
INVARIANTS
  TypeOK
  EventsStateForwardedUsage
  CompleteAnswersAreCounted
PROPERTIES
  RequestsFinish
  ShutdownEnds
