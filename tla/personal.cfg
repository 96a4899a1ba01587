SPECIFICATION Spec
CONSTANTS
  Client = {"c1"}
  Service = {"s1", "s2"}
  NoService = "none"
  Listeners <- Duo
  RequestSize = 1
  SystemSize = 2
  MaxStash = 1
  ClearOnOverflow = {TRUE, FALSE}
  ClearAll = {TRUE, FALSE}
  MaxInHand = 2
  MaxAsked = 2
  MaxRequests = 2
  MaxLives = 2
  FaultyServices = {"s2"}
INVARIANTS
  TypeOK
  StashBound
  AnswerKept
  WaitedNotStashed
  AnswerComing
CHECK_DEADLOCK FALSE
