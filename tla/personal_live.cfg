SPECIFICATION FairSpec
CONSTANTS
  Client = {"c1", "c2"}
  Service = {"s1"}
  NoService = "none"
  Listeners <- Solo
  RequestSize = 1
  SystemSize = 1
  MaxStash = 1
  ClearOnOverflow = {TRUE, FALSE}
  ClearAll = {TRUE, FALSE}
  MaxInHand = 1
  MaxAsked = 2
  MaxRequests = 3
  MaxLives = 1
  FaultyServices = {"s1"}
PROPERTIES
  CallsReturn
  EveryRequestReturns
CHECK_DEADLOCK FALSE
