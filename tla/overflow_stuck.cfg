SPECIFICATION FairSpec
CONSTANTS
  Process <- OneProcess
  Queue <- OneQueue
  MaxSize <- OneSize
  NoReader = NoReader
  PublishQueues <- OnePublish
  ConsumeQueues <- OneConsume
  QueuesToClear <- OneClear
  KeepAlive = {"p1", "c1"}
  Flags <- OneFlags
  CanLeave = {}
  CanStop = {}
  MaxSent <- OneSent
PROPERTIES
  PublishReturns
CHECK_DEADLOCK FALSE
