SPECIFICATION FairSpec
CONSTANTS
  Process <- FanProcess
  Queue <- FanQueue
  MaxSize <- FanSize
  NoReader = NoReader
  PublishQueues <- FanPublish
  ConsumeQueues <- FanConsume
  QueuesToClear <- FanClear
  KeepAlive = {"c1", "c2", "p1", "p2"}
  Flags <- FanFlags
  CanLeave = {"c1"}
  CanStop = {}
  MaxSent <- FanSent
PROPERTIES
  PublishReturns
  Delivered
CHECK_DEADLOCK FALSE
