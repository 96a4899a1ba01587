SPECIFICATION Spec
CONSTANTS
  Process <- MixProcess
  Queue <- MixQueue
  MaxSize <- MixSize
  NoReader = NoReader
  PublishQueues <- MixPublish
  ConsumeQueues <- MixConsume
  QueuesToClear <- MixClear
  KeepAlive = {"c1"}
  Flags <- MixFlags
  CanLeave = {"p1","c1"}
  CanStop = {"p1","p2","c1"}
  MaxSent <- MixSent
INVARIANTS
  TypeOK
  DeliveryOrder
  EveryoneGetsACopy
  OnlyPublished
  OrderInv
CHECK_DEADLOCK FALSE
