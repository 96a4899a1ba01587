SPECIFICATION FairSpec
CONSTANTS
  Initial <- Two
  Extra = {"extra"}
  Queue <- TwoQueues
  Uses <- TwoUses
  MaxSize <- Sizes
  KnownSize <- Sizes
  Levels <- SizeLevels
  CanFail = {"source", "extra"}
  MaxSpawns = 4
INVARIANTS
  TypeOK
  AliveInPool
  PoolRegistered
  FullQueueReported
PROPERTIES
  CallsReturn
CHECK_DEADLOCK FALSE
