SPECIFICATION ConfigSpec
CONSTANTS
  Order <- ThreeProcesses
  QueueName <- PlainNames
  Letters <- MCLetters
  Entries <- PlainEntries
  PassedSets <- SomePassed
  QueuesSizes <- PlainSizes
  DefaultSize = 50
INVARIANTS
  ConfigTypeOK
  OneQueuePerConsumer
  ConsumersAreFed
  RefusedForCause
  SelfLoopsRefused
CHECK_DEADLOCK FALSE
