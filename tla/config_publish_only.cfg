SPECIFICATION ConfigSpec
CONSTANTS
  Order <- TwoProcesses
  QueueName <- StringNames
  Letters <- MCLetters
  Entries <- StringEntries
  PassedSets <- BothPassed
  QueuesSizes <- NoSizes
  DefaultSize = 50
INVARIANTS
  PublishedIsConsumed
CHECK_DEADLOCK FALSE
