SPECIFICATION FairSpec
CONSTANTS
  MaxLogSize = 3
  MaxRecords = 6
  MaxConnections = 4
INVARIANTS
  TypeOK
  Accounted
  OneNoticePerOverload
PROPERTIES
  LossyChannelSpec
  RecordsLeave
CHECK_DEADLOCK FALSE
