SPECIFICATION FairSpec
CONSTANTS
  Commands = {"pull", "push_loop", "bidirectional"}
  InboxSize = 3
  OutboxSize = 1
  MaxMessages = 4
  MaxFrames = 4
  MaxCloses = 2
INVARIANTS
  TypeOK
  PulledForwarded
PROPERTIES
  LossyChannelSpec
  SessionsRenewed
  MessagesLeave
CHECK_DEADLOCK FALSE
