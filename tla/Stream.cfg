SPECIFICATION FairSpec
CONSTANTS
  Conns <- MCConns
  Payload <- MCPayload
  Cap = 3
  NoWriter = NoWriter
  Torn = Torn
  Stray = Stray
  Junk = Junk
PROPERTIES
  IsChannel
  MessageArrives
CHECK_DEADLOCK FALSE
