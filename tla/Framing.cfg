\* The receiver is the server or the client.
SPECIFICATION FairSpec
CONSTANTS
  MaxLen = 3
  MaxPackets = 3
  Room = 3
CHECK_DEADLOCK FALSE
INVARIANTS TypeOK SpinsOnlyWhenCut
PROPERTIES ChannelSpec PacketsArrive
