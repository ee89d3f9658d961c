SPECIFICATION LiveSpec
CONSTANTS
  PACKET_QUEUE_SIZE = 1
  MAX_NET_CONNECTIONS = 1
  Ports = 1
  Bytes = 2
  Segments <- MCSegments
INVARIANTS
  TypeOK
  GuestStream
  EndIsWhole
  RouterLive
PROPERTIES
  Delivered
  SlotsFreed
CHECK_DEADLOCK FALSE
