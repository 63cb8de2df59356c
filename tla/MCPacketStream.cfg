SPECIFICATION Spec
CONSTANTS
  Base = 4
  IntSize = 1
  MAX_PACKET_SIZE = 9
  MAX_APPENDDATA_SIZE = 1
  Message <- MCMessage
  Gate = 3
  Center = 2
  Guest = 0
  Client = 1
  MaxPackets = 3
  adler32 <- MCadler32
INVARIANTS TypeOK InOrder
PROPERTY Delivered
CHECK_DEADLOCK FALSE
