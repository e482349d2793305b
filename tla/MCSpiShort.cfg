SPECIFICATION FairSpec
CONSTANTS
  Lengths = {0, 1, 2, 8}
  MaxPacket = 8
PROPERTY ShortPacketEnds
CHECK_DEADLOCK FALSE
