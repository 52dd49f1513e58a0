SPECIFICATION Spec
CONSTANTS
  RingSize = 8
  Capacity = 8
  SeqMod = 16
  Window = 4
  Mtu = 2
  HeaderWithIp = 1
  PacketLens = {1, 2}
  FirstSeqnos = {3, 13}
  MaxPackets = 6
  MaxLate = 5
INVARIANTS
  PacketsKeepTheirBytes
  RoomIsHeldOrInTheGap
  TracksExactlyReceived
PROPERTY
  OnlyDuplicatesPanic
CHECK_DEADLOCK FALSE
