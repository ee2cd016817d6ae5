SPECIFICATION FairSpec
CONSTANTS
  Senders = {s1, s2}
  Packets = {1, 2, 3}
  Length <- Sizes
  HeaderSize = 2
  Window = 3
  Free = Free
  NoPacket = NoPacket
  Garbage = Garbage
INVARIANTS
  FramingIsSound
PROPERTIES
  ImplementsChannel
  WholeIsDelivered
CHECK_DEADLOCK FALSE
