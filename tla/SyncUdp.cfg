SPECIFICATION FairSpec
CONSTANTS
  Users = {u1, u2}
  MaxDatagrams = 4
  Options <- Uses
INVARIANTS
  NoSleepBesidePacket
  NothingLostOrRepeated
  EmptyFrontIsStale
PROPERTIES
  LoopGoesOn
CHECK_DEADLOCK FALSE
