SPECIFICATION FairSpec
CONSTANTS
  Objects = {o1, o2, o3, o4}
  NoObj = NoObj
INVARIANTS
  ReleasesInOrder
PROPERTIES
  SleeperIsWoken
CHECK_DEADLOCK FALSE
