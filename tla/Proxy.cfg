SPECIFICATION FairSpec
CONSTANTS
  Socket = Socket
  Thread = Thread
  Stopper = Stopper
  Free = Free
  MaxSessions = 1
  MaxPackets = 2
INVARIANTS
  ToldOnceAndLast
  NoMutualWait
PROPERTIES
  EndsTogether
CHECK_DEADLOCK FALSE
