SPECIFICATION FairSpec
CONSTANTS
  Users = {u1, u2}
  Thread = Thread
  Free = Free
  MaxSessions = 2
  MaxPackets = 2
  Options <- AllSettings
INVARIANTS
  NothingLeaks
PROPERTIES
  ImplementsSessions
  EndIsTold
  DisconnectReturns
CHECK_DEADLOCK FALSE
