SPECIFICATION FairSpec
CONSTANTS
  WorkerCount = 2
  Conns = {c1, c2}
  NoConn = NoConn
  MaxJobs = 3
  MaxStarts = 2
  Options <- AllSettings
INVARIANTS
  JobsAreSound
  EndIsTold
  IdleIsListed
PROPERTIES
  JobIsDone
CHECK_DEADLOCK FALSE
