SPECIFICATION FairSpec
CONSTANTS
  MaxPackets = 2
  Users = {u1}
  Free = Free
  Thread = Thread
  Acceptor = Acceptor
  Remover = Remover
  Patient = FALSE
  MayClear = TRUE
INVARIANTS
  ConnectionIsSound

  
  
CHECK_DEADLOCK FALSE
