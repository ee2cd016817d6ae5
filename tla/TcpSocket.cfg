SPECIFICATION FairSpec
CONSTANTS
  MaxPackets = 2
  Killers = {k1}
  Free = Free
  Thread = Thread
  Acceptor = Acceptor
  Remover = Remover
  ProcRemover = ProcRemover
  Options <- AllSettings
INVARIANTS
  SocketIsSound
PROPERTIES
  KeepsCallbackOrder
  UnsharedIsDestroyed
CHECK_DEADLOCK FALSE
