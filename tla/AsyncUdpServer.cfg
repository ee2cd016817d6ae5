SPECIFICATION FairSpec
CONSTANTS
  Clients = {c1, c2}
  NoClient = NoClient
  MaxSockets = 2
  MaxDatagrams = 3
  Options <- AllSettings
INVARIANTS
  ServesItsClient
  SleepsOnlyIfMissed
PROPERTIES
  KeepsCallbackOrder
  EndedIsDestroyed
CHECK_DEADLOCK FALSE
