SPECIFICATION FairSpec
CONSTANTS
  Clients = {c1, c2}
  NoClient = NoClient
  Limits <- AllLimits
  MaxStarts = 2
  Options <- AllSettings
INVARIANTS
  ServesAsAllowed
  StartHasAddress
PROPERTIES
  AcceptGoesOn
CHECK_DEADLOCK FALSE
