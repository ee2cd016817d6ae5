SPECIFICATION FairSpec
CONSTANTS
  Workers = {w1, w2}
  App = App
  Server = Server
  Nobody = Nobody
  MaxPackets = 2
  Options <- MCOptions
INVARIANT ParsedInOrder
INVARIANT ListOutlivesUsers
 
CHECK_DEADLOCK FALSE
