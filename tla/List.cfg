SPECIFICATION FairSpec
CONSTANTS
  Objects = {o1, o2, o3}
  NoObj = NoObj
  MaxCount = 2
  MayClear = TRUE
  MayDestroy = TRUE
INVARIANTS
  ObjectsAreSound
PROPERTIES
  ImplementsRegistry
  UsesRemoverProperly
  OwnerGetsRoom
CHECK_DEADLOCK FALSE
