CONSTANTS
  e1 = e1
  e2 = e2
  None = None
  Eip = {e1}
  Resource = {}
  Uid = {"u1"}
  AllocId = {"a1", "a2", "a3"}
  AssocId = {"x1"}
  Port = {"p1"}
  Ports <- MCNoPorts
  Labels <- MCNoLabels
  OldEip <- MCNoOld
  Upgradable = {e1}
  LegacyPod = {}
  Mortal = {}
  Crashing = TRUE
  Resending = TRUE
SPECIFICATION FairSpec
PROPERTIES
  EventuallyAllocated
CHECK_DEADLOCK FALSE
