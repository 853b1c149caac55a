CONSTANTS
  e1 = e1
  r1 = r1
  None = None
  Eip = {e1}
  Resource = {r1}
  Uid = {"u1", "u2"}
  AllocId = {"a1", "a2"}
  AssocId = {"x1", "x2", "x3", "x4"}
  Port = {"p1"}
  Ports <- MCPorts
  Labels <- MCNamed
  AutoEip <- MCAuto
  UserEips = {}
  Mortal = {r1}
  Resynced = {r1}
  Failing = {}
  Crashing = TRUE
  PatchFailing = {}
SPECIFICATION FairSpec
INVARIANTS
  AutoEipGoesWithPod
PROPERTIES
  EventuallyServed
  EventuallyGone
  EventuallyAutocreated
