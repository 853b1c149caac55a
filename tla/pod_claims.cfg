CONSTANTS
  e1 = e1
  r1 = r1
  None = None
  Eip = {e1}
  Resource = {r1}
  Uid = {"u1"}
  AllocId = {"a1"}
  AssocId = {"x1", "x2", "x3", "x4"}
  Port = {"p1", "p2"}
  Ports <- MCPorts
  Labels <- MCNamed
  AutoEip <- MCNoAuto
  UserEips = {e1}
  Mortal = {e1, r1}
  Resynced = {e1}
  Failing = {e1, r1}
  Crashing = TRUE
  PatchFailing = {}
SPECIFICATION Spec
INVARIANTS
  TypeOK
  AttachmentIsClaimed
  ClaimsNamePods
  PodInv
  RestsOnlyWhenServed
