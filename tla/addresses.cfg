CONSTANTS
  e1 = e1
  n1 = n1
  n2 = n2
  None = None
  Eip = {e1}
  Resource = {n1}
  Uid = {"u1"}
  AllocId = {"a1", "a2"}
  AssocId = {"x1", "x2", "x3", "x4", "x5"}
  Port = {"p1"}
  Ports <- MCPorts
  Labels <- MCFixedLabels
  Rank <- MCRank
  NodeNamespaceEips = {e1}
  Mortal = {e1, n1}
  Flaky = {n1}
  Resynced = {}
  Failing = {e1, n1}
  Crashing = TRUE
  PatchFailing = {e1}
SPECIFICATION Spec
INVARIANTS
  TypeOK
  OneAddressPerEip
  NoOrphanAddress
  ClaimsNameNodes
  NodeInv
