CONSTANTS
  e1 = e1
  n1 = n1
  n2 = n2
  None = None
  Eip = {e1}
  Resource = {n1, n2}
  Uid = {"u1"}
  AllocId = {"a1"}
  AssocId = {"x1", "x2", "x3", "x4", "x5"}
  Port = {"p1", "p2"}
  Ports <- MCPorts
  Labels <- MCFixedLabels
  Rank <- MCRank
  NodeNamespaceEips = {e1}
  Mortal = {}
  Flaky = {n1}
  Resynced = {}
  Failing = {e1}
  Crashing = FALSE
  PatchFailing = {}
SPECIFICATION FairSpec
INVARIANTS
  ClaimKnowsAssociation
  AssociationInv
PROPERTIES
  EventuallyAttached
