CONSTANTS
  e1 = e1
  n1 = n1
  n2 = n2
  None = None
  Eip = {e1}
  Resource = {n1}
  Uid = {"u1"}
  AllocId = {"a1"}
  AssocId = {"x1", "x2", "x3", "x4", "x5"}
  Port = {"p1"}
  Ports <- MCPorts
  Labels <- MCLabels
  Rank <- MCRank
  NodeNamespaceEips = {e1}
  Mortal = {}
  Flaky = {}
  Resynced = {e1, n1}
  Failing = {}
  Crashing = FALSE
  PatchFailing = {}
SPECIFICATION ResyncSpec
PROPERTIES
  EventuallyDetached
