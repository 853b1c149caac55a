CONSTANTS
  e1 = e1
  e2 = e2
  None = None
  Eip = {e1, e2}
  Resource = {}
  Uid = {"u1", "u2", "u3"}
  AllocId = {"a1", "a2", "a3"}
  AssocId = {"x1", "x2"}
  Port = {"p1", "p2"}
  Ports <- MCNoPorts
  Labels <- MCNoLabels
  OldEip <- MCOldTwo
  Upgradable = {e1}
  LegacyPod = {"pod1", "pod2"}
  Mortal = {e1, e2}
  Crashing = TRUE
  Resending = TRUE
SPECIFICATION FairSpec
INVARIANTS
  TypeOK
  OrphansWereOld
  LegacyReleasedFirst
PROPERTIES
  ReleasesOnlyOrphans
  OrphansHealed
  EventuallyRuns
