CONSTANTS
  e1 = e1
  e2 = e2
  n1 = n1
  n2 = n2
  n3 = n3
  None = None
  Eip = {e1, e2}
  Node = {n1, n2, n3}
  MaxEvents = 2
  Flaky = {n1, n2}
  Leaving = {n1}
  Failing = TRUE
  WatchBreaks = TRUE
  Crashing = TRUE
SPECIFICATION FairSpec
INVARIANTS
  TypeOK
PROPERTIES
  HandoverKeepsGateway
  OneGatewayAfterJob
  TwoGatewaysOnlyIfCut
  LabelsHealed
