CONSTANTS
  e1 = e1
  n1 = n1
  n2 = n2
  None = None
  Eip = {e1}
  Node = {n1, n2}
  MaxEvents = 3
  Flaky = {}
  Leaving = {}
  Failing = FALSE
  WatchBreaks = FALSE
  Crashing = TRUE
SPECIFICATION FairSpec
PROPERTIES
  EventuallyGateway
CHECK_DEADLOCK FALSE
