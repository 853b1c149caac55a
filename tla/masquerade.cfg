CONSTANTS
  Last = 4
SPECIFICATION FairSpec
INVARIANTS
  TypeOK
  NoDuplicateRules
PROPERTIES
  EndsOnlyWithoutChain
  EventuallyMarked
