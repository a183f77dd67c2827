CONSTANTS
  op1 = op1
  op2 = op2
  i1 = i1
  i2 = i2
  s1 = s1
  s2 = s2
  Operators <- MCOperators
  Ids <- MCIds
  Screens <- MCScreens
  NoOperator = NoOperator
  NoSnapshot = NoSnapshot
  NotCaptured = NotCaptured
  NoHandoff = NoHandoff
  MaxEpoch = 9
  MaxActions = 1
SPECIFICATION FairSpec
INVARIANTS
  LeaseCoherent
  OneStory
PROPERTIES
  AuditRecordIsFinal
  EveryHoldEnds
  ImplementsPromise
CHECK_DEADLOCK FALSE
