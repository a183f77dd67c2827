CONSTANTS
  op1 = op1
  op2 = op2
  i1 = i1
  s1 = s1
  t1 = t1
  t2 = t2
  Operators <- MCOperators
  Ids <- MCIds
  Screens <- MCScreens
  Pool <- MCPool
  Loop = Loop
  Nobody = Nobody
  NoOperator = NoOperator
  NoSnapshot = NoSnapshot
  NotCaptured = NotCaptured
  NoHandoff = NoHandoff
  MaxClaims = 2
  MaxTimeouts = 1
SPECIFICATION FairSpec
INVARIANTS
  QuietOneStory
PROPERTIES
  GesturesLandWhileHeld
  EveryCallReturns
  EveryReturnResumes
  StepsAsPromised
CHECK_DEADLOCK FALSE
