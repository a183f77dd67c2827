CONSTANTS
  Operators = {ada}
  NoOperator = NoOperator
  Screens = {screen}
  NoSnapshot = NoSnapshot
  NotCaptured = NotCaptured
  Ids = {i1}
  Controls = {balance, search}
  NoControl = NoControl
  MaxRuns = 2
  MaxCalls = 3
  MaxEpoch = 4
SYMMETRY MCSymmetry
SPECIFICATION Spec
INVARIANTS NothingPastPolicy TakeoverIsAuditable
\* Runs, calls and claims are bounded.
CHECK_DEADLOCK FALSE
