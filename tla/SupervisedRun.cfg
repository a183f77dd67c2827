CONSTANTS
  reload = reload
  signin = signin
  Plan <- MCPlan
  RemedyPlan <- MCRemedyPlan
  Rules <- MCRules
  RemedyRules <- MCRules
  MaxAttempts <- MCMaxAttempts
  Remedies <- MCRemedies
  MaxRecoveryTotal = 3
  Triggers <- MCTriggers
  HasEntrypoint = TRUE
  op1 = op1
  i1 = i1
  i2 = i2
  s1 = s1
  Operators <- MCOperators
  Ids <- MCIds
  Screens <- MCScreens
  NoOperator = NoOperator
  NoSnapshot = NoSnapshot
  NotCaptured = NotCaptured
  NoHandoff = NoHandoff
  MaxEpoch = 8
  MaxActions = 0
  MaxRuns = 3
SPECIFICATION Spec
INVARIANTS
  SuccessCoversPlan
  SuccessReturnsAllRead
  AskingLeavesOneRequest
PROPERTIES
  AutomationActsWhenEntitled
CHECK_DEADLOCK FALSE
