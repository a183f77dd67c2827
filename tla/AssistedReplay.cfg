CONSTANTS
  reload = reload
  signin = signin
  Plan <- MCPlan
  RemedyPlan <- MCRemedyPlan
  Rules <- MCRules
  RemedyRules <- MCRules
  MaxAttempts <- MCMaxAttempts
  Remedies <- MCRemedies
  MaxRecoveryTotal = 3
  Triggers <- MCTriggers
  HasEntrypoint = TRUE
SPECIFICATION AssistedSpec
INVARIANTS
  AssistedSuccessCoversPlan
  RecoveriesBounded
PROPERTIES
  CorrectedStepIsNotRepeated
  EveryRunEnds
CHECK_DEADLOCK FALSE
