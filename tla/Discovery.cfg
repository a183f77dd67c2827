CONSTANTS
  member = member
  balance = balance
  account = account
  short = short
  price = price
  other = other
  NoLabel = NoLabel
  GoalValues <- MCGoalValues
  Numerals <- MCNumerals
  Identifiers <- MCIdentifiers
  Decimals <- MCDecimals
  Numbers <- MCNumbers
  Labels <- MCLabels
  Texts <- MCTexts
  Outputs <- MCOutputs
  TurnTokens <- MCTurnTokens
  MaxSteps = 4
  MaxTokens = 8
  MaxUnchanged = 3
  MaxDenials = 2
SPECIFICATION FairSpec
INVARIANTS
  BudgetMatchesTrace
  BudgetIsHard
  DenialsAreStalls
  ReplayReproducesRun
PROPERTIES
  EveryDiscoveryEnds
CHECK_DEADLOCK FALSE
