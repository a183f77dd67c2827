CONSTANTS
  plain = plain
  masked = masked
  member = member
  nobody = nobody
  Contents <- MCContents
  Masked <- MCMasked
  Cases <- MCCases
  Truth <- MCTruth
  Behaviours <- MCBehaviours
  Repeats <- MCRepeats
  NumSuites = 2
  MaxBegun = 2
  Unsealed = Unsealed
  NoSuite = NoSuite
  NoEvaluation = NoEvaluation
SPECIFICATION EvaluationSpec
INVARIANT EvaluationSaysWhatHappened
PROPERTY ApprovedOnItsOwnEvidence
