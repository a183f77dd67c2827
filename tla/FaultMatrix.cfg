CONSTANTS
  Members <- MCMembers
  Account <- MCAccount
  Printed <- MCPrinted
  Counts <- MCCounts
  Nobody = "nobody"
  MaxRecoveryTotal = 6
SPECIFICATION Spec
INVARIANTS TheTruthOrNothing AsTheMatrixSays
