CONSTANTS
  lookup = lookup
  transfer = transfer
  edited = edited
  NoRisk = NoRisk
  Unsealed = Unsealed
  NoContent = NoContent
  Contents <- MCContents
  Plan <- MCPlan
  Slotted <- MCSlotted
  Remedies <- MCRemedies
SPECIFICATION Spec
INVARIANTS
  IrreversibleWasReviewed
  NoSurprises
  GateCoversRun
  ListingMatchesGate
