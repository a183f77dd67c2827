CONSTANTS
  bank = bank
  console = console
  elsewhere = elsewhere
  ok = ok
  transfer = transfer
  NoControl = NoControl
  NoHost = NoHost
  NoRisk = NoRisk
  NoCall = NoCall
  NoGesture = NoGesture
  Gone = Gone
  Hosts <- MCHosts
  Allowed <- MCAllowed
  Narrowed <- MCNarrowed
  Home <- bank
  Controls <- MCControls
  Views <- MCViews
  MaxChanges = 2
  MaxCalls = 2
SPECIFICATION DispatcherSpec
INVARIANTS
  NeverOffList
  IrreversibleIsAnswered
PROPERTIES
  RefusalIsReported
  ArrivesWithinDomains
CHECK_DEADLOCK FALSE
