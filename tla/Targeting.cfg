CONSTANTS
  savings = savings
  Savings = Savings
  dash = dash
  money = money
  save = save
  SAVE = SAVE
  edit = edit
  row1 = row1
  row2 = row2
  nav = nav
  form = form
  css = css
  blank = blank
  NoName = NoName
  NoRow = NoRow
  NoFrame = NoFrame
  NoRegion = NoRegion
  NoHint = NoHint
  NoTarget = NoTarget
  NoResolution = NoResolution
  Roles <- MCRoles
  Names <- MCNames
  Rows <- MCRows
  Frames <- MCFrames
  Regions <- MCRegions
  Hints <- MCHints
  ReadableRoles <- MCReadable
  Values <- MCValues
  Folds <- MCFolds
  Blank <- blank
  FoldOf <- MCFoldOf
  Shapes <- MCShapes
  MaxNodes = 3
  MaxChanges = 1
SPECIFICATION Spec
INVARIANTS
  DescribesItsControl
  NeverByPosition
  OtherNameIsDrift
CHECK_DEADLOCK FALSE
