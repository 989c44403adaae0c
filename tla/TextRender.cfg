SPECIFICATION Spec
CONSTANTS
  BoxWidths <- MCBoxWidths
  BuiltIn <- MCBuiltIn
  Defaults <- MCDefaults
  Percents = {40}
  Pitches <- MCPitches
  LineSpacing = 1
  Extent <- MCExtent
  OtherSizes = {2}
  MaxPushed = 4
  MaxCommands = 3
INVARIANTS
  InOrder
  InsideBox
  LeadingKept
  LinesAreFilled
CHECK_DEADLOCK FALSE
