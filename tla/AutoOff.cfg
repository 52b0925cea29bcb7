SPECIFICATION AutoSpec
CHECK_DEADLOCK FALSE
CONSTANTS
  ToolCalls = {t1}
  Profiles = {{"unparsed"}}
  Surfaces = {"tui"}
  MaxStarts = 0
  MaxEdits = 0
  MaxAsks = 1
  MaxInputs = 0
PROPERTIES OffLeavesItToTheRules
