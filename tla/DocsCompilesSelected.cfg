\* The second compile is given the binary of the first.
SPECIFICATION BuildSpec
CONSTANTS
  Files = {a}
  Normal = {a}
  Aliases = {}
  NoFile = NoFile
  MaxTabs = 1
  MaxText = 1
  MaxClock = 1
  SameSecond = FALSE
  Projects = {}
  Roots = {}
  Special = Special
CHECK_DEADLOCK FALSE
PROPERTIES CompilesSelected
