\* Two files, one tab: Save As onto a file that is there.
SPECIFICATION Spec
CONSTANTS
  Files = {a, b}
  Normal = {a, b}
  Aliases = {}
  NoFile = NoFile
  MaxTabs = 1
  MaxText = 2
  MaxClock = 2
  SameSecond = FALSE
CHECK_DEADLOCK FALSE
PROPERTIES CleanMeansOnDisk AskedBeforeOverwrite
