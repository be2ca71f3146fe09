\* An undone edit is not written before the compiler runs.
SPECIFICATION Spec
CONSTANTS
  Files = {a}
  Normal = {a}
  Aliases = {}
  NoFile = NoFile
  MaxTabs = 1
  MaxText = 2
  MaxClock = 1
  SameSecond = FALSE
CHECK_DEADLOCK FALSE
INVARIANTS SavedBeforeCompile
