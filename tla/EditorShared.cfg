\* Two tabs that can come to share one file, by one name or by two; every handler comes to its end.
SPECIFICATION FairSpec
CONSTANTS
  Files = {a, r}
  Normal = {a}
  Aliases = {{a, r}}
  NoFile = NoFile
  MaxTabs = 2
  MaxText = 1
  MaxClock = 1
  SameSecond = FALSE
\* The program exits, and texts run out.
CHECK_DEADLOCK FALSE
INVARIANTS TypeOK CleanShowsBase NoticesChange CompilesWhatTabsShow
PROPERTIES NoUnaskedClose OpenMakesNoDouble HandlerEnds
