\* One file, a project, and two tabs: names, texts and times.
SPECIFICATION BuildSpec
CONSTANTS
  Files = {p}
  Normal = {p}
  Aliases = {}
  NoFile = NoFile
  MaxTabs = 2
  MaxText = 1
  MaxClock = 1
  SameSecond = FALSE
  Projects = {p}
  Roots = {}
  Special = Special
CHECK_DEADLOCK FALSE
INVARIANT BuildTypeOK
PROPERTIES RunsThisBuild ProjectGoesWithItsTab RunsWhatTabShows
