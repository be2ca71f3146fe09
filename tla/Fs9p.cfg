\* One handle, two paths, files of up to three bytes; one or two bytes of data
\* to a message, and words that wrap at three.
SPECIFICATION Spec
CONSTANTS
  Handle = {f}
  Root = root
  Paths <- MCPaths
  Data <- MCData
  Contents <- MCContents
  Word = 3
  MAXLEN = 25
  MinLen = 24
  MSizes = {23, 24, 25, 26}
  MaxSize = 3
INVARIANTS Progress FitsMessage HandleNamesItsFile
PROPERTIES ShortMeansEnd IsHostFile CallsEnd
