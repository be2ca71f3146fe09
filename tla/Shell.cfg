SPECIFICATION Spec
CONSTANTS
  Typed <- MCTyped
  Gaps <- MCGaps
  Media <- MCMedia
  HostFiles <- MCHostFiles
  LineSize = 10
  PATH_MAX = 4
  MaxLines = 2
\* The shell ends with its input, or by exec.
CHECK_DEADLOCK FALSE
INVARIANTS RunsWhatWasMeant
PROPERTIES LeavesNothing CopyCopies CommandsEnd
